---------------------------- MODULE Services_proofs ----------------------------
(***************************************************************************)
(* Proofs about the three services: the client of the weather wire, the    *)
(* health of the sources and the public feed, each for any values of its   *)
(* constants, and that their composition is each of them.                  *)
(*                                                                         *)
(* The wire.  A worker that is alive and not supervised was too slow, or   *)
(* took the place of one that was: when a slow worker ends at last it      *)
(* takes away the registered client, and the session supervised by then    *)
(* can no longer be asked to stop (Stray).  The slow ones thus pay for the *)
(* workers left behind and for a stray session (DebtsCovered); no other    *)
(* session is unasked when the supervisor joins it (JoinedWasAsked), as    *)
(* only the newest worker can still be on its way to registering           *)
(* (OnlyNewestStarts).                                                     *)
(*                                                                         *)
(* Health.  A source that is silent for longer than its limit and the time *)
(* since the last evaluation was impaired then, so the snapshot names it   *)
(* (SilentIsNamed), and the mode fits the snapshot (ModeFits).  The time   *)
(* since the sources are well is within the time of the mode, and once     *)
(* that has reached the hold, within the hold and the round that is under  *)
(* way (HoldCovers).                                                       *)
(*                                                                         *)
(* The feed.  RowSoon is the row of an identifier once the transaction     *)
(* under way is done: it is what was aired for those that live, and none   *)
(* for those that ended, whatever the thread does in between.              *)
(***************************************************************************)
EXTENDS Services, FiniteSetTheorems, TLAPS

(* The client of the weather wire                                          *)

Watched == {"waitStart", "waitJoin", "monitor"}

SessionTyped ==
  /\ worker \in [Workers -> {"dead", "starting", "connecting", "session", "closing"}]
  /\ asked \subseteq Workers
  /\ cur \in Workers \cup {NoWorker}
  /\ slow \in Nat
  /\ sup \in Watched => cur \in Workers
  /\ sup = "start" => cur = NoWorker

(* A supervised session that no stop() would reach.                        *)
Stray ==
  /\ cur \in Alive /\ worker[cur] \in Running
  /\ client # cur /\ cur \notin asked

DebtsCovered ==
  Cardinality(Alive \ {cur}) + (IF Stray THEN 1 ELSE 0) <= slow

(* Starting workers are watched, or the supervisor gives them the time to  *)
(* start.                                                                  *)
OnlyNewestStarts ==
  \A w \in Workers : worker[w] = "starting" => w = cur /\ sup \in Watched \cup {"backoff"}

JoinedWasAsked ==
  sup \in {"join", "errorJoin"} /\ client = cur /\ cur \in Alive =>
    cur \in asked \/ worker[cur] = "closing"

(* With no slow worker the events are those of the supervised session.     *)
JoinedIsCurrent ==
  /\ slow = 0 /\ sup \in Watched /\ joinedEvt => cur \in confirmed
  /\ sup = "monitor" => joinedEvt

SessionInv ==
  /\ SessionTyped /\ DebtsCovered /\ OnlyNewestStarts /\ JoinedWasAsked
  /\ JoinedIsCurrent /\ DeathIsNoticed

(* Counting                                                                *)

LEMMA AliveFinite ==
  ASSUME NEW S \in SUBSET Alive
  PROVE  IsFiniteSet(S) /\ Cardinality(S) \in Nat
PROOF
<1>1. IsFiniteSet(S)
  BY SessionAssumption, FS_Subset DEF Alive
<1>2. QED
  BY <1>1, FS_CardinalityType

(* A step that neither leaves a worker behind nor makes a session stray.   *)
LEMMA NoMoreDebts ==
  ASSUME SessionTyped, DebtsCovered, Alive' \ {cur'} = Alive \ {cur}, slow' = slow, Stray' => Stray
  PROVE  DebtsCovered'
PROOF
<1>1. Cardinality(Alive \ {cur}) \in Nat
  BY AliveFinite
<1>2. Cardinality(Alive' \ {cur'}) = Cardinality(Alive \ {cur})
  OBVIOUS
<1>3. QED
  BY <1>1, <1>2 DEF DebtsCovered, SessionTyped

LEMMA NobodyElse ==
  ASSUME SessionTyped, DebtsCovered, slow = 0
  PROVE  Alive \subseteq {cur}
PROOF
<1>1. IsFiniteSet(Alive \ {cur}) /\ Cardinality(Alive \ {cur}) \in Nat
  BY AliveFinite
<1>2. Cardinality(Alive \ {cur}) = 0
  BY <1>1 DEF DebtsCovered
<1>3. QED
  BY <1>1, <1>2, FS_EmptySet

(* The supervisor's steps that keep its worker.                            *)
LEMMA SuperviseStep ==
  ASSUME SessionInv, Stop \/ WaitStart \/ WaitJoin \/ BackOff \/ Monitor
  PROVE  SessionInv'
PROOF
<1>. USE DEF SessionInv
<1>1. /\ UNCHANGED <<worker, cur, client, joinedEvt, slow, confirmed>>
      /\ \/ Stop
         \/ UNCHANGED <<asked, stopEvt>> /\ (WaitStart \/ WaitJoin \/ BackOff \/ Monitor)
  BY DEF Stop, WaitStart, WaitJoin, BackOff, Monitor, eventVars, sharedVars
<1>2. /\ asked' \subseteq Workers /\ asked \subseteq asked'
      /\ stopEvt => stopEvt'
  BY <1>1 DEF Stop, SessionTyped
<1>3. sup' \in Watched => sup \in Watched /\ sup # "monitor" /\ (sup' = "monitor" => joinedEvt)
  BY DEF Stop, WaitStart, WaitJoin, BackOff, Monitor, Watched
<1>4. sup' # "start"
  BY DEF Stop, WaitStart, WaitJoin, BackOff, Monitor
<1>5. SessionTyped'
  BY <1>1, <1>2, <1>3, <1>4 DEF SessionTyped
<1>6. DebtsCovered'
  <2>1. Alive' = Alive
    BY <1>1 DEF Alive
  <2>2. Stray' => Stray
    BY <1>1, <1>2 DEF Stray, Alive
  <2>3. QED
    BY <1>1, <2>1, <2>2, NoMoreDebts
<1>7. OnlyNewestStarts'
  <2>. SUFFICES ASSUME NEW w \in Workers, worker[w] = "starting"
                PROVE  w = cur /\ sup' \in Watched \cup {"backoff"}
    BY <1>1 DEF OnlyNewestStarts
  <2>1. w = cur /\ sup \in Watched \cup {"backoff"} /\ ~Settled
    BY DEF OnlyNewestStarts, Settled
  <2>2. QED
    BY <2>1 DEF Stop, WaitStart, WaitJoin, BackOff, Monitor, Watched
<1>8. JoinedWasAsked'
  <2>1. CASE Stop
    BY <1>1, <2>1 DEF Stop, JoinedWasAsked, Alive
  <2>2. CASE ~Stop
    <3>1. sup' \notin {"join", "errorJoin"}
      BY <1>1, <2>2 DEF WaitStart, WaitJoin, BackOff, Monitor
    <3>2. QED
      BY <3>1 DEF JoinedWasAsked
  <2>3. QED
    BY <2>1, <2>2
<1>9. JoinedIsCurrent' /\ DeathIsNoticed'
  BY <1>1, <1>2, <1>3 DEF JoinedIsCurrent, DeathIsNoticed, Watched
<1>10. QED
  BY <1>5, <1>6, <1>7, <1>8, <1>9

(* It lets go of its worker, which ended, or it leaves it behind.          *)
LEMMA LeaveStep ==
  ASSUME SessionInv, Join \/ GiveUp
  PROVE  SessionInv'
PROOF
<1>. USE DEF SessionInv
<1>1. /\ sup \in {"join", "errorJoin"} /\ sup' \in {"start", "backoff"} /\ cur' = NoWorker
      /\ UNCHANGED <<worker, asked, client, stopEvt, joinedEvt, confirmed>>
  BY DEF Join, GiveUp, eventVars, sharedVars
<1>2. slow' \in Nat
  BY DEF Join, GiveUp, SessionTyped
<1>3. SessionTyped'
  BY <1>1, <1>2 DEF SessionTyped, Watched
<1>4. Alive' = Alive /\ Alive \subseteq Workers /\ NoWorker \notin Alive
  BY <1>1, SessionAssumption DEF Alive
<1>5. ~Stray'
  BY <1>1, <1>4 DEF Stray
<1>6. DebtsCovered'
  <2>1. CASE Join
    BY <1>1, <1>4, <1>5, <2>1, NoMoreDebts DEF Join
  <2>2. CASE GiveUp
    <3>1. /\ IsFiniteSet(Alive \ {cur}) /\ Cardinality(Alive \ {cur}) \in Nat
      BY AliveFinite
    <3>2. Alive' \ {cur'} = (Alive \ {cur}) \cup {cur} /\ cur \notin Alive \ {cur}
      BY <1>1, <1>4, <2>2 DEF GiveUp
    <3>3. Cardinality(Alive' \ {cur'}) = Cardinality(Alive \ {cur}) + 1
      BY <3>1, <3>2, FS_AddElement
    <3>4. \/ slow' = slow + 1
          \/ slow' = slow /\ cur \in Alive /\ cur \notin asked /\ worker[cur] # "closing"
      BY <2>2 DEF GiveUp
    <3>5. CASE slow' = slow + 1
      BY <1>5, <3>1, <3>3, <3>5 DEF DebtsCovered, SessionTyped
    <3>6. CASE slow' = slow /\ cur \in Alive /\ cur \notin asked /\ worker[cur] # "closing"
      <4>1. client # cur
        BY <1>1, <3>6 DEF JoinedWasAsked
      <4>2. worker[cur] # "starting"
        BY <1>1, <3>6 DEF OnlyNewestStarts, Watched, Alive
      <4>3. worker[cur] \in Running
        BY <3>6, <4>2 DEF SessionTyped, Alive, Running
      <4>4. Stray
        BY <3>6, <4>1, <4>3 DEF Stray
      <4>5. QED
        BY <1>5, <3>1, <3>3, <3>6, <4>4 DEF DebtsCovered, SessionTyped
    <3>7. QED
      BY <3>4, <3>5, <3>6
  <2>3. QED
    BY <2>1, <2>2
<1>7. OnlyNewestStarts'
  BY <1>1 DEF OnlyNewestStarts, Watched
<1>8. JoinedWasAsked' /\ JoinedIsCurrent' /\ DeathIsNoticed'
  BY <1>1 DEF JoinedWasAsked, JoinedIsCurrent, DeathIsNoticed, Watched
<1>9. QED
  BY <1>3, <1>6, <1>7, <1>8

LEMMA StartStep ==
  ASSUME SessionInv, NEW w \in Workers, Start(w)
  PROVE  SessionInv'
PROOF
<1>. USE DEF SessionInv
<1>1. /\ sup = "start" /\ sup' = "waitStart" /\ w \notin Alive /\ cur' = w
      /\ worker' = [worker EXCEPT ![w] = "starting"]
      /\ asked' = asked \ {w} /\ ~joinedEvt' /\ slow' = slow
  BY DEF Start
<1>2. cur = NoWorker /\ worker'[w] = "starting"
  BY <1>1 DEF SessionTyped
<1>3. SessionTyped'
  BY <1>1, <1>2 DEF SessionTyped, Watched
<1>4. DebtsCovered'
  <2>1. Alive' = Alive \cup {w} /\ NoWorker \notin Alive
    BY <1>1, SessionAssumption DEF Alive, SessionTyped
  <2>2. ~Stray'
    BY <1>1, <1>2 DEF Stray, Running
  <2>3. Alive' \ {cur'} = Alive \ {cur}
    BY <1>1, <1>2, <2>1
  <2>4. QED
    BY <1>1, <2>2, <2>3, NoMoreDebts
<1>5. OnlyNewestStarts'
  BY <1>1 DEF OnlyNewestStarts, SessionTyped, Watched
<1>6. JoinedWasAsked' /\ JoinedIsCurrent' /\ DeathIsNoticed'
  BY <1>1, <1>2 DEF JoinedWasAsked, JoinedIsCurrent, DeathIsNoticed
<1>7. QED
  BY <1>3, <1>4, <1>5, <1>6

(* A worker goes on without ending, and perhaps to close.                  *)
LEMMA WorkStep ==
  ASSUME SessionInv, NEW w \in Workers,
         Register(w) \/ Fail(w) \/ FailAuth(w) \/ SessionStart(w) \/ Disconnect(w)
  PROVE  SessionInv'
PROOF
<1>. USE DEF SessionInv
<1>1. /\ UNCHANGED <<asked, sup, cur, stopEvt, joinedEvt, slow, confirmed>>
  BY DEF Register, Fail, FailAuth, SessionStart, Disconnect, eventVars, sharedVars
<1>2. PICK next \in {"connecting", "session", "closing"} :
        /\ worker' = [worker EXCEPT ![w] = next]
        /\ worker[w] # "dead" /\ worker[w] # "closing"
        /\ \/ Register(w) /\ worker[w] = "starting" /\ client' = w
           \/ /\ ~Register(w) /\ client' = client
              /\ next = "closing" \/ (worker[w] = "connecting" /\ next = "session")
  BY DEF Register, Fail, FailAuth, SessionStart, Disconnect, Running
<1>3. SessionTyped'
  BY <1>1, <1>2 DEF SessionTyped
<1>4. Alive' = Alive
  BY <1>1, <1>2 DEF Alive, SessionTyped
<1>5. DebtsCovered'
  <2>1. Stray' => Stray
    <3>1. CASE Register(w)
      <4>1. w = cur
        BY <1>2, <3>1 DEF OnlyNewestStarts
      <4>2. client' = cur'
        BY <1>1, <1>2, <3>1, <4>1
      <4>3. QED
        BY <4>2 DEF Stray
    <3>2. CASE ~Register(w)
      BY <1>1, <1>2, <1>4, <3>2 DEF Stray, Running, SessionTyped
    <3>3. QED
      BY <3>1, <3>2
  <2>2. QED
    BY <1>1, <1>4, <2>1, NoMoreDebts
<1>6. OnlyNewestStarts'
  BY <1>1, <1>2 DEF OnlyNewestStarts, SessionTyped
<1>7. JoinedWasAsked'
  <2>1. CASE Register(w)
    <3>1. sup \in Watched \cup {"backoff"}
      BY <1>2, <2>1 DEF OnlyNewestStarts
    <3>2. QED
      BY <1>1, <3>1 DEF JoinedWasAsked, Watched
  <2>2. CASE ~Register(w)
    BY <1>1, <1>2, <1>4, <2>2 DEF JoinedWasAsked, SessionTyped
  <2>3. QED
    BY <2>1, <2>2
<1>8. JoinedIsCurrent' /\ DeathIsNoticed'
  BY <1>1, <1>2 DEF JoinedIsCurrent, DeathIsNoticed, SessionTyped, Watched
<1>9. QED
  BY <1>3, <1>5, <1>6, <1>7, <1>8

(* The room lets a session in: with no slow worker it is the watched one.  *)
LEMMA RoomStep ==
  ASSUME SessionInv, NEW w \in Workers, Presence(w) \/ Message(w)
  PROVE  SessionInv'
PROOF
<1>. USE DEF SessionInv
<1>1. /\ UNCHANGED <<worker, asked, sup, cur, client, stopEvt, slow>>
      /\ worker[w] = "session" /\ confirmed' = confirmed \cup {w}
      /\ joinedEvt => joinedEvt'
  BY DEF Presence, Message
<1>2. Alive' = Alive /\ w \in Alive
  BY <1>1 DEF Alive
<1>3. DebtsCovered'
  BY <1>1, <1>2, NoMoreDebts DEF Stray
<1>4. JoinedIsCurrent'
  <2>1. ASSUME slow = 0 PROVE cur' \in confirmed'
    BY <1>1, <1>2, <2>1, NobodyElse
  <2>2. QED
    BY <1>1, <2>1 DEF JoinedIsCurrent
<1>5. SessionTyped' /\ OnlyNewestStarts' /\ JoinedWasAsked' /\ DeathIsNoticed'
  BY <1>1, <1>2 DEF SessionTyped, OnlyNewestStarts, JoinedWasAsked, DeathIsNoticed
<1>6. QED
  BY <1>3, <1>4, <1>5

(* A worker ends: a debt is paid, or a session goes stray for it.          *)
LEMMA EndStep ==
  ASSUME SessionInv, NEW w \in Workers, End(w)
  PROVE  SessionInv'
PROOF
<1>. USE DEF SessionInv
<1>1. /\ worker[w] = "closing" /\ worker' = [worker EXCEPT ![w] = "dead"]
      /\ client' = NoWorker /\ stopEvt'
      /\ UNCHANGED <<asked, sup, cur, joinedEvt, slow, confirmed>>
  BY DEF End, sharedVars
<1>2. SessionTyped'
  BY <1>1 DEF SessionTyped
<1>3. Alive' = Alive \ {w} /\ w \in Alive
  BY <1>1 DEF Alive, SessionTyped
<1>4. DebtsCovered'
  <2>1. CASE w = cur
    <3>1. ~Stray' /\ Alive' \ {cur'} = Alive \ {cur}
      BY <1>1, <1>3, <2>1 DEF Stray
    <3>2. QED
      BY <1>1, <3>1, NoMoreDebts
  <2>2. CASE w # cur
    <3>1. IsFiniteSet(Alive \ {cur}) /\ Cardinality(Alive \ {cur}) \in Nat
      BY AliveFinite
    <3>2. w \in Alive \ {cur} /\ Alive' \ {cur'} = (Alive \ {cur}) \ {w}
      BY <1>1, <1>3, <2>2
    <3>3. Cardinality(Alive' \ {cur'}) = Cardinality(Alive \ {cur}) - 1
      BY <3>1, <3>2, FS_RemoveElement, ZenonT(30)
    <3>4. QED
      BY <1>1, <3>1, <3>3 DEF DebtsCovered, SessionTyped
  <2>3. QED
    BY <2>1, <2>2
<1>5. OnlyNewestStarts'
  BY <1>1 DEF OnlyNewestStarts, SessionTyped
<1>6. JoinedWasAsked'
  BY <1>1, <1>3, SessionAssumption DEF JoinedWasAsked, Alive
<1>7. JoinedIsCurrent' /\ DeathIsNoticed'
  BY <1>1 DEF JoinedIsCurrent, DeathIsNoticed
<1>8. QED
  BY <1>2, <1>4, <1>5, <1>6, <1>7

LEMMA SessionInductive == SessionInv /\ [SessionNext]_sessionVars => SessionInv'
PROOF
<1>. SUFFICES ASSUME SessionInv, [SessionNext]_sessionVars PROVE SessionInv'
  OBVIOUS
<1>1. ASSUME UNCHANGED <<worker, asked, sup, cur, client, stopEvt, joinedEvt, slow, confirmed>>
      PROVE  SessionInv'
  BY <1>1 DEF SessionInv, SessionTyped, DebtsCovered, Stray, OnlyNewestStarts,
     JoinedWasAsked, JoinedIsCurrent, DeathIsNoticed, Alive
<1>2. CASE Silence \/ UNCHANGED sessionVars
  BY <1>1, <1>2 DEF Silence, sessionVars, eventVars
<1>3. CASE Supervise
  BY <1>3, SuperviseStep, LeaveStep, StartStep DEF Supervise
<1>4. ASSUME NEW w \in Workers, Work(w) PROVE SessionInv'
  BY <1>4, WorkStep, RoomStep, EndStep DEF Work
<1>5. QED
  BY <1>2, <1>3, <1>4 DEF SessionNext

(* However many workers, and however many of them take too long to exit:   *)
(* the end of the watched worker is told, a slow one costs one more        *)
(* session at most, and without slow ones only the watched session lives,  *)
(* and its own confirmation is what the supervisor went by.                *)
THEOREM SessionsStaySafe == SessionSpec => []SessionSafe
PROOF
<1>1. SessionInit => SessionInv
  <2>. SUFFICES ASSUME SessionInit PROVE SessionInv
    OBVIOUS
  <2>1. Alive = {} /\ ~Stray
    BY DEF SessionInit, Alive, Stray
  <2>2. Cardinality(Alive \ {cur}) = 0
    BY <2>1, FS_EmptySet
  <2>3. DebtsCovered
    BY <2>1, <2>2 DEF DebtsCovered, SessionInit
  <2>4. QED
    BY <2>1, <2>3 DEF SessionInit, SessionInv, SessionTyped, OnlyNewestStarts, JoinedWasAsked,
       JoinedIsCurrent, DeathIsNoticed, Watched
<1>2. SessionInv => SessionSafe
  <2>. SUFFICES ASSUME SessionInv PROVE SessionSafe
    OBVIOUS
  <2>1. OrphansBounded
    <3>1. Cardinality(Alive \ {cur}) \in Nat
      BY AliveFinite
    <3>2. QED
      BY <3>1 DEF SessionInv, SessionTyped, DebtsCovered, OrphansBounded
  <2>2. SupervisedIsConfirmed
    BY NobodyElse DEF SessionInv, SupervisedIsConfirmed, JoinedIsCurrent, Watched
  <2>3. QED
    BY <2>1, <2>2 DEF SessionInv, SessionSafe
<1>3. QED
  BY <1>1, <1>2, SessionInductive, PTL DEF SessionSpec

-------------------------------------------------------------------------------
(* The health of the sources                                               *)

HealthTyped ==
  /\ age \in [Sources -> Nat] /\ fails \in [Sources -> Nat]
  /\ reasons \subseteq Sources
  /\ held \in 0 .. MinHold /\ waited \in 0 .. Interval /\ well \in Nat

SilentIsNamed == \A s \in Sources : age[s] > StaleAfter[s] + waited => s \in reasons

ModeFits ==
  /\ reasons # {} => health # "normal"
  /\ Alerting # {} /\ Alerting \subseteq reasons => health = "detached"

HoldCovers ==
  /\ health # "normal" => well <= held \/ (held = MinHold /\ well <= MinHold + waited)
  /\ well <= MinHold + Interval

HealthInv == HealthTyped /\ SilentIsNamed /\ ModeFits /\ HoldCovers

-------------------------------------------------------------------------------
(* Operators                                                               *)

LEMMA ModeOfImpaired ==
  ASSUME NEW impaired \in SUBSET Sources
  PROVE  /\ impaired # {} => ModeOf(impaired) # "normal"
         /\ impaired = {} => ModeOf(impaired) = "normal"
         /\ impaired # {} /\ Alerting # {} /\ Alerting \subseteq impaired =>
              ModeOf(impaired) = "detached"
PROOF
<1>1. CASE impaired = {}
  BY <1>1 DEF ModeOf
<1>2. CASE impaired # {} /\ Alerting # {} /\ Alerting \subseteq impaired
  BY <1>2 DEF ModeOf
<1>3. CASE impaired # {} /\ ~(Alerting # {} /\ Alerting \subseteq impaired)
  BY <1>3 DEF ModeOf
<1>4. QED
  BY <1>1, <1>2, <1>3

(* A success only shortens silence; marks touch nothing else.              *)
LEMMA MarkStep ==
  ASSUME HealthInv, NEW s \in Sources, MarkSuccess(s) \/ MarkFailure(s),
         UNCHANGED <<health, held, reasons, waited, well>>
  PROVE  HealthInv'
PROOF
<1>. USE HealthAssumption DEF HealthInv
<1>1. fails' \in [Sources -> Nat]
  BY DEF HealthTyped, MarkSuccess, MarkFailure
<1>2. age' \in [Sources -> Nat] /\ \A r \in Sources : age'[r] <= age[r]
  BY DEF HealthTyped, MarkSuccess, MarkFailure
<1>3. HealthTyped'
  BY <1>1, <1>2 DEF HealthTyped
<1>4. SilentIsNamed'
  <2>. SUFFICES ASSUME NEW r \in Sources, age'[r] > StaleAfter[r] + waited PROVE r \in reasons
    BY DEF SilentIsNamed
  <2>1. age[r] > StaleAfter[r] + waited
    BY <1>2 DEF HealthTyped
  <2>2. QED
    BY <2>1 DEF SilentIsNamed
<1>5. ModeFits' /\ HoldCovers'
  BY DEF ModeFits, HoldCovers, Alerting
<1>6. QED
  BY <1>3, <1>4, <1>5

(* An evaluation that keeps the mode finds no source impaired, and one     *)
(* that does not names those it finds.                                     *)
LEMMA EvaluateStep ==
  ASSUME HealthInv, Evaluate
  PROVE  HealthInv'
PROOF
<1>. USE HealthAssumption DEF HealthInv
<1>1. /\ waited' = 0 /\ UNCHANGED <<age, fails>>
      /\ well' = IF Impaired = {} THEN well ELSE 0
      /\ held' = IF health' = health THEN held ELSE 0
  BY DEF Evaluate, HoldOn
<1>2. Impaired \in SUBSET Sources
  BY DEF Impaired
<1>3. \A s \in Sources : age[s] > StaleAfter[s] => s \in Impaired
  BY DEF Impaired
<1>4. CASE Impaired = {} /\ health # "normal" /\ held < MinHold
  <2>1. health' = health /\ reasons' = reasons
    BY <1>4 DEF Evaluate
  <2>2. HealthTyped'
    BY <1>1, <1>4, <2>1 DEF HealthTyped
  <2>3. SilentIsNamed'
    BY <1>1, <1>3, <1>4 DEF SilentIsNamed, HealthTyped
  <2>4. ModeFits'
    BY <2>1 DEF ModeFits, Alerting
  <2>5. HoldCovers'
    BY <1>1, <1>4, <2>1 DEF HoldCovers, HealthTyped
  <2>6. QED
    BY <2>2, <2>3, <2>4, <2>5
<1>5. CASE ~(Impaired = {} /\ health # "normal" /\ held < MinHold)
  <2>1. health' = ModeOf(Impaired) /\ reasons' = Impaired
    BY <1>5 DEF Evaluate
  <2>2. HealthTyped'
    BY <1>1, <1>2, <2>1 DEF HealthTyped
  <2>3. SilentIsNamed'
    BY <1>1, <1>3, <2>1 DEF SilentIsNamed, HealthTyped
  <2>4. ModeFits'
    BY <1>2, <2>1, ModeOfImpaired DEF ModeFits, Alerting
  <2>5. HoldCovers'
    <3>1. CASE Impaired # {}
      BY <1>1, <3>1 DEF HoldCovers, HealthTyped
    <3>2. CASE Impaired = {}
      BY <1>1, <1>2, <2>1, <3>2, ModeOfImpaired DEF HoldCovers, HealthTyped
    <3>3. QED
      BY <3>1, <3>2
  <2>6. QED
    BY <2>2, <2>3, <2>4, <2>5
<1>6. QED
  BY <1>4, <1>5

LEMMA TickStep ==
  ASSUME HealthInv, HealthTick
  PROVE  HealthInv'
PROOF
<1>. USE HealthAssumption DEF HealthInv
<1>1. /\ waited < Interval /\ waited' = waited + 1
      /\ UNCHANGED <<fails, health, reasons>>
      /\ held' = IF held < MinHold THEN held + 1 ELSE held
      /\ well' = IF health = "normal" THEN 0 ELSE well + 1
      /\ age' = [s \in Sources |-> IF age[s] <= StaleAfter[s] + Interval THEN age[s] + 1 ELSE age[s]]
  BY DEF HealthTick
<1>2. HealthTyped'
  BY <1>1 DEF HealthTyped
<1>3. SilentIsNamed'
  <2>. SUFFICES ASSUME NEW s \in Sources, age'[s] > StaleAfter[s] + waited' PROVE s \in reasons
    BY <1>1 DEF SilentIsNamed
  <2>1. StaleAfter[s] \in Nat /\ age[s] \in Nat /\ waited \in Nat /\ Interval \in Nat
    BY DEF HealthTyped
  <2>2. age'[s] = IF age[s] <= StaleAfter[s] + Interval THEN age[s] + 1 ELSE age[s]
    BY <1>1
  <2>3. age[s] > StaleAfter[s] + waited
    BY <1>1, <2>1, <2>2
  <2>4. QED
    BY <2>3 DEF SilentIsNamed
<1>4. ModeFits'
  BY <1>1 DEF ModeFits, Alerting
<1>5. HoldCovers'
  BY <1>1 DEF HoldCovers, HealthTyped
<1>6. QED
  BY <1>2, <1>3, <1>4, <1>5

LEMMA HealthInductive == HealthInv /\ [HealthNext]_healthVars => HealthInv'
PROOF
<1>. SUFFICES ASSUME HealthInv, [HealthNext]_healthVars PROVE HealthInv'
  OBVIOUS
<1>1. ASSUME NEW s \in Sources, Heard(s) PROVE HealthInv'
  BY <1>1, MarkStep DEF Heard
<1>2. ASSUME NEW s \in Sources, Probe(s) PROVE HealthInv'
  BY <1>2, MarkStep DEF Probe
<1>3. CASE Evaluate
  BY <1>3, EvaluateStep
<1>4. CASE HealthTick
  BY <1>4, TickStep
<1>5. CASE UNCHANGED healthVars
  BY <1>5 DEF healthVars, HealthInv, HealthTyped, SilentIsNamed, ModeFits, HoldCovers, Alerting
<1>6. QED
  BY <1>1, <1>2, <1>3, <1>4, <1>5 DEF HealthNext

LEMMA HealthInitially == HealthInit => HealthInv
PROOF
<1>. SUFFICES ASSUME HealthInit PROVE HealthInv
  OBVIOUS
<1>1. HealthTyped
  BY HealthAssumption DEF HealthInit, HealthTyped
<1>2. SilentIsNamed
  BY HealthAssumption DEF HealthInit, SilentIsNamed
<1>3. ModeFits /\ HoldCovers
  BY HealthAssumption DEF HealthInit, ModeFits, HoldCovers
<1>4. QED
  BY <1>1, <1>2, <1>3 DEF HealthInv

(* Whatever the sources, their limits and the hold: a source that nobody   *)
(* heard of since before the last evaluation shows in the mode, and the    *)
(* hold of a mode ends a round after it at the latest.                     *)
THEOREM Honest == HealthSpec => []HealthHonest
PROOF
<1>1. HealthInv => HealthHonest
  <2>. SUFFICES ASSUME HealthInv PROVE HealthHonest
    OBVIOUS
  <2>. USE HealthAssumption DEF HealthInv
  <2>. DEFINE silent == {s \in Sources : age[s] > StaleAfter[s] + Interval}
  <2>1. ASSUME NEW s \in silent PROVE s \in reasons
    <3>1. age[s] > StaleAfter[s] + waited
      BY <2>1 DEF HealthTyped
    <3>2. QED
      BY <2>1, <3>1 DEF SilentIsNamed
  <2>2. silent \subseteq reasons
    BY <2>1
  <2>3. silent # {} => health # "normal"
    BY <2>2 DEF ModeFits
  <2>4. Alerting # {} /\ Alerting \subseteq silent => health = "detached"
    BY <2>2 DEF ModeFits
  <2>5. SilenceShows
    BY <2>2, <2>3, <2>4 DEF SilenceShows
  <2>6. QED
    BY <2>5 DEF HealthHonest, HoldEnds, HoldCovers
<1>2. QED
  BY <1>1, HealthInitially, HealthInductive, PTL DEF HealthSpec

-------------------------------------------------------------------------------
(* The public feed                                                         *)

FeedTyped ==
  /\ time \in Nat \ {0} /\ breaks \in Nat
  /\ memory \in [Ids -> Nat] /\ rows \in [Ids -> Nat] /\ aired \in [Ids -> Nat]
  /\ write \in [op : {"none", "delete", "upsert"}, ids : SUBSET Ids, until : Nat]
  /\ write.op = "none" => write = NoWrite
  /\ ended \subseteq Ids

RowSoon(i) == IF i \in write.ids THEN write.until ELSE rows[i]

LiveIsKept ==
  \A i \in Ids \ raced : aired[i] > time =>
    i \notin gone /\ memory[i] = aired[i] /\ RowSoon(i) = aired[i]

EndedIsGone == \A i \in ended : memory[i] = 0 /\ RowSoon(i) = 0

FeedInv == FeedTyped /\ (breaks = 0 => LiveIsKept /\ EndedIsGone)

LEMMA FeedUnchanged ==
  ASSUME FeedInv, UNCHANGED feedVars
  PROVE  FeedInv'
  BY DEF FeedInv, FeedTyped, LiveIsKept, EndedIsGone, RowSoon, feedVars

(* A runtime removes what ended.                                           *)
LEMMA RemoveStep ==
  ASSUME FeedInv, NEW ids \in SUBSET Ids, write = NoWrite, Remove(ids),
         aired' = Without(aired, ids), ended' = ended \cup ids, raced \subseteq raced' \cup ids,
         UNCHANGED <<time, rows, gone, breaks>>
  PROVE  FeedInv'
PROOF
<1>1. /\ memory' = Without(memory, ids)
      /\ write' = [op |-> "delete", ids |-> ids, until |-> 0]
  BY DEF Remove
<1>2. FeedTyped'
  BY <1>1 DEF FeedInv, FeedTyped, Without
<1>3. ASSUME breaks = 0 PROVE LiveIsKept' /\ EndedIsGone'
  <2>1. \A i \in Ids : RowSoon(i) = rows[i] /\ RowSoon(i)' = IF i \in ids THEN 0 ELSE rows[i]
    BY <1>1 DEF RowSoon, NoWrite
  <2>2. ASSUME NEW i \in Ids \ raced', aired'[i] > time
        PROVE  i \notin gone /\ memory'[i] = aired'[i] /\ RowSoon(i)' = aired'[i]
    <3>1. i \notin ids
      BY <2>2 DEF Without, FeedInv, FeedTyped
    <3>2. i \notin raced /\ aired'[i] = aired[i] /\ memory'[i] = memory[i] /\ aired[i] > time
      BY <1>1, <2>2, <3>1 DEF Without
    <3>3. QED
      BY <1>3, <2>1, <3>1, <3>2 DEF FeedInv, LiveIsKept
  <2>3. LiveIsKept'
    BY <2>2 DEF LiveIsKept
  <2>4. EndedIsGone'
    <3>. SUFFICES ASSUME NEW i \in ended \cup ids PROVE memory'[i] = 0 /\ RowSoon(i)' = 0
      BY DEF EndedIsGone
    <3>1. i \in Ids /\ (i \notin ids => i \in ended)
      BY DEF FeedInv, FeedTyped
    <3>2. QED
      BY <1>1, <1>3, <2>1, <3>1 DEF Without, FeedInv, EndedIsGone
  <2>5. QED
    BY <2>3, <2>4
<1>4. QED
  BY <1>2, <1>3 DEF FeedInv

(* A runtime notes what it aired.                                          *)
LEMMA EmitStep ==
  ASSUME FeedInv, NEW i \in Ids, NEW lasts \in Nat \ {0}, NEW dated \in BOOLEAN,
         write = NoWrite, Emit(i, lasts, dated), UNCHANGED <<time, rows, gone, breaks>>
  PROVE  FeedInv'
PROOF
<1>1. /\ memory' = [memory EXCEPT ![i] = time + lasts]
      /\ write' = [op |-> "upsert", ids |-> {i}, until |-> time + lasts]
      /\ aired' = [aired EXCEPT ![i] = time + lasts]
      /\ ended' = ended \ {i}
      /\ raced' = (raced \ {i}) \cup ({i} \cap gone)
  BY DEF Emit
<1>2. FeedTyped'
  BY <1>1 DEF FeedInv, FeedTyped
<1>3. ASSUME breaks = 0 PROVE LiveIsKept' /\ EndedIsGone'
  <2>1. \A j \in Ids : /\ RowSoon(j) = rows[j]
                       /\ RowSoon(j)' = IF j = i THEN time + lasts ELSE rows[j]
    BY <1>1 DEF RowSoon, NoWrite
  <2>2. ASSUME NEW j \in Ids \ raced', aired'[j] > time
        PROVE  j \notin gone /\ memory'[j] = aired'[j] /\ RowSoon(j)' = aired'[j]
    <3>1. CASE j = i
      BY <1>1, <2>1, <2>2, <3>1 DEF FeedInv, FeedTyped
    <3>2. CASE j # i
      <4>1. j \notin raced /\ aired[j] = aired'[j] /\ memory[j] = memory'[j]
        BY <1>1, <2>2, <3>2 DEF FeedInv, FeedTyped
      <4>2. QED
        BY <1>3, <2>1, <2>2, <3>2, <4>1 DEF FeedInv, LiveIsKept
    <3>3. QED
      BY <3>1, <3>2
  <2>3. ASSUME NEW j \in ended' PROVE memory'[j] = 0 /\ RowSoon(j)' = 0
    <3>1. j \in ended /\ j # i /\ j \in Ids
      BY <1>1, <2>3 DEF FeedInv, FeedTyped
    <3>2. QED
      BY <1>1, <1>3, <2>1, <3>1 DEF FeedInv, FeedTyped, EndedIsGone
  <2>4. QED
    BY <2>2, <2>3 DEF LiveIsKept, EndedIsGone
<1>4. QED
  BY <1>2, <1>3 DEF FeedInv

LEMMA NoteStep ==
  ASSUME FeedInv, NEW n \in Notes, Note(n)
  PROVE  FeedInv'
PROOF
<1>1. /\ write = NoWrite /\ UNCHANGED <<time, rows, gone, breaks>>
      /\ n.by \in {"office", "relay", "local"}
      /\ n.ids \subseteq Ids /\ n.first \in Ids /\ n.lasts \in Nat \ {0} /\ n.dated \in BOOLEAN
  BY FeedAssumption DEF Note
<1>2. \/ NoteTracks(n) \/ NoteRelay(n) \/ NoteLocal(n)
  BY <1>1 DEF Note
<1>3. CASE NoteTracks(n) /\ n.ends
  BY <1>1, <1>3, RemoveStep DEF NoteTracks
<1>4. CASE Emit(n.first, n.lasts, n.dated) \/ Emit(n.first, n.lasts, TRUE)
  BY <1>1, <1>4, EmitStep
<1>5. QED
  BY <1>2, <1>3, <1>4 DEF NoteTracks, NoteRelay, NoteLocal

LEMMA RelaysStep ==
  ASSUME FeedInv, RemoveRelays
  PROVE  FeedInv'
PROOF
<1>1. PICK ids \in SUBSET (Relays \cap Present(memory)) :
        Remove(ids) /\ aired' = Without(aired, ids) /\ ended' = ended \cup ids
  BY DEF RemoveRelays
<1>2. ids \in SUBSET Ids
  BY FeedAssumption
<1>3. QED
  BY <1>1, <1>2, RemoveStep DEF RemoveRelays

(* The transaction is done, or fails.                                      *)
LEMMA WriteStep ==
  ASSUME FeedInv, Write
  PROVE  FeedInv'
PROOF
<1>. USE DEF FeedInv, FeedTyped
<1>1. /\ write' = NoWrite /\ UNCHANGED <<time, memory, gone, aired, ended, raced>>
      /\ \/ /\ rows' = [i \in Ids |-> IF i \in write.ids THEN write.until ELSE rows[i]]
            /\ UNCHANGED breaks
         \/ UNCHANGED rows /\ breaks' = breaks + 1
  BY DEF Write, Break
<1>2. NoWrite \in [op : {"none", "delete", "upsert"}, ids : SUBSET Ids, until : Nat]
  BY DEF NoWrite
<1>3. FeedTyped'
  BY <1>1, <1>2
<1>4. ASSUME breaks' = 0 PROVE breaks = 0 /\ LiveIsKept' /\ EndedIsGone'
  <2>1. breaks = 0 /\ \A i \in Ids : RowSoon(i)' = RowSoon(i)
    BY <1>1, <1>4 DEF RowSoon, NoWrite
  <2>2. QED
    BY <1>1, <2>1 DEF LiveIsKept, EndedIsGone
<1>5. QED
  BY <1>3, <1>4

(* The thread finds what expired: nothing that lives.                      *)
LEMMA LookStep ==
  ASSUME FeedInv, Look
  PROVE  FeedInv'
PROOF
<1>1. /\ UNCHANGED <<time, memory, rows, write, breaks, aired, ended, raced>>
      /\ gone' = {i \in Present(memory) : memory[i] <= time} \/ UNCHANGED gone
  BY DEF Look
<1>2. ASSUME LiveIsKept, FeedTyped PROVE LiveIsKept'
  BY <1>1, <1>2 DEF FeedTyped, LiveIsKept, RowSoon
<1>3. QED
  BY <1>1, <1>2 DEF FeedInv, FeedTyped, EndedIsGone, RowSoon

LEMMA ForgetStep ==
  ASSUME FeedInv, Forget
  PROVE  FeedInv'
PROOF
<1>. USE DEF FeedInv, FeedTyped
<1>. DEFINE left == Without(memory, gone)
<1>1. PICK kept \in SUBSET Present(left) :
        /\ memory' = Without(left, Ids \ kept)
        /\ gone' = (gone \cap Present(memory)) \cup (Present(left) \ kept)
        /\ aired' = Without(aired, Present(left) \ kept)
  BY DEF Forget, Latest
<1>2. UNCHANGED <<time, rows, write, breaks, ended, raced>>
  BY DEF Forget
<1>3. left \in [Ids -> Nat] /\ \A i \in Ids : left[i] = IF i \in gone THEN 0 ELSE memory[i]
  BY DEF Without
<1>4. /\ memory' \in [Ids -> Nat] /\ aired' \in [Ids -> Nat]
      /\ \A i \in Ids : memory'[i] = IF i \in kept THEN left[i] ELSE 0
      /\ \A i \in Ids : aired'[i] = IF i \in Present(left) \ kept THEN 0 ELSE aired[i]
  <2>. HIDE DEF left
  <2>1. QED
    BY <1>1, <1>3 DEF Without
<1>. HIDE DEF left
<1>5. FeedTyped'
  BY <1>2, <1>4
<1>6. ASSUME breaks = 0 PROVE LiveIsKept' /\ EndedIsGone'
  <2>1. ASSUME NEW i \in Ids \ raced, aired'[i] > time
        PROVE  i \notin gone' /\ memory'[i] = aired'[i] /\ RowSoon(i)' = aired'[i]
    <3>1. i \notin Present(left) \ kept /\ aired'[i] = aired[i]
      BY <1>4, <2>1
    <3>2. i \notin gone /\ memory[i] = aired[i] /\ RowSoon(i) = aired[i]
      BY <1>6, <2>1, <3>1 DEF LiveIsKept
    <3>3. left[i] = memory[i] /\ left[i] > 0
      BY <1>3, <2>1, <3>1, <3>2
    <3>4. i \in Present(left) /\ i \in kept
      BY <3>1, <3>3 DEF Present
    <3>5. QED
      BY <1>1, <1>2, <1>4, <3>1, <3>2, <3>3, <3>4 DEF RowSoon
  <2>2. ASSUME NEW i \in ended PROVE memory'[i] = 0 /\ RowSoon(i)' = 0
    <3>1. memory[i] = 0 /\ RowSoon(i) = 0 /\ i \in Ids
      BY <1>6 DEF EndedIsGone
    <3>2. QED
      BY <1>2, <1>3, <1>4, <3>1 DEF RowSoon
  <2>3. QED
    BY <1>2, <2>1, <2>2 DEF LiveIsKept, EndedIsGone
<1>7. QED
  BY <1>2, <1>5, <1>6

(* The rows of what was removed: of nothing that lives.                    *)
LEMMA DeleteStep ==
  ASSUME FeedInv, Delete
  PROVE  FeedInv'
PROOF
<1>. USE DEF FeedInv, FeedTyped
<1>1. /\ UNCHANGED <<time, memory, write, aired, ended, raced>> /\ gone' = {}
      /\ \/ rows' = Without(rows, gone) /\ UNCHANGED breaks
         \/ UNCHANGED rows /\ breaks' = breaks + 1
  BY DEF Delete, Break
<1>2. rows' \in [Ids -> Nat]
  BY <1>1 DEF Without
<1>3. FeedTyped'
  BY <1>1, <1>2
<1>4. ASSUME breaks' = 0 PROVE LiveIsKept' /\ EndedIsGone'
  <2>1. breaks = 0 /\ \A i \in Ids : rows'[i] = IF i \in gone THEN 0 ELSE rows[i]
    BY <1>1, <1>4 DEF Without
  <2>2. ASSUME NEW i \in Ids \ raced, aired[i] > time
        PROVE  memory[i] = aired[i] /\ RowSoon(i)' = aired[i]
    <3>1. i \notin gone /\ memory[i] = aired[i] /\ RowSoon(i) = aired[i]
      BY <2>1, <2>2 DEF LiveIsKept
    <3>2. QED
      BY <1>1, <2>1, <3>1 DEF RowSoon
  <2>3. ASSUME NEW i \in ended PROVE memory[i] = 0 /\ RowSoon(i)' = 0
    BY <1>1, <2>1, <2>3 DEF EndedIsGone, RowSoon
  <2>4. QED
    BY <1>1, <2>2, <2>3 DEF LiveIsKept, EndedIsGone
<1>5. QED
  BY <1>3, <1>4

(* The rows whose grace is over, or beyond the limit: what is trimmed is   *)
(* no longer said to be aired.                                             *)
LEMMA PruneRowsStep ==
  ASSUME FeedInv, Prune
  PROVE  FeedInv'
PROOF
<1>. USE DEF FeedInv, FeedTyped
<1>1. UNCHANGED <<time, memory, write, gone, ended, raced>>
  BY DEF Prune
<1>2. CASE UNCHANGED <<rows, aired>> /\ breaks' = breaks + 1
  BY <1>1, <1>2
<1>3. CASE breaks' = breaks /\ ~(UNCHANGED <<rows, aired>> /\ breaks' = breaks + 1)
  <2>. DEFINE fresh == Without(rows, Ids \ Kept)
  <2>1. PICK kept \in SUBSET Present(fresh) :
          rows' = Without(rows, Ids \ kept) /\ aired' = Without(aired, Kept \ kept)
    BY <1>3 DEF Prune, Break, Latest
  <2>2. /\ rows' \in [Ids -> Nat] /\ aired' \in [Ids -> Nat]
        /\ \A i \in Ids : rows'[i] = IF i \in kept THEN rows[i] ELSE 0
        /\ \A i \in Ids : aired'[i] = IF i \in Kept \ kept THEN 0 ELSE aired[i]
    BY <2>1 DEF Without
  <2>3. FeedTyped'
    BY <1>1, <1>3, <2>2
  <2>4. ASSUME breaks = 0 PROVE LiveIsKept' /\ EndedIsGone'
    <3>1. ASSUME NEW i \in Ids \ raced, aired'[i] > time
          PROVE  i \notin gone /\ memory[i] = aired'[i] /\ RowSoon(i)' = aired'[i]
      <4>1. i \notin Kept \ kept /\ aired'[i] = aired[i]
        BY <2>2, <3>1
      <4>2. i \notin gone /\ memory[i] = aired[i] /\ RowSoon(i) = aired[i]
        BY <2>4, <3>1, <4>1 DEF LiveIsKept
      <4>3. CASE i \in write.ids
        BY <1>1, <4>1, <4>2, <4>3 DEF RowSoon
      <4>4. CASE i \notin write.ids
        <5>1. rows[i] = aired[i]
          BY <4>2, <4>4 DEF RowSoon
        <5>2. rows[i] > 0 /\ rows[i] >= time - Grace
          BY <3>1, <4>1, <5>1, FeedAssumption
        <5>3. i \in kept
          BY <4>1, <5>2 DEF Kept, Present
        <5>4. QED
          BY <1>1, <2>2, <4>1, <4>2, <4>4, <5>1, <5>3 DEF RowSoon
      <4>5. QED
        BY <4>3, <4>4
    <3>2. ASSUME NEW i \in ended PROVE memory[i] = 0 /\ RowSoon(i)' = 0
      BY <1>1, <2>2, <2>4, <3>2 DEF EndedIsGone, RowSoon
    <3>3. QED
      BY <1>1, <3>1, <3>2 DEF LiveIsKept, EndedIsGone
  <2>5. QED
    BY <1>3, <2>3, <2>4
<1>4. QED
  BY <1>2, <1>3 DEF Prune, Break

LEMMA BreakStep ==
  ASSUME FeedInv, Restart \/ FeedTick
  PROVE  FeedInv'
PROOF
<1>. USE DEF FeedInv, FeedTyped
<1>1. CASE Restart
  <2>1. /\ breaks' = breaks + 1 /\ write' = NoWrite
        /\ UNCHANGED <<time, rows, aired, ended>>
    BY <1>1 DEF Restart, Break
  <2>2. memory' \in [Ids -> Nat]
    BY <1>1 DEF Restart, Without
  <2>3. NoWrite \in [op : {"none", "delete", "upsert"}, ids : SUBSET Ids, until : Nat]
    BY DEF NoWrite
  <2>4. QED
    BY <2>1, <2>2, <2>3
<1>2. CASE FeedTick
  <2>1. time' = time + 1 /\ UNCHANGED <<memory, rows, write, gone, breaks, aired, ended, raced>>
    BY <1>2 DEF FeedTick
  <2>2. QED
    BY <2>1 DEF LiveIsKept, EndedIsGone, RowSoon
<1>3. QED
  BY <1>1, <1>2

LEMMA FeedInductive == FeedInv /\ [FeedNext]_feedVars => FeedInv'
  BY FeedUnchanged, NoteStep, RelaysStep, WriteStep, LookStep, ForgetStep, DeleteStep,
     PruneRowsStep, BreakStep DEF FeedNext, Thread

(* Whatever is noted, and wherever the thread is when it is: the feed      *)
(* shows every alert that is aired and not over, but one that was renewed  *)
(* while its old entry was removed, and none that ended.                   *)
THEOREM FeedIsTrue == FeedSpec => []FeedFollowsAir
PROOF
<1>1. FeedInit => FeedInv
  BY DEF FeedInit, FeedInv, FeedTyped, LiveIsKept, EndedIsGone, RowSoon, NoWrite, Nothing
<1>2. FeedInv => FeedFollowsAir
  <2>. SUFFICES ASSUME FeedInv, breaks = 0, write = NoWrite
                PROVE  /\ \A i \in Ids \ raced : aired[i] > time => i \in Showable
                       /\ ended \cap (Showable \cup Present(memory)) = {}
    BY DEF FeedFollowsAir, LiveIsShown, EndedIsNotShown
  <2>. USE DEF FeedInv, FeedTyped
  <2>1. \A i \in Ids : RowSoon(i) = rows[i]
    BY DEF RowSoon, NoWrite
  <2>2. \A i \in Ids \ raced : aired[i] > time => i \in Showable
    BY <2>1 DEF LiveIsKept, Showable
  <2>3. \A i \in ended : i \notin Showable /\ i \notin Present(memory)
    BY <2>1 DEF EndedIsGone, Showable, Present
  <2>4. QED
    BY <2>2, <2>3
<1>3. QED
  BY <1>1, <1>2, FeedInductive, PTL DEF FeedSpec

-------------------------------------------------------------------------------
(* The composition                                                         *)

(* A behaviour of the composition is one of each of its parts, so what is  *)
(* proved of them holds of what the runs check.                            *)
THEOREM PartsOfServices ==
  Spec => [](SessionSafe /\ HealthHonest /\ FeedFollowsAir)
PROOF
<1>1. Init => SessionInit /\ HealthInit /\ FeedInit
  BY DEF Init
<1>2. [Next]_vars => [SessionNext]_sessionVars /\ [HealthNext]_healthVars /\ [FeedNext]_feedVars
  BY DEF Next, vars, Session, Health, Feed
<1>3. Spec => SessionSpec /\ HealthSpec /\ FeedSpec
  BY <1>1, <1>2, PTL DEF Spec, SessionSpec, HealthSpec, FeedSpec
<1>4. QED
  BY <1>3, SessionsStaySafe, Honest, FeedIsTrue, PTL

===============================================================================
