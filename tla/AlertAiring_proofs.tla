------------------------- MODULE AlertAiring_proofs -------------------------
(***************************************************************************)
(* Proofs about AlertAiring, for any messages, sources' orders and bounds. *)
(*                                                                         *)
(* The argument: while an attempt runs, its keys are in the dedupe map     *)
(* with the time of its reservation, and no other attempt has one of them  *)
(* (AttemptsExclusive).  An aired message leaves its keys there until they *)
(* are older than Ttl (AiredKept), so whoever reserves one of them again   *)
(* does so more than Ttl later (AttemptsApart), and two airings that share *)
(* a key are more than Ttl apart (AiringsApart).  Two tone-outs of the     *)
(* same alert always share a key (SharedKey); two airings of any kind do   *)
(* if the feeds leave some pairs out (SharedAirKey), and then what is      *)
(* dropped for a key is on the air for its action too (DroppedIsShared).   *)
(***************************************************************************)
EXTENDS AlertAiring, TLAPS

-----------------------------------------------------------------------------
(* The inductive invariant. *)

(* A job of the dispatcher belongs to a runtime that awaits it, and a      *)
(* runtime awaits one job at most.                                         *)
JobsAwaited ==
    /\ \A j \in jobs \cup worker : rt[j.src].stage = "waiting"
    /\ \A i, j \in jobs \cup worker : i.src = j.src => i = j
    /\ jobs \cap worker = {}

(* An attempt handles a message and is not older than its reservation.     *)
AttemptsTimely ==
    \A s \in Sources : Busy(s) => /\ rt[s].msg \in Messages
                                  /\ rt[s].since <= clock
                                  /\ clock - rt[s].since <= Ttl

DownIsEmpty ==
    ~up => /\ recent = <<>>
           /\ jobs = {}
           /\ worker = {}
           /\ \A s \in Sources : ~Busy(s)

(* The history of an attempt that has aired. *)
AiredRecorded ==
    /\ \A a \in airings : a.life <= life
    /\ \A s \in Sources : rt[s].stage = "aired" =>
           \E a \in airings : a.life = life /\ a.msg = rt[s].msg /\ a.since = rt[s].since

AiredKept ==
    up => \A a \in airings : a.life = life =>
              \A k \in Keys(a.msg) : \/ k \in DOMAIN recent /\ recent[k] = a.since
                                     \/ clock - a.since > Ttl

AttemptsApart ==
    \A s \in Sources : (Busy(s) /\ rt[s].stage # "aired") =>
        \A a \in airings : a.life = life =>
            \A k \in Keys(a.msg) : Holds(s, k) => rt[s].since - a.since > Ttl

AiringsApart ==
    \A a, b \in airings : (a # b /\ a.life = b.life) =>
        \A k \in Keys(a.msg) : k \in Keys(b.msg) =>
            \/ a.since - b.since > Ttl
            \/ b.since - a.since > Ttl

IInv ==
    /\ TypeOK
    /\ JobsAwaited
    /\ AttemptsTimely
    /\ DownIsEmpty
    /\ AttemptsExclusive
    /\ AiredRecorded
    /\ AiredKept
    /\ AttemptsApart
    /\ AiringsApart
    /\ ReservationsAccounted

-----------------------------------------------------------------------------
(* Two tone-outs of the same alert, from any sources, need a common key.   *)
LEMMA SharedKey ==
    ASSUME NEW m \in Messages, NEW n \in Messages,
           IsFull(m), IsFull(n), SameAlert(m, n)
    PROVE  \E k \in Keys(m) : k \in Keys(n)
PROOF
<1>1. m.src \in Sources /\ n.src \in Sources
  BY MessagesAssumption
<1>2. PICK x : x \in Actions(m) /\ x \in Actions(n)
  BY DEF SameAlert
<1>3. CASE m.vtec # {} /\ n.vtec # {}
  <2>1. PICK v \in m.vtec : x = <<"action", v.track, v.act>>
    BY <1>2, <1>3 DEF Actions
  <2>2. PICK w \in n.vtec : x = <<"action", w.track, w.act>>
    BY <1>2, <1>3 DEF Actions
  <2>3. v.track = w.track /\ v.act = w.act
    BY <2>1, <2>2
  <2>4. m.src \in {"CAP", "NWWS"} /\ n.src \in {"CAP", "NWWS"}
    BY <1>1, <1>3, MessagesAssumption DEF Sources
  <2>5. <<"TRACKFULL", v.track, v.act>> \in TrackKeys("TRACKFULL", m)
    <3>1. <<v.track, v.act>> \in VtecTracks(m.vtec)
      BY DEF VtecTracks
    <3>2. QED
      BY <3>1 DEF TrackKeys
  <2>6. <<"TRACKFULL", v.track, v.act>> \in TrackKeys("TRACKFULL", n)
    <3>1. <<v.track, v.act>> \in VtecTracks(n.vtec)
      BY <2>3 DEF VtecTracks
    <3>2. QED
      BY <3>1 DEF TrackKeys
  <2>7. ASSUME NEW p \in Messages, IsFull(p), p.src \in {"CAP", "NWWS"}
        PROVE  TrackKeys("TRACKFULL", p) \subseteq Keys(p)
    <3>1. CASE p.src = "CAP"
      <4>1. Keys(p) = CapFullKeys(p)
        BY <2>7, <3>1 DEF Keys, CapKeys
      <4>2. QED
        BY <4>1 DEF CapFullKeys
    <3>2. CASE p.src = "NWWS"
      <4>1. Keys(p) = NwwsKeys(p)
        BY <3>2 DEF Keys
      <4>2. TrackKeys("TRACKFULL", p) \subseteq NwwsKeys(p)
        BY <2>7 DEF NwwsKeys
      <4>3. QED
        BY <4>1, <4>2
    <3>3. QED
      BY <2>7, <3>1, <3>2
  <2>8. QED
    BY <2>4, <2>5, <2>6, <2>7
<1>4. CASE m.vtec = {} /\ n.vtec = {}
  <2>1. ASSUME NEW p \in Messages, IsFull(p), p.vtec = {}
        PROVE  p.src # "NWWS" /\ FuncKeys(p) \subseteq Keys(p)
    <3>1. p.src \in Sources
      BY MessagesAssumption
    <3>2. p.src # "NWWS"
      BY <2>1 DEF IsFull, Route, NwwsRoute, NwwsShouldFull, ToneoutFull
    <3>3. QED
      BY <2>1, <3>1, <3>2 DEF Sources, Keys, CapKeys, CapFullKeys, IpawsKeys, ErnKeys
  <2>2. CASE m.func # NoFunc /\ n.func # NoFunc
    <3>1. m.func = n.func
      BY <1>2, <1>4, <2>2 DEF Actions
    <3>2. FuncKeys(m) = FuncKeys(n) /\ <<"FUNC_FULL", m.func>> \in FuncKeys(m)
      BY <2>2, <3>1 DEF FuncKeys
    <3>3. QED
      BY <1>4, <2>1, <3>2
  <2>3. CASE m.func = NoFunc /\ n.func = NoFunc
    <3>1. m.src = n.src /\ m.id = n.id
      BY <1>2, <1>4, <2>3 DEF Actions
    <3>2. m.src \in {"CAP", "IPAWS"}
      BY <1>1, <1>4, <2>1, <2>3 DEF Sources, IsFull, Route, ErnRoute
    <3>3. QED
      BY <3>1, <3>2 DEF Keys, CapKeys, CapFullKeys, IpawsKeys
  <2>4. QED
    <3>1. (m.func = NoFunc) = (n.func = NoFunc)
      BY <1>2, <1>4 DEF Actions
    <3>2. QED
      BY <2>2, <2>3, <3>1
<1>5. (m.vtec = {}) = (n.vtec = {})
  BY <1>2 DEF Actions
<1>6. QED
  BY <1>3, <1>4, <1>5

-----------------------------------------------------------------------------
(* Type correctness. *)

LEMMA NoReservations == <<>> \in [DOMAIN <<>> -> Nat] /\ DOMAIN <<>> = {}
PROOF
<1>1. DOMAIN <<>> = {}
  OBVIOUS
<1>2. QED
  BY <1>1

LEMMA TypeInit == Init => TypeOK
PROOF
<1>1. IdleRuntime \in Runtimes
  BY DEF IdleRuntime, Runtimes, Stages
<1>2. QED
  BY <1>1, NoReservations DEF Init, TypeOK

LEMMA TypeForgotten ==
    ASSUME TypeOK, LoseMemory, UNCHANGED <<clock, life, sent, airings, failed>>
    PROVE  TypeOK'
PROOF
<1>1. IdleRuntime \in Runtimes
  BY DEF IdleRuntime, Runtimes, Stages
<1>2. rt' \in [Sources -> Runtimes]
  BY <1>1 DEF LoseMemory
<1>3. recent' \in [DOMAIN recent' -> Nat]
  BY NoReservations DEF LoseMemory
<1>4. inbox' \in [Sources -> Seq(Messages)]
  BY DEF LoseMemory
<1>5. lastAired' \in [Sources -> SUBSET (Messages \X Nat)]
  BY DEF LoseMemory
<1>6. QED
  BY <1>2, <1>3, <1>4, <1>5 DEF TypeOK, LoseMemory

(* Moving a runtime to another stage. *)
LEMMA TypeStage ==
    ASSUME TypeOK, NEW s \in Sources, NEW g \in Stages, rt' = [rt EXCEPT ![s].stage = g]
    PROVE  rt' \in [Sources -> Runtimes]
PROOF
  BY DEF TypeOK, Runtimes

(* Which message failed or aired is known to be one from the invariant.    *)
LEMMA TypeStep ==
    ASSUME TypeOK, JobsAwaited, AttemptsTimely, [Next]_vars
    PROVE  TypeOK'
PROOF
<1>1. ASSUME NEW m \in Messages, Receive(m) PROVE TypeOK'
  BY <1>1, MessagesAssumption DEF TypeOK, Receive
<1>2. ASSUME NEW s \in Sources, NEW m \in Messages, Discard(s, m) PROVE TypeOK'
  BY <1>2 DEF TypeOK, Discard, Starts
<1>3. ASSUME NEW s \in Sources, NEW m \in Messages, SkipDuplicate(s, m) PROVE TypeOK'
  BY <1>3 DEF TypeOK, SkipDuplicate, Starts, Pruned, LiveKeys
<1>4. ASSUME NEW s \in Sources, NEW m \in Messages, Reserve(s, m) PROVE TypeOK'
  <2>1. NewJob(s, m) \in Jobs
    BY DEF NewJob, Priority, Jobs, TypeOK
  <2>2. recent' \in [DOMAIN recent' -> Nat]
    BY <1>4 DEF TypeOK, Reserve, LiveKeys
  <2>3. inbox' \in [Sources -> Seq(Messages)]
    BY <1>4 DEF TypeOK, Reserve, Starts
  <2>4. /\ [stage |-> "waiting", msg |-> m, since |-> clock] \in Runtimes
        /\ [stage |-> "preparing", msg |-> m, since |-> clock] \in Runtimes
    BY DEF TypeOK, Runtimes, Stages
  <2>5. rt' \in [Sources -> Runtimes]
    BY <1>4, <2>4 DEF TypeOK, Reserve
  <2>6. jobs' \subseteq Jobs /\ seq' \in Nat
    BY <1>4, <2>1 DEF TypeOK, Reserve
  <2>7. QED
    BY <1>4, <2>2, <2>3, <2>5, <2>6 DEF TypeOK, Reserve
<1>5. ASSUME NEW s \in Sources, Submit(s) PROVE TypeOK'
  <2>1. NewJob(s, rt[s].msg) \in Jobs
    BY DEF NewJob, Priority, Jobs, TypeOK
  <2>2. rt' \in [Sources -> Runtimes]
    BY <1>5, TypeStage DEF Submit, Stages
  <2>3. QED
    BY <1>5, <2>1, <2>2 DEF TypeOK, Submit
<1>6. ASSUME NEW s \in Sources, PrepareFails(s) PROVE TypeOK'
  <2>1. rt' \in [Sources -> Runtimes]
    BY <1>6, TypeStage DEF PrepareFails, Stages
  <2>2. rt[s].msg \in Messages
    BY <1>6 DEF PrepareFails, AttemptsTimely, Busy
  <2>3. QED
    BY <1>6, <2>1, <2>2 DEF TypeOK, PrepareFails
<1>7. ASSUME NEW j \in jobs, StartJob(j) PROVE TypeOK'
  BY <1>7 DEF TypeOK, StartJob
<1>8. ASSUME NEW j \in worker PROVE j \in Jobs /\ j.src \in Sources /\ rt[j.src].msg \in Messages
  <2>1. j \in Jobs /\ j.src \in Sources
    BY <1>8 DEF TypeOK, Jobs
  <2>2. QED
    BY <1>8, <2>1 DEF JobsAwaited, AttemptsTimely, Busy
<1>9. ASSUME NEW j \in worker, FinishJob(j) PROVE TypeOK'
  <2>1. rt' \in [Sources -> Runtimes]
    BY <1>8, <1>9, TypeStage DEF FinishJob, Stages
  <2>2. rt[j.src].since \in Nat
    BY <1>8 DEF TypeOK, Runtimes
  <2>3. j.seq \in Nat
    BY <1>8 DEF Jobs
  <2>4. [msg |-> rt[j.src].msg, since |-> rt[j.src].since, life |-> life, seq |-> j.seq] \in Airings
    BY <1>8, <2>2, <2>3 DEF Airings, TypeOK
  <2>5. airings' \subseteq Airings
    BY <1>9, <2>4 DEF FinishJob, TypeOK
  <2>6. QED
    BY <1>9, <2>1, <2>5 DEF TypeOK, FinishJob
<1>10. ASSUME NEW j \in worker, FailJob(j) PROVE TypeOK'
  <2>1. rt' \in [Sources -> Runtimes]
    BY <1>8, <1>10, TypeStage DEF FailJob, Stages
  <2>2. QED
    BY <1>8, <1>10, <2>1 DEF TypeOK, FailJob
<1>11. IdleRuntime \in Runtimes
  BY DEF IdleRuntime, Runtimes, Stages
<1>12. ASSUME NEW s \in Sources, Commit(s) PROVE TypeOK'
  <2>1. rt[s].msg \in Messages /\ rt[s].since \in Nat
    BY <1>12 DEF Commit, AttemptsTimely, Busy, TypeOK, Runtimes
  <2>2. lastAired' \in [Sources -> SUBSET (Messages \X Nat)]
    BY <1>12, <2>1 DEF Commit, TypeOK
  <2>3. rt' \in [Sources -> Runtimes]
    BY <1>11, <1>12 DEF Commit, TypeOK
  <2>4. QED
    BY <1>12, <2>2, <2>3 DEF TypeOK, Commit
<1>13. ASSUME NEW s \in Sources, Abort(s) PROVE TypeOK'
  BY <1>11, <1>13 DEF TypeOK, Abort
<1>14. ASSUME NEW s \in Sources, Die(s) PROVE TypeOK'
  BY <1>14, TypeForgotten DEF Die
<1>15. CASE Crash
  BY <1>15, TypeForgotten DEF Crash
<1>16. CASE Restart
  BY <1>16 DEF TypeOK, Restart
<1>17. CASE Tick
  BY <1>17 DEF TypeOK, Tick
<1>18. CASE UNCHANGED vars
  BY <1>18 DEF TypeOK, vars
<1>19. QED
  BY <1>1, <1>2, <1>3, <1>4, <1>5, <1>6, <1>7, <1>9, <1>10, <1>12, <1>13, <1>14, <1>15,
     <1>16, <1>17, <1>18 DEF Next, Handle, Resume, Work, Complete

-----------------------------------------------------------------------------
(* The steps of the system preserve the invariant: first those that leave  *)
(* the runtimes, the map and the history alone.                            *)

LEMMA QuietStep ==
    ASSUME IInv, TypeOK', UNCHANGED <<clock, up, life, rt, recent, jobs, worker, airings>>
    PROVE  IInv'
PROOF
  BY DEF IInv, JobsAwaited, AttemptsTimely, DownIsEmpty, AttemptsExclusive, AiredRecorded, AiredKept,
         AttemptsApart, AiringsApart, ReservationsAccounted, Holds, Busy

(* A duplicate is dropped: only expired keys leave the map.                *)
LEMMA PruneStep ==
    ASSUME IInv, TypeOK', NEW s \in Sources, NEW m \in Messages, SkipDuplicate(s, m)
    PROVE  IInv'
PROOF
<1>1. JobsAwaited'
  BY TtlAssumption
     DEF IInv, TypeOK, SkipDuplicate, Pruned, LiveKeys, JobsAwaited
<1>2. AttemptsTimely'
  BY TtlAssumption
     DEF IInv, TypeOK, SkipDuplicate, Pruned, LiveKeys, AttemptsTimely, Busy
<1>3. DownIsEmpty'
  BY TtlAssumption
     DEF IInv, TypeOK, SkipDuplicate, Pruned, LiveKeys, DownIsEmpty, Busy
<1>4. AttemptsExclusive'
  <2>1. rt' = rt /\ recent' = Pruned
    BY DEF SkipDuplicate
  <2>2. ASSUME NEW t \in Sources, Busy(t), NEW k \in Keys(rt[t].msg)
        PROVE  k \in DOMAIN Pruned /\ Pruned[k] = rt[t].since
    BY <2>2 DEF IInv, AttemptsExclusive, AttemptsTimely, Pruned, LiveKeys
  <2>3. QED
    BY <2>1, <2>2 DEF IInv, AttemptsExclusive, Holds, Busy
<1>5. AiredRecorded'
  BY TtlAssumption
     DEF IInv, TypeOK, SkipDuplicate, Pruned, LiveKeys, AiredRecorded
<1>6. AiredKept'
  BY TtlAssumption
     DEF IInv, TypeOK, SkipDuplicate, Pruned, LiveKeys, AiredKept
<1>7. AttemptsApart'
  BY TtlAssumption
     DEF IInv, TypeOK, SkipDuplicate, Pruned, LiveKeys, AttemptsApart, Holds, Busy
<1>8. AiringsApart'
  BY TtlAssumption
     DEF IInv, TypeOK, SkipDuplicate, Pruned, LiveKeys, AiringsApart
<1>9. ReservationsAccounted'
  BY TtlAssumption
     DEF IInv, TypeOK, SkipDuplicate, Pruned, LiveKeys, ReservationsAccounted, Holds, Busy
<1>. QED
  BY <1>1, <1>2, <1>3, <1>4, <1>5, <1>6, <1>7, <1>8, <1>9 DEF IInv

LEMMA StartStep ==
    ASSUME IInv, TypeOK', NEW j \in jobs, StartJob(j)
    PROVE  IInv'
PROOF
<1>1. JobsAwaited'
  BY TtlAssumption
     DEF IInv, TypeOK, StartJob, JobsAwaited
<1>2. AttemptsTimely'
  BY TtlAssumption
     DEF IInv, TypeOK, StartJob, AttemptsTimely, Busy
<1>3. DownIsEmpty'
  BY TtlAssumption
     DEF IInv, TypeOK, StartJob, DownIsEmpty, Busy
<1>4. AttemptsExclusive'
  BY TtlAssumption
     DEF IInv, TypeOK, StartJob, AttemptsExclusive, Holds, Busy
<1>5. AiredRecorded'
  BY TtlAssumption
     DEF IInv, TypeOK, StartJob, AiredRecorded
<1>6. AiredKept'
  BY TtlAssumption
     DEF IInv, TypeOK, StartJob, AiredKept
<1>7. AttemptsApart'
  BY TtlAssumption
     DEF IInv, TypeOK, StartJob, AttemptsApart, Holds, Busy
<1>8. AiringsApart'
  BY TtlAssumption
     DEF IInv, TypeOK, StartJob, AiringsApart
<1>9. ReservationsAccounted'
  BY TtlAssumption
     DEF IInv, TypeOK, StartJob, ReservationsAccounted, Holds, Busy
<1>. QED
  BY <1>1, <1>2, <1>3, <1>4, <1>5, <1>6, <1>7, <1>8, <1>9 DEF IInv

(* A runtime that is busy moves to another stage with its message, its     *)
(* reservation and its keys.                                               *)
LEMMA Moved ==
    ASSUME TypeOK, NEW s \in Sources, NEW g \in Stages \ {"idle"}, rt[s].stage # "idle",
           rt' = [rt EXCEPT ![s].stage = g]
    PROVE  /\ rt'[s].stage = g
           /\ \A t \in Sources : /\ rt'[t].stage = "idle" <=> rt[t].stage = "idle"
                                 /\ rt'[t].msg = rt[t].msg
                                 /\ rt'[t].since = rt[t].since
                                 /\ t # s => rt'[t] = rt[t]
PROOF
<1>1. rt'[s] = [rt[s] EXCEPT !.stage = g]
  BY DEF TypeOK
<1>2. rt[s] \in Runtimes
  BY DEF TypeOK
<1>3. rt'[s].stage = g /\ rt'[s].msg = rt[s].msg /\ rt'[s].since = rt[s].since
  BY <1>1, <1>2 DEF Runtimes
<1>4. \A t \in Sources : t # s => rt'[t] = rt[t]
  BY DEF TypeOK
<1>5. QED
  BY <1>3, <1>4 DEF Busy

LEMMA MovedKeeps ==
    ASSUME IInv, NEW s \in Sources, NEW g \in Stages \ {"idle"}, rt[s].stage # "idle",
           rt' = [rt EXCEPT ![s].stage = g], UNCHANGED <<clock, up, life, recent>>
    PROVE  /\ AttemptsTimely'
           /\ AttemptsExclusive'
           /\ up
PROOF
<1>. USE DEF IInv
<1>1. /\ rt'[s].stage = g
      /\ \A t \in Sources : /\ rt'[t].stage = "idle" <=> rt[t].stage = "idle"
                            /\ rt'[t].msg = rt[t].msg
                            /\ rt'[t].since = rt[t].since
                            /\ t # s => rt'[t] = rt[t]
  BY Moved
<1>2. AttemptsTimely'
  BY <1>1 DEF AttemptsTimely, Busy
<1>3. AttemptsExclusive'
  BY <1>1 DEF AttemptsExclusive, Holds, Busy
<1>4. QED
  BY <1>2, <1>3 DEF DownIsEmpty, Busy

LEMMA SubmitStep ==
    ASSUME IInv, TypeOK', NEW s \in Sources, Submit(s)
    PROVE  IInv'
PROOF
<1>. USE DEF IInv
<1>1. rt[s].stage # "idle" /\ rt[s].stage # "aired"
  BY DEF Submit
<1>2. /\ AttemptsTimely'
      /\ AttemptsExclusive'
      /\ up
  BY <1>1, MovedKeeps DEF Submit, Stages
<1>3. /\ rt'[s].stage = "waiting"
      /\ \A t \in Sources : /\ rt'[t].stage = "idle" <=> rt[t].stage = "idle"
                            /\ rt'[t].msg = rt[t].msg
                            /\ rt'[t].since = rt[t].since
                            /\ t # s => rt'[t] = rt[t]
  BY <1>1, Moved DEF Submit, Stages
<1>4. JobsAwaited'
  BY <1>1, <1>3 DEF Submit, JobsAwaited, TypeOK, Jobs, NewJob
<1>5. DownIsEmpty'
  BY <1>2 DEF Submit, DownIsEmpty
<1>6. AiredRecorded'
  BY <1>1, <1>3 DEF Submit, AiredRecorded
<1>7. AiredKept'
  BY DEF Submit, AiredKept
<1>8. AttemptsApart'
  BY <1>1, <1>2, <1>3 DEF Submit, AttemptsApart, Holds, Busy
<1>9. AiringsApart'
  BY DEF Submit, AiringsApart
<1>10. ReservationsAccounted'
  BY <1>2, <1>3 DEF Submit, ReservationsAccounted, Holds, Busy
<1>11. QED
  BY <1>2, <1>4, <1>5, <1>6, <1>7, <1>8, <1>9, <1>10

LEMMA PrepareFailsStep ==
    ASSUME IInv, TypeOK', NEW s \in Sources, PrepareFails(s)
    PROVE  IInv'
PROOF
<1>. USE DEF IInv
<1>1. rt[s].stage # "idle" /\ rt[s].stage # "aired"
  BY DEF PrepareFails
<1>2. /\ AttemptsTimely'
      /\ AttemptsExclusive'
      /\ up
  BY <1>1, MovedKeeps DEF PrepareFails, Stages
<1>3. /\ rt'[s].stage = "failed"
      /\ \A t \in Sources : /\ rt'[t].stage = "idle" <=> rt[t].stage = "idle"
                            /\ rt'[t].msg = rt[t].msg
                            /\ rt'[t].since = rt[t].since
                            /\ t # s => rt'[t] = rt[t]
  BY <1>1, Moved DEF PrepareFails, Stages
<1>4. JobsAwaited'
  BY <1>1, <1>3 DEF PrepareFails, JobsAwaited, TypeOK, Jobs
<1>5. DownIsEmpty'
  BY <1>2 DEF PrepareFails, DownIsEmpty
<1>6. AiredRecorded'
  BY <1>1, <1>3 DEF PrepareFails, AiredRecorded
<1>7. AiredKept'
  BY DEF PrepareFails, AiredKept
<1>8. AttemptsApart'
  BY <1>1, <1>2, <1>3 DEF PrepareFails, AttemptsApart, Holds, Busy
<1>9. AiringsApart'
  BY DEF PrepareFails, AiringsApart
<1>10. ReservationsAccounted'
  BY <1>2, <1>3 DEF PrepareFails, ReservationsAccounted, Holds, Busy
<1>11. QED
  BY <1>2, <1>4, <1>5, <1>6, <1>7, <1>8, <1>9, <1>10

LEMMA FailStep ==
    ASSUME IInv, TypeOK', NEW j \in worker, FailJob(j)
    PROVE  IInv'
PROOF
<1>. USE DEF IInv
<1>. PICK s \in Sources : s = j.src
  BY DEF TypeOK, Jobs
<1>1. rt[s].stage # "idle" /\ rt[s].stage # "aired"
  BY DEF JobsAwaited
<1>a. rt' = [rt EXCEPT ![s].stage = "failed"] /\ "failed" \in Stages \ {"idle"}
  BY DEF FailJob, Stages
<1>2. /\ AttemptsTimely'
      /\ AttemptsExclusive'
      /\ up
  BY <1>1, <1>a, MovedKeeps DEF FailJob
<1>3. /\ rt'[s].stage = "failed"
      /\ \A t \in Sources : /\ rt'[t].stage = "idle" <=> rt[t].stage = "idle"
                            /\ rt'[t].msg = rt[t].msg
                            /\ rt'[t].since = rt[t].since
                            /\ t # s => rt'[t] = rt[t]
  BY <1>1, <1>a, Moved
<1>4. JobsAwaited'
  BY <1>1, <1>3 DEF FailJob, JobsAwaited, TypeOK, Jobs
<1>5. DownIsEmpty'
  BY <1>2 DEF FailJob, DownIsEmpty
<1>6. AiredRecorded'
  BY <1>1, <1>3 DEF FailJob, AiredRecorded
<1>7. AiredKept'
  BY DEF FailJob, AiredKept
<1>8. AttemptsApart'
  BY <1>1, <1>2, <1>3 DEF FailJob, AttemptsApart, Holds, Busy
<1>9. AiringsApart'
  BY DEF FailJob, AiringsApart
<1>10. ReservationsAccounted'
  BY <1>2, <1>3 DEF FailJob, ReservationsAccounted, Holds, Busy
<1>11. QED
  BY <1>2, <1>4, <1>5, <1>6, <1>7, <1>8, <1>9, <1>10

LEMMA FinishStep ==
    ASSUME IInv, TypeOK', NEW j \in worker, FinishJob(j)
    PROVE  IInv'
PROOF
<1>. USE DEF IInv
<1>. PICK s \in Sources : s = j.src
  BY DEF TypeOK, Jobs
<1>. DEFINE new == [msg |-> rt[s].msg, since |-> rt[s].since, life |-> life, seq |-> j.seq]
<1>1. rt[s].stage = "waiting"
  BY DEF JobsAwaited
<1>a. rt' = [rt EXCEPT ![s].stage = "aired"] /\ "aired" \in Stages \ {"idle"}
  BY DEF FinishJob, Stages
<1>2. /\ AttemptsTimely'
      /\ AttemptsExclusive'
      /\ up
  BY <1>1, <1>a, MovedKeeps DEF FinishJob
<1>3. /\ rt'[s].stage = "aired"
      /\ \A t \in Sources : /\ rt'[t].stage = "idle" <=> rt[t].stage = "idle"
                            /\ rt'[t].msg = rt[t].msg
                            /\ rt'[t].since = rt[t].since
                            /\ t # s => rt'[t] = rt[t]
  BY <1>1, <1>a, Moved
<1>4. airings' = airings \cup {new}
  BY DEF FinishJob
<1>5. new.life = life /\ new.msg = rt[s].msg /\ new.since = rt[s].since
  OBVIOUS
<1>. HIDE DEF new
<1>6. JobsAwaited'
  BY <1>1, <1>3 DEF FinishJob, JobsAwaited, TypeOK, Jobs
<1>7. DownIsEmpty'
  BY <1>2 DEF FinishJob, DownIsEmpty
<1>8. AiredRecorded'
  <2>1. life' = life
    BY DEF FinishJob
  <2>2. \A a \in airings' : a.life <= life
    BY <1>4, <1>5 DEF AiredRecorded, TypeOK
  <2>3. ASSUME NEW t \in Sources, rt'[t].stage = "aired"
        PROVE  \E a \in airings' : a.life = life /\ a.msg = rt'[t].msg /\ a.since = rt'[t].since
    <3>1. CASE t = s
      <4>1. new \in airings' /\ new.life = life /\ new.msg = rt'[t].msg /\ new.since = rt'[t].since
        BY <1>3, <1>4, <1>5, <3>1
      <4>2. QED
        BY <4>1
    <3>2. CASE t # s
      <4>1. rt[t].stage = "aired" /\ rt'[t] = rt[t]
        BY <1>3, <2>3, <3>2
      <4>2. PICK a \in airings : a.life = life /\ a.msg = rt[t].msg /\ a.since = rt[t].since
        BY <4>1 DEF AiredRecorded
      <4>3. QED
        BY <1>4, <4>1, <4>2
    <3>3. QED
      BY <3>1, <3>2
  <2>4. QED
    BY <2>1, <2>2, <2>3 DEF AiredRecorded
<1>9. AiredKept'
  <2>1. \A k \in Keys(new.msg) : k \in DOMAIN recent /\ recent[k] = new.since
    BY <1>1, <1>5 DEF AttemptsExclusive, Busy
  <2>2. QED
    BY <1>2, <1>4, <2>1 DEF FinishJob, AiredKept
<1>10. AttemptsApart'
  <2>1. ASSUME NEW t \in Sources, t # s, NEW k \in Keys(new.msg)
        PROVE  ~Holds(t, k)
    BY <1>1, <1>5, <2>1 DEF AttemptsExclusive, Busy
  <2>2. QED
    BY <1>2, <1>3, <1>4, <2>1 DEF FinishJob, AttemptsApart, Holds, Busy
<1>11. AiringsApart'
  <2>1. ASSUME NEW a \in airings, a.life = life, NEW k \in Keys(a.msg), k \in Keys(new.msg)
        PROVE  new.since - a.since > Ttl
    BY <1>1, <1>5, <2>1 DEF AttemptsApart, Holds, Busy
  <2>2. QED
    BY <1>4, <1>5, <2>1 DEF AiringsApart
<1>12. ReservationsAccounted'
  BY <1>2, <1>3, <1>4 DEF FinishJob, ReservationsAccounted, Holds, Busy
<1>13. QED
  BY <1>2, <1>6, <1>7, <1>8, <1>9, <1>10, <1>11, <1>12

(* A reservation: none of its keys is live, so no attempt has one, and an  *)
(* airing that left one there is more than Ttl old.                        *)
LEMMA ReserveStep ==
    ASSUME IInv, TypeOK', NEW s \in Sources, NEW m \in Messages, Reserve(s, m)
    PROVE  IInv'
PROOF
<1>. USE DEF IInv
<1>1. /\ up /\ up' = up /\ clock' = clock /\ life' = life /\ airings' = airings /\ worker' = worker
      /\ rt[s].stage = "idle"
      /\ Keys(m) \cap LiveKeys = {}
      /\ recent' = [k \in LiveKeys \cup Keys(m) |-> IF k \in Keys(m) THEN clock ELSE recent[k]]
  BY DEF Reserve, Starts, Busy
<1>2. /\ rt'[s].stage \in {"preparing", "waiting"}
      /\ rt'[s].msg = m
      /\ rt'[s].since = clock
      /\ \A t \in Sources : t # s => rt'[t] = rt[t]
  BY DEF Reserve, TypeOK
<1>3. ASSUME NEW t \in Sources, t # s, Busy(t), NEW k \in Keys(rt[t].msg)
      PROVE  k \notin Keys(m) /\ k \in LiveKeys /\ recent[k] = rt[t].since
  <2>1. k \in DOMAIN recent /\ recent[k] = rt[t].since
    BY <1>3 DEF AttemptsExclusive
  <2>2. clock - recent[k] <= Ttl
    BY <1>3, <2>1 DEF AttemptsTimely
  <2>3. QED
    BY <1>1, <2>1, <2>2 DEF LiveKeys
<1>4. JobsAwaited'
  <2>1. \A j \in jobs \cup worker : j.src # s /\ j.src \in Sources
    BY <1>1 DEF JobsAwaited, TypeOK, Jobs
  <2>2. jobs' \subseteq jobs \cup {NewJob(s, m)} /\ (NewJob(s, m) \in jobs' => rt'[s].stage = "waiting")
    BY <2>1, <1>2 DEF Reserve, NewJob, TypeOK
  <2>3. QED
    BY <1>1, <1>2, <2>1, <2>2 DEF JobsAwaited, NewJob
<1>5. AttemptsTimely'
  <2>1. clock \in Nat /\ Ttl \in Nat
    BY TtlAssumption DEF TypeOK
  <2>2. clock <= clock /\ clock - clock <= Ttl
    BY <2>1
  <2>3. QED
    BY <1>1, <1>2, <2>2 DEF AttemptsTimely, Busy
<1>6. DownIsEmpty'
  BY <1>1 DEF DownIsEmpty
<1>7. AttemptsExclusive'
  <2>1. ASSUME NEW t \in Sources, rt'[t].stage # "idle", NEW k \in Keys(rt'[t].msg)
        PROVE  k \in DOMAIN recent' /\ recent'[k] = rt'[t].since
    <3>1. CASE t = s
      BY <1>1, <1>2, <2>1, <3>1
    <3>2. CASE t # s
      BY <1>1, <1>2, <1>3, <2>1, <3>2 DEF Busy
    <3>3. QED
      BY <3>1, <3>2
  <2>2. ASSUME NEW t \in Sources, NEW u \in Sources \ {t}, NEW k,
               rt'[t].stage # "idle", rt'[u].stage # "idle", k \in Keys(rt'[t].msg), k \in Keys(rt'[u].msg)
        PROVE  FALSE
    <3>1. CASE t = s
      BY <1>2, <1>3, <2>2, <3>1 DEF Busy
    <3>2. CASE u = s
      BY <1>2, <1>3, <2>2, <3>2 DEF Busy
    <3>3. CASE t # s /\ u # s
      BY <1>2, <2>2, <3>3 DEF AttemptsExclusive, Holds, Busy
    <3>4. QED
      BY <3>1, <3>2, <3>3
  <2>3. QED
    BY <2>1, <2>2 DEF AttemptsExclusive, Holds, Busy
<1>8. AiredRecorded'
  BY <1>1, <1>2 DEF AiredRecorded
<1>9. \A a \in airings : a.since \in Nat
  BY DEF TypeOK, Airings
<1>10. ASSUME NEW a \in airings, a.life = life, NEW k \in Keys(a.msg), k \notin LiveKeys
       PROVE  clock - a.since > Ttl
  BY <1>1, <1>9, <1>10, TtlAssumption DEF AiredKept, LiveKeys, TypeOK
<1>11. AiredKept'
  <2>1. ASSUME NEW a \in airings, a.life = life, NEW k \in Keys(a.msg)
        PROVE  (k \in DOMAIN recent' /\ recent'[k] = a.since) \/ clock - a.since > Ttl
    <3>1. CASE k \in LiveKeys
      BY <1>1, <2>1, <3>1 DEF AiredKept, LiveKeys
    <3>2. CASE k \notin LiveKeys
      BY <1>10, <2>1, <3>2
    <3>3. QED
      BY <3>1, <3>2
  <2>2. QED
    BY <1>1, <2>1 DEF AiredKept
<1>12. AttemptsApart'
  <2>1. ASSUME NEW t \in Sources, rt'[t].stage # "idle", rt'[t].stage # "aired",
               NEW a \in airings, a.life = life, NEW k \in Keys(a.msg), k \in Keys(rt'[t].msg)
        PROVE  rt'[t].since - a.since > Ttl
    <3>1. CASE t = s
      BY <1>1, <1>2, <1>10, <2>1, <3>1
    <3>2. CASE t # s
      BY <1>2, <2>1, <3>2 DEF AttemptsApart, Holds, Busy
    <3>3. QED
      BY <3>1, <3>2
  <2>2. QED
    BY <1>1, <2>1 DEF AttemptsApart, Holds, Busy
<1>13. AiringsApart'
  BY <1>1 DEF AiringsApart
<1>14. ReservationsAccounted'
  <2>1. ASSUME NEW k \in DOMAIN recent'
        PROVE  \/ \E t \in Sources : rt'[t].stage # "idle" /\ k \in Keys(rt'[t].msg) /\ rt'[t].since = recent'[k]
               \/ \E a \in airings : a.life = life /\ k \in Keys(a.msg) /\ a.since = recent'[k]
    <3>1. CASE k \in Keys(m)
      <4>1. rt'[s].stage # "idle" /\ k \in Keys(rt'[s].msg) /\ rt'[s].since = recent'[k]
        BY <1>1, <1>2, <3>1
      <4>2. QED
        BY <4>1
    <3>2. CASE k \notin Keys(m)
      <4>1. k \in DOMAIN recent /\ recent'[k] = recent[k]
        BY <1>1, <2>1, <3>2 DEF LiveKeys
      <4>2. CASE \E t \in Sources : Holds(t, k) /\ rt[t].since = recent[k]
        BY <1>1, <1>2, <4>1, <4>2 DEF Holds, Busy
      <4>3. CASE \E a \in airings : a.life = life /\ k \in Keys(a.msg) /\ a.since = recent[k]
        BY <4>1, <4>3
      <4>4. QED
        BY <4>1, <4>2, <4>3 DEF ReservationsAccounted
    <3>3. QED
      BY <3>1, <3>2
  <2>2. QED
    BY <1>1, <2>1 DEF ReservationsAccounted, Holds, Busy
<1>15. QED
  BY <1>4, <1>5, <1>6, <1>7, <1>8, <1>11, <1>12, <1>13, <1>14

(* A runtime commits: what it held is accounted for by its airing.         *)
LEMMA CommitStep ==
    ASSUME IInv, TypeOK', NEW s \in Sources, Commit(s)
    PROVE  IInv'
PROOF
<1>. USE DEF IInv
<1>1. /\ UNCHANGED <<clock, up, life, recent, jobs, worker, airings>>
      /\ rt[s].stage = "aired"
  BY DEF Commit
<1>2. rt'[s].stage = "idle" /\ \A t \in Sources : t # s => rt'[t] = rt[t]
  BY DEF Commit, TypeOK, IdleRuntime
<1>3. JobsAwaited'
  BY <1>1, <1>2 DEF JobsAwaited, TypeOK, Jobs
<1>4. AttemptsTimely'
  BY <1>1, <1>2 DEF AttemptsTimely, Busy
<1>5. DownIsEmpty'
  BY <1>1, <1>2 DEF DownIsEmpty, Busy
<1>6. AttemptsExclusive'
  BY <1>1, <1>2 DEF AttemptsExclusive, Holds, Busy
<1>7. AiredRecorded'
  BY <1>1, <1>2 DEF AiredRecorded
<1>8. AiredKept' /\ AiringsApart'
  BY <1>1 DEF AiredKept, AiringsApart
<1>9. AttemptsApart'
  BY <1>1, <1>2 DEF AttemptsApart, Holds, Busy
<1>10. ReservationsAccounted'
  <2>1. ASSUME NEW k \in DOMAIN recent
        PROVE  \/ \E t \in Sources : rt'[t].stage # "idle" /\ k \in Keys(rt'[t].msg) /\ rt'[t].since = recent[k]
               \/ \E a \in airings : a.life = life /\ k \in Keys(a.msg) /\ a.since = recent[k]
    <3>1. CASE Holds(s, k) /\ rt[s].since = recent[k]
      BY <1>1, <3>1 DEF AiredRecorded, Holds
    <3>2. ASSUME NEW t \in Sources, t # s, Holds(t, k), rt[t].since = recent[k]
          PROVE  \E u \in Sources : rt'[u].stage # "idle" /\ k \in Keys(rt'[u].msg) /\ rt'[u].since = recent[k]
      BY <1>2, <3>2 DEF Holds, Busy
    <3>3. QED
      BY <3>1, <3>2 DEF ReservationsAccounted
  <2>2. QED
    BY <1>1, <2>1 DEF ReservationsAccounted, Holds, Busy
<1>11. QED
  BY <1>3, <1>4, <1>5, <1>6, <1>7, <1>8, <1>9, <1>10

(* A runtime gives up: it releases its own keys and no one else's.         *)
LEMMA AbortStep ==
    ASSUME IInv, TypeOK', NEW s \in Sources, Abort(s)
    PROVE  IInv'
PROOF
<1>. USE DEF IInv
<1>1. /\ UNCHANGED <<clock, up, life, jobs, worker, airings>>
      /\ rt[s].stage = "failed"
      /\ recent' = [k \in DOMAIN recent \ Keys(rt[s].msg) |-> recent[k]]
  BY DEF Abort
<1>2. rt'[s].stage = "idle" /\ \A t \in Sources : t # s => rt'[t] = rt[t]
  BY DEF Abort, TypeOK, IdleRuntime
<1>3. JobsAwaited'
  BY <1>1, <1>2 DEF JobsAwaited, TypeOK, Jobs
<1>4. AttemptsTimely'
  BY <1>1, <1>2 DEF AttemptsTimely, Busy
<1>5. up /\ DownIsEmpty'
  BY <1>1, <1>2 DEF DownIsEmpty, Busy
<1>6. AttemptsExclusive'
  <2>1. ASSUME NEW t \in Sources, t # s, rt[t].stage # "idle", NEW k \in Keys(rt[t].msg)
        PROVE  k \in DOMAIN recent' /\ recent'[k] = rt[t].since
    BY <1>1, <2>1 DEF AttemptsExclusive, Holds, Busy
  <2>2. QED
    BY <1>2, <2>1 DEF AttemptsExclusive, Holds, Busy
<1>7. AiredRecorded'
  BY <1>1, <1>2 DEF AiredRecorded
<1>8. AiredKept'
  <2>1. ASSUME NEW a \in airings, a.life = life, NEW k \in Keys(a.msg)
        PROVE  (k \in DOMAIN recent' /\ recent'[k] = a.since) \/ clock - a.since > Ttl
    <3>1. CASE k \in Keys(rt[s].msg)
      <4>1. rt[s].since - a.since > Ttl
        BY <1>1, <2>1, <3>1 DEF AttemptsApart, Holds, Busy
      <4>2. rt[s].since <= clock
        BY <1>1 DEF AttemptsTimely, Busy
      <4>3. rt[s].since \in Nat /\ a.since \in Nat /\ clock \in Nat /\ Ttl \in Nat
        BY TtlAssumption DEF TypeOK, Airings, Runtimes
      <4>4. QED
        BY <4>1, <4>2, <4>3
    <3>2. CASE k \notin Keys(rt[s].msg)
      BY <1>1, <1>5, <2>1, <3>2 DEF AiredKept
    <3>3. QED
      BY <3>1, <3>2
  <2>2. QED
    BY <1>1, <2>1 DEF AiredKept
<1>9. AttemptsApart' /\ AiringsApart'
  BY <1>1, <1>2 DEF AttemptsApart, AiringsApart, Holds, Busy
<1>10. ReservationsAccounted'
  <2>1. ASSUME NEW k \in DOMAIN recent'
        PROVE  \/ \E t \in Sources : rt'[t].stage # "idle" /\ k \in Keys(rt'[t].msg) /\ rt'[t].since = recent'[k]
               \/ \E a \in airings : a.life = life /\ k \in Keys(a.msg) /\ a.since = recent'[k]
    <3>1. k \in DOMAIN recent /\ k \notin Keys(rt[s].msg) /\ recent'[k] = recent[k]
      BY <1>1, <2>1
    <3>2. CASE \E t \in Sources : Holds(t, k) /\ rt[t].since = recent[k]
      BY <1>2, <3>1, <3>2 DEF Holds, Busy
    <3>3. CASE \E a \in airings : a.life = life /\ k \in Keys(a.msg) /\ a.since = recent[k]
      BY <3>1, <3>3
    <3>4. QED
      BY <3>1, <3>2, <3>3 DEF ReservationsAccounted
  <2>2. QED
    BY <1>1, <2>1 DEF ReservationsAccounted, Holds, Busy
<1>11. QED
  BY <1>3, <1>4, <1>5, <1>6, <1>7, <1>8, <1>9, <1>10

(* The process dies with its tasks, its queues and its map.                *)
LEMMA ForgetStep ==
    ASSUME IInv, TypeOK', LoseMemory, UNCHANGED <<clock, life, sent, airings, failed>>
    PROVE  IInv'
PROOF
<1>. USE DEF IInv
<1>1. UNCHANGED <<clock, life, airings>> /\ up' = FALSE /\ recent' = <<>> /\ jobs' = {} /\ worker' = {}
  BY DEF LoseMemory
<1>2. \A t \in Sources : rt'[t].stage = "idle"
  BY DEF LoseMemory, IdleRuntime
<1>3. JobsAwaited'
  BY <1>1 DEF JobsAwaited
<1>4. AttemptsTimely' /\ DownIsEmpty' /\ AttemptsExclusive' /\ AttemptsApart'
  BY <1>1, <1>2 DEF AttemptsTimely, DownIsEmpty, AttemptsExclusive, AttemptsApart, Holds, Busy
<1>5. AiredRecorded' /\ AiredKept' /\ AiringsApart'
  BY <1>1, <1>2 DEF AiredRecorded, AiredKept, AiringsApart
<1>6. ReservationsAccounted'
  BY <1>1, NoReservations DEF ReservationsAccounted
<1>7. QED
  BY <1>3, <1>4, <1>5, <1>6

(* A new process has aired nothing.                                        *)
LEMMA RestartStep ==
    ASSUME IInv, TypeOK', Restart
    PROVE  IInv'
PROOF
<1>. USE DEF IInv
<1>1. UNCHANGED <<clock, rt, recent, jobs, worker, airings>> /\ up' /\ life' = life + 1
  BY DEF Restart
<1>2. recent = <<>> /\ jobs = {} /\ worker = {} /\ \A s \in Sources : ~Busy(s)
  BY DEF Restart, DownIsEmpty
<1>3. \A a \in airings : a.life # life'
  BY <1>1 DEF AiredRecorded, TypeOK, Airings
<1>4. AiredRecorded'
  BY <1>1, <1>2 DEF AiredRecorded, TypeOK, Airings, Busy
<1>5. AiredKept' /\ AttemptsApart' /\ AiringsApart'
  BY <1>1, <1>3 DEF AiredKept, AttemptsApart, AiringsApart
<1>6. AttemptsExclusive' /\ JobsAwaited' /\ AttemptsTimely' /\ DownIsEmpty'
  BY <1>1 DEF AttemptsExclusive, JobsAwaited, AttemptsTimely, DownIsEmpty, Holds, Busy
<1>7. ReservationsAccounted'
  BY <1>1, <1>2, NoReservations DEF ReservationsAccounted
<1>8. QED
  BY <1>4, <1>5, <1>6, <1>7

(* The clock advances only while every attempt is within its reservation.  *)
LEMMA TickStep ==
    ASSUME IInv, TypeOK', Tick
    PROVE  IInv'
PROOF
<1>. USE DEF IInv
<1>1. UNCHANGED <<up, life, rt, recent, jobs, worker, airings>> /\ clock' = clock + 1
  BY DEF Tick
<1>2. clock \in Nat /\ Ttl \in Nat /\ (\A s \in Sources : rt[s].since \in Nat)
      /\ \A a \in airings : a.since \in Nat
  BY TtlAssumption DEF TypeOK, Airings, Runtimes
<1>3. AttemptsTimely'
  BY <1>1, <1>2 DEF Tick, AttemptsTimely, Busy
<1>4. AiredKept'
  BY <1>1, <1>2 DEF AiredKept
<1>5. JobsAwaited' /\ DownIsEmpty' /\ AttemptsExclusive' /\ AiredRecorded' /\ AttemptsApart' /\ AiringsApart'
      /\ ReservationsAccounted'
  BY <1>1 DEF JobsAwaited, DownIsEmpty, AttemptsExclusive, AiredRecorded, AttemptsApart, AiringsApart,
              ReservationsAccounted, Holds, Busy
<1>6. QED
  BY <1>3, <1>4, <1>5

LEMMA Initially == Init => IInv
PROOF
<1>. SUFFICES ASSUME Init PROVE IInv
  OBVIOUS
<1>1. TypeOK
  BY TypeInit
<1>2. \A s \in Sources : rt[s].stage = "idle"
  BY DEF Init, IdleRuntime
<1>3. up /\ jobs = {} /\ worker = {} /\ airings = {} /\ recent = <<>>
  BY DEF Init
<1>4. ReservationsAccounted
  BY <1>3, NoReservations DEF ReservationsAccounted
<1>5. JobsAwaited /\ AttemptsTimely /\ DownIsEmpty /\ AttemptsExclusive /\ AiredRecorded
      /\ AiredKept /\ AttemptsApart /\ AiringsApart
  BY <1>2, <1>3 DEF JobsAwaited, AttemptsTimely, DownIsEmpty, AttemptsExclusive, AiredRecorded,
                    AiredKept, AttemptsApart, AiringsApart, Holds, Busy
<1>6. QED
  BY <1>1, <1>4, <1>5 DEF IInv

LEMMA Inductive == IInv /\ [Next]_vars => IInv'
PROOF
<1>. SUFFICES ASSUME IInv, [Next]_vars PROVE IInv'
  OBVIOUS
<1>. TypeOK'
  BY TypeStep DEF IInv
<1>1. ASSUME NEW m \in Messages, Receive(m) PROVE IInv'
  BY <1>1, QuietStep DEF Receive
<1>2. ASSUME NEW s \in Sources, NEW m \in Messages, Discard(s, m) PROVE IInv'
  BY <1>2, QuietStep DEF Discard
<1>3. ASSUME NEW s \in Sources, NEW m \in Messages, SkipDuplicate(s, m) PROVE IInv'
  BY <1>3, PruneStep
<1>4. ASSUME NEW s \in Sources, NEW m \in Messages, Reserve(s, m) PROVE IInv'
  BY <1>4, ReserveStep
<1>5. ASSUME NEW s \in Sources, Submit(s) \/ PrepareFails(s) PROVE IInv'
  BY <1>5, SubmitStep, PrepareFailsStep
<1>6. ASSUME NEW s \in Sources, Resume(s) PROVE IInv'
  <2>1. CASE Commit(s)
    BY <2>1, CommitStep
  <2>2. CASE Abort(s)
    BY <2>2, AbortStep
  <2>3. CASE Die(s)
    BY <2>3, ForgetStep DEF Die
  <2>4. QED
    BY <1>6, <2>1, <2>2, <2>3 DEF Resume
<1>7. CASE Work
  BY <1>7, StartStep DEF Work
<1>8. CASE Complete
  BY <1>8, FinishStep, FailStep DEF Complete
<1>9. CASE Crash
  BY <1>9, ForgetStep DEF Crash
<1>10. CASE Restart
  BY <1>10, RestartStep
<1>11. CASE Tick
  BY <1>11, TickStep
<1>12. CASE UNCHANGED vars
  BY <1>12, QuietStep DEF vars
<1>13. QED
  BY <1>1, <1>2, <1>3, <1>4, <1>5, <1>6, <1>7, <1>8, <1>9, <1>10, <1>11, <1>12 DEF Next, Handle

LEMMA Invariance == Spec => []IInv
PROOF
  BY Initially, Inductive, PTL DEF Spec

-----------------------------------------------------------------------------
(* The variables keep their types: in particular every history entry and   *)
(* every queued job is one of a real message and runtime.                  *)
THEOREM TypeCorrect == Spec => []TypeOK
PROOF
<1>1. IInv => TypeOK
  BY DEF IInv
<1>2. QED
  BY <1>1, Invariance, PTL

(* _dedupe_reserve and _dedupe_release never leave a key in the map that   *)
(* no running attempt and no airing of this process accounts for.          *)
THEOREM Accounting == Spec => []ReservationsAccounted
PROOF
<1>1. IInv => ReservationsAccounted
  BY DEF IInv
<1>2. QED
  BY <1>1, Invariance, PTL

(* Two runtimes never work on alerts that need a common dedupe key, and a  *)
(* runtime's keys stay in the map until it is done, whatever the other     *)
(* runtimes reserve, release or prune.                                     *)
THEOREM Exclusion == Spec => []AttemptsExclusive
PROOF
<1>1. IInv => AttemptsExclusive
  BY DEF IInv
<1>2. QED
  BY <1>1, Invariance, PTL

(* One process never tones out the same alert twice within the dedupe      *)
(* window, whichever of the four sources carry it and in whatever order    *)
(* attempts fail, are retried and expire.                                  *)
THEOREM SingleTone == Spec => []NoDoubleTone
PROOF
<1>1. IInv => NoDoubleTone
  <2>. SUFFICES ASSUME IInv, NEW a \in airings, NEW b \in airings, a # b, a.life = b.life,
                       IsFull(a.msg), IsFull(b.msg), SameAlert(a.msg, b.msg)
                PROVE  a.since - b.since > Ttl \/ b.since - a.since > Ttl
    BY DEF NoDoubleTone
  <2>1. a.msg \in Messages /\ b.msg \in Messages
    BY DEF IInv, TypeOK, Airings
  <2>2. QED
    BY <2>1, SharedKey DEF IInv, AiringsApart
<1>2. QED
  BY <1>1, Invariance, PTL

-----------------------------------------------------------------------------
(* What the keys do not see.  A CAP voice event has a key for its track,   *)
(* whatever the action; a CAP update has no key in common with a tone-out; *)
(* an NWWS product that cannot be placed is read out, and its VTEC keys    *)
(* keep a tone-out off; and one key that is taken drops a whole message.   *)
(* Each makes a property of the run fail for some messages, so the         *)
(* theorems below name the one they need to be away.                       *)

(* An identifier stands for one text. *)
IdsAreTrue ==
    \A m, n \in Messages : (m.src = n.src /\ m.id = n.id) => m.vtec = n.vtec

(* No advisory comes by CAP: its VTEC messages are toned out or updates.   *)
NoVoiceTracks ==
    \A m \in Messages : (m.src = "CAP" /\ m.vtec # {}) => Route(m) \in {"full", "update", "skip"}

(* What one message tones out, no CAP update carries.                      *)
UpdatesApart ==
    \A m, n \in Messages :
        (m.src = "CAP" /\ Route(m) = "update" /\ SameAlert(m, n)) => ~IsFull(n)

(* What one message tones out, NWWS-OI tones out too.                      *)
TonedByNwws ==
    \A m, n \in Messages :
        (IsFull(m) /\ n.src = "NWWS" /\ SameAlert(m, n)) => IsFull(n)

(* One lifecycle action in a message.                                      *)
OneActionEach ==
    \A m \in Messages : \A v, w \in m.vtec : v.track = w.track /\ v.act = w.act

(* Messages with VTEC come by CAP or NWWS-OI.                              *)
LEMMA VtecSources ==
    ASSUME NEW m \in Messages, m.vtec # {}
    PROVE  m.src \in {"CAP", "NWWS"}
PROOF
  BY MessagesAssumption DEF Sources

LEMMA TrackKeyOf ==
    ASSUME NEW m, NEW tag, NEW v \in m.vtec
    PROVE  <<tag, v.track, v.act>> \in TrackKeys(tag, m)
PROOF
<1>1. <<v.track, v.act>> \in VtecTracks(m.vtec)
  BY DEF VtecTracks
<1>2. QED
  BY <1>1 DEF TrackKeys

(* Two airings of one lifecycle action need a common key, whether they are *)
(* toned out or read out.                                                  *)
LEMMA SharedAirKey ==
    ASSUME NoVoiceTracks, UpdatesApart,
           NEW m \in Messages, NEW n \in Messages, Route(m) # "skip", Route(n) # "skip",
           m.vtec # {}, SameAlert(m, n)
    PROVE  \E k \in Keys(m) : k \in Keys(n)
PROOF
<1>1. PICK x : x \in Actions(m) /\ x \in Actions(n)
  BY DEF SameAlert
<1>2. n.vtec # {}
  BY <1>1 DEF Actions
<1>3. PICK v \in m.vtec : x = <<"action", v.track, v.act>>
  BY <1>1 DEF Actions
<1>4. PICK w \in n.vtec : x = <<"action", w.track, w.act>>
  BY <1>1, <1>2 DEF Actions
<1>5. v.track = w.track /\ v.act = w.act
  BY <1>3, <1>4
<1>6. m.src \in {"CAP", "NWWS"} /\ n.src \in {"CAP", "NWWS"}
  BY <1>2, VtecSources
<1>7. SameAlert(n, m)
  BY DEF SameAlert
<1>8. \A tag : <<tag, v.track, v.act>> \in TrackKeys(tag, m) /\ <<tag, v.track, v.act>> \in TrackKeys(tag, n)
  BY <1>5, TrackKeyOf
<1>9. CASE IsFull(m) /\ IsFull(n)
  BY <1>9, SharedKey
<1>10. ASSUME NEW p \in Messages, p.src = "NWWS" \/ (p.src = "CAP" /\ IsFull(p))
       PROVE  TrackKeys("VTEC", p) \subseteq Keys(p)
  <2>1. CASE p.src = "CAP"
    BY <1>10, <2>1 DEF Keys, CapKeys, CapFullKeys
  <2>2. CASE p.src = "NWWS"
    <3>1. Keys(p) = NwwsKeys(p)
      BY <2>2 DEF Keys
    <3>2. TrackKeys("VTEC", p) \subseteq NwwsKeys(p)
      BY DEF NwwsKeys
    <3>3. QED
      BY <3>1, <3>2
  <2>3. QED
    BY <1>10, <2>1, <2>2
<1>11. ASSUME NEW p \in Messages, p.vtec # {}, ~IsFull(p), Route(p) # "skip", p.src \in {"CAP", "NWWS"}
       PROVE  TrackKeys("TRACKVOICE", p) \subseteq Keys(p) /\ (p.src = "CAP" => Route(p) = "update")
  <2>1. CASE p.src = "CAP"
    <3>1. Route(p) = "update"
      BY <1>11, <2>1 DEF NoVoiceTracks, IsFull
    <3>2. QED
      BY <1>11, <2>1, <3>1 DEF Keys, CapKeys, CapUpdateKeys
  <2>2. CASE p.src = "NWWS"
    <3>1. Keys(p) = NwwsKeys(p)
      BY <2>2 DEF Keys
    <3>2. TrackKeys("TRACKVOICE", p) \subseteq NwwsKeys(p)
      BY <1>11 DEF NwwsKeys
    <3>3. QED
      BY <2>2, <3>1, <3>2
  <2>3. QED
    BY <1>11, <2>1, <2>2
<1>12. CASE ~IsFull(m) /\ ~IsFull(n)
  BY <1>2, <1>6, <1>8, <1>11, <1>12
<1>13. CASE ~(m.src = "CAP" /\ ~IsFull(m)) /\ ~(n.src = "CAP" /\ ~IsFull(n))
  BY <1>6, <1>8, <1>10, <1>13
<1>14. ASSUME NEW p \in Messages, NEW q \in Messages, p.vtec # {}, SameAlert(p, q),
              p.src = "CAP", ~IsFull(p), Route(p) # "skip", IsFull(q)
       PROVE  FALSE
  BY <1>11, <1>14 DEF UpdatesApart
<1>15. QED
  BY <1>2, <1>6, <1>7, <1>9, <1>12, <1>13, <1>14

(* What was aired was not to be skipped. *)
AirsRouted ==
    /\ \A s \in Sources : Busy(s) => Route(rt[s].msg) # "skip"
    /\ \A a \in airings : Route(a.msg) # "skip"

LEMMA RoutedStep == IInv /\ AirsRouted /\ [Next]_vars => AirsRouted'
PROOF
<1>. SUFFICES ASSUME IInv, AirsRouted, [Next]_vars PROVE AirsRouted'
  OBVIOUS
<1>. USE DEF AirsRouted, Busy, IdleRuntime
<1>1. TypeOK
  BY DEF IInv
<1>2. CASE UNCHANGED <<rt, airings>>
  BY <1>2
<1>3. ASSUME NEW s \in Sources, NEW m \in Messages, Reserve(s, m) PROVE AirsRouted'
  <2>1. Route(m) # "skip" /\ airings' = airings
    BY <1>3 DEF Reserve
  <2>2. \A u \in Sources : rt'[u].msg = m \/ rt'[u] = rt[u]
    BY <1>1, <1>3 DEF Reserve, TypeOK
  <2>3. QED
    BY <2>1, <2>2
<1>4. ASSUME NEW s \in Sources, NEW st \in Stages \ {"idle"}, Busy(s),
             rt' = [rt EXCEPT ![s].stage = st], UNCHANGED airings
      PROVE  AirsRouted'
  BY <1>1, <1>4 DEF TypeOK, Runtimes
<1>5. ASSUME NEW s \in Sources, Submit(s) \/ PrepareFails(s) PROVE AirsRouted'
  BY <1>4, <1>5 DEF Submit, PrepareFails, Stages
<1>6. ASSUME NEW j \in worker, FinishJob(j) \/ FailJob(j) PROVE AirsRouted'
  <2>1. j.src \in Sources /\ rt[j.src].stage = "waiting"
    BY DEF IInv, TypeOK, Jobs, JobsAwaited
  <2>2. CASE FailJob(j)
    BY <1>4, <2>1, <2>2 DEF FailJob, Stages
  <2>3. CASE FinishJob(j)
    <3>1. \A s \in Sources : rt'[s].msg = rt[s].msg /\ (rt'[s].stage # "idle" => rt[s].stage # "idle")
      BY <1>1, <2>1, <2>3 DEF FinishJob, TypeOK, Runtimes
    <3>2. \A a \in airings' : a \in airings \/ a.msg = rt[j.src].msg
      BY <2>3 DEF FinishJob
    <3>3. QED
      BY <2>1, <3>1, <3>2
  <2>4. QED
    BY <1>6, <2>2, <2>3
<1>7. ASSUME NEW s \in Sources, Commit(s) \/ Abort(s) PROVE AirsRouted'
  <2>1. airings' = airings /\ rt' = [rt EXCEPT ![s] = IdleRuntime]
    BY <1>7 DEF Commit, Abort
  <2>2. \A u \in Sources : rt'[u].stage = "idle" \/ rt'[u] = rt[u]
    BY <1>1, <2>1 DEF TypeOK
  <2>3. QED
    BY <2>1, <2>2
<1>8. CASE LoseMemory /\ UNCHANGED airings
  BY <1>8 DEF LoseMemory
<1>9. ASSUME NEW s \in Sources, NEW m \in Messages, Discard(s, m) \/ SkipDuplicate(s, m)
      PROVE  AirsRouted'
  BY <1>2, <1>9 DEF Discard, SkipDuplicate
<1>10. ASSUME NEW m \in Messages, Receive(m) PROVE AirsRouted'
  BY <1>2, <1>10 DEF Receive
<1>11. ASSUME NEW j \in jobs, StartJob(j) PROVE AirsRouted'
  BY <1>2, <1>11 DEF StartJob
<1>12. CASE Restart \/ Tick
  BY <1>2, <1>12 DEF Restart, Tick
<1>13. CASE UNCHANGED vars
  BY <1>2, <1>13 DEF vars
<1>14. QED
  BY <1>3, <1>5, <1>6, <1>7, <1>8, <1>9, <1>10, <1>11, <1>12, <1>13
     DEF Next, Handle, Resume, Work, Complete, Die, Crash

LEMMA Routed == Spec => [](IInv /\ AirsRouted)
PROOF
<1>1. Init => AirsRouted
  BY DEF Init, AirsRouted, Busy, IdleRuntime
<1>2. QED
  BY <1>1, Initially, Inductive, RoutedStep, PTL DEF Spec

(* One process reads out no VTEC lifecycle action twice within the window, *)
(* in full or as voice, if advisories do not come by CAP and its updates   *)
(* carry nothing that is toned out.                                        *)
THEOREM SingleAiring ==
    ASSUME NoVoiceTracks, UpdatesApart
    PROVE  Spec => []NoDoubleAir
PROOF
<1>1. IInv /\ AirsRouted => NoDoubleAir
  <2>. SUFFICES ASSUME IInv, AirsRouted, NEW a \in airings, NEW b \in airings, a # b,
                       a.life = b.life, a.msg.vtec # {}, SameAlert(a.msg, b.msg)
                PROVE  a.since - b.since > Ttl \/ b.since - a.since > Ttl
    BY DEF NoDoubleAir
  <2>1. a.msg \in Messages /\ b.msg \in Messages
    BY DEF IInv, TypeOK, Airings
  <2>2. \E k \in Keys(a.msg) : k \in Keys(b.msg)
    BY <2>1, SharedAirKey DEF AirsRouted
  <2>3. QED
    BY <2>2 DEF IInv, AiringsApart
<1>2. QED
  BY <1>1, Routed, PTL

(* The forms of a key that an airing of p reserves.                        *)
KeyForm(p, k) ==
    \/ \E v \in p.vtec : \E tag \in {"TRACKFULL", "TRACKVOICE", "VTEC"} :
           /\ k = <<tag, v.track, v.act>>
           /\ tag = "TRACKVOICE" => ~IsFull(p)
           /\ tag # "TRACKVOICE" => IsFull(p) \/ p.src = "NWWS"
    \/ /\ p.src = "CAP" /\ Route(p) \notin {"full", "update"}
       /\ \E v \in p.vtec : k = <<"TRACKVOICE", v.track>>
    \/ p.src = "CAP" /\ IsFull(p) /\ k = <<"CAPFULL", p.id>>
    \/ p.src = "CAP" /\ ~IsFull(p) /\ \E tag \in {"CAPUPDATE", "CAPVOICE"} : k = <<tag, p.id>>
    \/ p.src = "NWWS" /\ k = <<"NWWS", p.id, Route(p)>>
    \/ p.vtec = {} /\ k = <<"FUNC_FULL", p.func>>
    \/ p.vtec = {} /\ \E tag \in {"IPAWSFULL", "IPAWSVOICE", "ERNRELAY"} : k = <<tag, p.id>>

LEMMA KeyForms ==
    ASSUME NEW p \in Messages, NEW k \in Keys(p)
    PROVE  KeyForm(p, k)
PROOF
<1>1. p.src \in Sources /\ (p.src \in {"IPAWS", "ERN"} => p.vtec = {})
  BY MessagesAssumption
<1>2. ASSUME NEW tag, k \in TrackKeys(tag, p) PROVE \E v \in p.vtec : k = <<tag, v.track, v.act>>
  BY <1>2 DEF TrackKeys, VtecTracks
<1>3. ASSUME k \in FuncKeys(p) PROVE k = <<"FUNC_FULL", p.func>>
  BY <1>3 DEF FuncKeys
<1>4. CASE p.src = "CAP"
  <2>1. CASE IsFull(p)
    <3>1. \/ k \in TrackKeys("TRACKFULL", p) \/ k \in TrackKeys("VTEC", p)
          \/ p.vtec = {} /\ k \in FuncKeys(p)
          \/ k = <<"CAPFULL", p.id>>
      BY <1>4, <2>1 DEF Keys, CapKeys, CapFullKeys
    <3>2. QED
      BY <1>2, <1>3, <1>4, <2>1, <3>1 DEF KeyForm
  <2>2. CASE ~IsFull(p) /\ Route(p) = "update"
    <3>1. k \in TrackKeys("TRACKVOICE", p) \/ k = <<"CAPUPDATE", p.id>>
      BY <1>4, <2>2 DEF Keys, CapKeys, CapUpdateKeys
    <3>2. QED
      BY <1>2, <1>4, <2>2, <3>1 DEF KeyForm
  <2>3. CASE ~IsFull(p) /\ Route(p) # "update"
    <3>1. k \in CapVoiceKeys(p)
      BY <1>4, <2>3 DEF Keys, CapKeys
    <3>2. (\E v \in p.vtec : k = <<"TRACKVOICE", v.track>>) \/ k = <<"CAPVOICE", p.id>>
      BY <3>1 DEF CapVoiceKeys
    <3>3. QED
      BY <1>4, <2>3, <3>2 DEF KeyForm, IsFull
  <2>4. QED
    BY <2>1, <2>2, <2>3
<1>5. CASE p.src = "NWWS"
  <2>1. \/ IsFull(p) /\ k \in TrackKeys("TRACKFULL", p)
        \/ ~IsFull(p) /\ k \in TrackKeys("TRACKVOICE", p)
        \/ k \in TrackKeys("VTEC", p)
        \/ p.vtec = {} /\ k \in FuncKeys(p)
        \/ k = <<"NWWS", p.id, Route(p)>>
    <3>1. k \in NwwsKeys(p)
      BY <1>5 DEF Keys
    <3>2. QED
      BY <3>1 DEF NwwsKeys
  <2>2. QED
    BY <1>2, <1>3, <1>5, <2>1 DEF KeyForm
<1>6. CASE p.src = "IPAWS"
  BY <1>1, <1>3, <1>6 DEF Keys, IpawsKeys, KeyForm
<1>7. CASE p.src = "ERN"
  BY <1>1, <1>3, <1>7 DEF Keys, ErnKeys, KeyForm
<1>8. QED
  BY <1>1, <1>4, <1>5, <1>6, <1>7 DEF Sources

(* The sizes and tags of keys tell their forms apart.                      *)
LEMMA KeyShapes ==
    /\ \A a, b, c, d, e : <<a, b>> # <<c, d, e>>
    /\ \A a, b, c, d, e, f : <<a, b, c>> = <<d, e, f>> => a = d /\ b = e /\ c = f
    /\ \A a, b, c, d : <<a, b>> = <<c, d>> => a = c /\ b = d
PROOF
  OBVIOUS

(* A message that needs a key of another's has a lifecycle action of its,  *)
(* and what keeps a tone-out off is a tone-out or a product of NWWS-OI.    *)
LEMMA KeyMeansSame ==
    ASSUME IdsAreTrue, NEW m \in Messages, NEW n \in Messages,
           NEW k \in Keys(m), k \in Keys(n), m.vtec # {},
           m.src = "CAP" => Route(m) \in {"full", "update"}
    PROVE  /\ SameAlert(m, n)
           /\ IsFull(m) => IsFull(n) \/ n.src = "NWWS"
PROOF
<1>1. KeyForm(m, k) /\ KeyForm(n, k)
  BY KeyForms
<1>2. ASSUME NEW v \in m.vtec, NEW w \in n.vtec, v.track = w.track, v.act = w.act
      PROVE  SameAlert(m, n)
  <2>1. <<"action", v.track, v.act>> \in Actions(m) /\ <<"action", w.track, w.act>> \in Actions(n)
    BY DEF Actions
  <2>2. QED
    BY <1>2, <2>1 DEF SameAlert
<1>3. ASSUME m.src = n.src, m.id = n.id PROVE SameAlert(m, n)
  <2>1. m.vtec = n.vtec
    BY <1>3 DEF IdsAreTrue
  <2>2. QED
    BY <1>2, <2>1
<1>4. ASSUME NEW v \in m.vtec, NEW tag \in {"TRACKFULL", "TRACKVOICE", "VTEC"},
             k = <<tag, v.track, v.act>>,
             tag = "TRACKVOICE" => ~IsFull(m)
      PROVE  SameAlert(m, n) /\ (IsFull(m) => IsFull(n) \/ n.src = "NWWS")
  <2>1. \E w \in n.vtec : \E t \in {"TRACKFULL", "TRACKVOICE", "VTEC"} :
           /\ k = <<t, w.track, w.act>>
           /\ t # "TRACKVOICE" => IsFull(n) \/ n.src = "NWWS"
    BY <1>1, <1>4, KeyShapes DEF KeyForm
  <2>2. QED
    BY <1>2, <1>4, <2>1, KeyShapes
<1>5. CASE m.src = "CAP" /\ \E tag \in {"CAPFULL", "CAPUPDATE", "CAPVOICE"} :
             k = <<tag, m.id>> /\ (tag = "CAPFULL" <=> IsFull(m))
  <2>1. n.src = "CAP" /\ n.id = m.id /\ (IsFull(m) => IsFull(n))
    BY <1>1, <1>5, KeyShapes DEF KeyForm
  <2>2. QED
    BY <1>3, <1>5, <2>1
<1>6. CASE m.src = "NWWS" /\ k = <<"NWWS", m.id, Route(m)>>
  <2>1. n.src = "NWWS" /\ n.id = m.id
    BY <1>1, <1>6, KeyShapes DEF KeyForm
  <2>2. QED
    BY <1>3, <1>6, <2>1
<1>7. QED
  BY <1>1, <1>4, <1>5, <1>6 DEF KeyForm

(* A message that is dropped shares its one lifecycle action with an       *)
(* attempt, or with an airing of this process within the window.           *)
LEMMA DroppedIsShared ==
    ASSUME IdsAreTrue, OneActionEach, IInv, NEW s \in Sources, NEW m \in Messages,
           SkipDuplicate(s, m), m.vtec # {}, m.src = "CAP" => Route(m) \in {"full", "update"}
    PROVE  \E n \in Messages :
              /\ \A act \in Actions(m) : act \in Actions(n)
              /\ IsFull(m) => IsFull(n) \/ (n.src = "NWWS" /\ SameAlert(m, n))
              /\ \/ \E t \in Sources : Busy(t) /\ rt[t].msg = n
                 \/ \E a \in airings : a.msg = n /\ a.life = life /\ clock - a.since <= Ttl
PROOF
<1>1. PICK k \in Keys(m) : k \in DOMAIN recent /\ clock - recent[k] <= Ttl
  BY DEF SkipDuplicate, LiveKeys
<1>2. ASSUME NEW n \in Messages, k \in Keys(n)
      PROVE  /\ \A act \in Actions(m) : act \in Actions(n)
             /\ IsFull(m) => IsFull(n) \/ (n.src = "NWWS" /\ SameAlert(m, n))
  <2>1. SameAlert(m, n) /\ (IsFull(m) => IsFull(n) \/ n.src = "NWWS")
    BY <1>1, <1>2, KeyMeansSame
  <2>2. \A act, other \in Actions(m) : act = other
    BY DEF Actions, OneActionEach
  <2>3. QED
    BY <2>1, <2>2 DEF SameAlert
<1>3. CASE \E t \in Sources : Holds(t, k)
  <2>1. PICK t \in Sources : Busy(t) /\ k \in Keys(rt[t].msg)
    BY <1>3 DEF Holds
  <2>2. rt[t].msg \in Messages
    BY <2>1 DEF IInv, AttemptsTimely
  <2>3. QED
    BY <1>2, <2>1, <2>2
<1>4. CASE \E a \in airings : a.life = life /\ k \in Keys(a.msg) /\ a.since = recent[k]
  <2>1. PICK a \in airings : a.life = life /\ k \in Keys(a.msg) /\ a.since = recent[k]
    BY <1>4
  <2>2. a.msg \in Messages
    BY DEF IInv, TypeOK, Airings
  <2>3. QED
    BY <1>1, <1>2, <2>1, <2>2
<1>5. QED
  BY <1>1, <1>3, <1>4 DEF IInv, ReservationsAccounted

(* A tone-out that is dropped as a duplicate is being toned out, or was    *)
(* toned out within the window, if messages have one lifecycle action and  *)
(* NWWS-OI tones out what CAP does.                                        *)
THEOREM ToneoutsCovered ==
    ASSUME IdsAreTrue, OneActionEach, TonedByNwws
    PROVE  Spec => DuplicateIsCovered
PROOF
<1>1. ASSUME IInv, NEW s \in Sources, NEW m \in Messages, SkipDuplicate(s, m), IsFull(m), m.vtec # {},
             NEW act \in Actions(m)
      PROVE  BeingToned(act)
  <2>1. PICK n \in Messages :
          /\ act \in Actions(n)
          /\ IsFull(n) \/ (n.src = "NWWS" /\ SameAlert(m, n))
          /\ \/ \E t \in Sources : Busy(t) /\ rt[t].msg = n
             \/ \E a \in airings : a.msg = n /\ a.life = life /\ clock - a.since <= Ttl
    BY <1>1, DroppedIsShared DEF IsFull
  <2>2. IsFull(n)
    BY <1>1, <2>1 DEF TonedByNwws
  <2>3. QED
    BY <2>1, <2>2 DEF BeingToned
<1>2. IInv => \A s \in Sources : \A m \in Messages :
          (SkipDuplicate(s, m) /\ IsFull(m) /\ m.vtec # {}) => \A act \in Actions(m) : BeingToned(act)
  BY <1>1
<1>3. QED
  BY <1>2, Invariance, PTL DEF DuplicateIsCovered

(* The same of all that is aired, if no advisory comes by CAP.             *)
THEOREM AiringsCovered ==
    ASSUME IdsAreTrue, OneActionEach, NoVoiceTracks
    PROVE  Spec => UpdateIsCovered
PROOF
<1>1. ASSUME IInv, NEW s \in Sources, NEW m \in Messages, SkipDuplicate(s, m), m.vtec # {},
             NEW act \in Actions(m)
      PROVE  BeingAired(act)
  <2>1. PICK n \in Messages :
          /\ act \in Actions(n)
          /\ \/ \E t \in Sources : Busy(t) /\ rt[t].msg = n
             \/ \E a \in airings : a.msg = n /\ a.life = life /\ clock - a.since <= Ttl
    BY <1>1, DroppedIsShared DEF NoVoiceTracks, SkipDuplicate
  <2>2. QED
    BY <2>1 DEF BeingAired
<1>2. IInv => \A s \in Sources : \A m \in Messages :
          (SkipDuplicate(s, m) /\ m.vtec # {}) => \A act \in Actions(m) : BeingAired(act)
  BY <1>1
<1>3. QED
  BY <1>2, Invariance, PTL DEF UpdateIsCovered

-----------------------------------------------------------------------------
(* Refinement: each step of the runtimes, the worker and the process is a  *)
(* step of the promise or leaves it alone.                                 *)

(* Steps that touch neither the runtimes nor the history.                  *)
LEMMA SameClaims ==
    ASSUME UNCHANGED <<clock, life, rt, airings>>
    PROVE  UNCHANGED Promise!vars
PROOF
<1>1. Claims' = Claims
  BY DEF Claims, ClaimOf, Busy
<1>2. Aired' = Aired
  BY DEF Aired
<1>3. QED
  BY <1>1, <1>2 DEF Promise!vars

(* Which runtimes have a claim decides what the claims are.                *)
LEMMA ClaimsKept ==
    ASSUME \A t \in Sources : (Busy(t) /\ rt[t].stage # "aired")' <=> (Busy(t) /\ rt[t].stage # "aired"),
           \A t \in Sources : (Busy(t) /\ rt[t].stage # "aired") => ClaimOf(t)' = ClaimOf(t)
    PROVE  Claims' = Claims
PROOF
  BY DEF Claims

(* An attempt goes on to another stage before it airs.                     *)
LEMMA StageKeepsClaims ==
    ASSUME TypeOK, NEW s \in Sources, NEW g \in Stages \ {"idle", "aired"}, rt[s].stage \notin {"idle", "aired"},
           rt' = [rt EXCEPT ![s].stage = g], UNCHANGED <<clock, life, airings>>
    PROVE  UNCHANGED Promise!vars
PROOF
<1>1. /\ rt'[s].stage = g
      /\ \A t \in Sources : /\ rt'[t].stage = "idle" <=> rt[t].stage = "idle"
                            /\ rt'[t].msg = rt[t].msg
                            /\ rt'[t].since = rt[t].since
                            /\ t # s => rt'[t] = rt[t]
  <2>1. g \in Stages \ {"idle"} /\ rt[s].stage # "idle"
    OBVIOUS
  <2>2. QED
    BY <2>1, Moved
<1>2. Claims' = Claims
  BY <1>1, ClaimsKept DEF ClaimOf, Busy
<1>3. Aired' = Aired
  BY DEF Aired
<1>4. QED
  BY <1>2, <1>3 DEF Promise!vars

(* A reservation is a claim on a message that nothing keeps off.           *)
LEMMA ReserveClaims ==
    ASSUME IInv, NEW s \in Sources, NEW m \in Messages, Reserve(s, m)
    PROVE  Promise!Claim(s, m)
PROOF
<1>. USE DEF IInv
<1>1. /\ up /\ ~Busy(s) /\ Keys(m) \cap LiveKeys = {}
      /\ UNCHANGED <<clock, life, airings>>
  BY DEF Reserve, Starts
<1>2. /\ rt'[s].stage \in {"waiting", "preparing"} /\ rt'[s].msg = m /\ rt'[s].since = clock
      /\ \A t \in Sources : t # s => rt'[t] = rt[t]
  BY DEF Reserve, TypeOK
<1>3. \A c \in Claims : c.by # s
  BY <1>1 DEF Claims, ClaimOf
<1>4. ASSUME NEW c \in Claims PROVE <<c.msg, m>> \notin SharedPairs
  <2>1. PICK t \in Sources : Busy(t) /\ c = ClaimOf(t)
    BY DEF Claims
  <2>2. \A k \in Keys(rt[t].msg) : k \in LiveKeys
    BY <2>1 DEF AttemptsExclusive, AttemptsTimely, LiveKeys
  <2>3. QED
    BY <1>1, <2>1, <2>2 DEF SharedPairs, ClaimOf
<1>5. ASSUME NEW b \in Aired, b.life = life, <<b.msg, m>> \in SharedPairs
      PROVE  clock - b.since > Ttl
  <2>1. PICK a \in airings : b.life = a.life /\ b.msg = a.msg /\ b.since = a.since
    BY DEF Aired
  <2>2. PICK k \in Keys(a.msg) : k \in Keys(m)
    BY <1>5, <2>1 DEF SharedPairs
  <2>3. k \notin LiveKeys
    BY <1>1, <2>2
  <2>4. a.since \in Nat /\ clock \in Nat /\ Ttl \in Nat
    BY TtlAssumption DEF TypeOK, Airings
  <2>5. QED
    BY <1>1, <1>5, <2>1, <2>2, <2>3, <2>4 DEF AiredKept, LiveKeys
<1>6. Promise!Free(m)
  BY <1>4, <1>5 DEF Promise!Free
<1>7. Claims' = Claims \cup {[by |-> s, msg |-> m, since |-> clock]}
  <2>1. ClaimOf(s)' = [by |-> s, msg |-> m, since |-> clock]
    BY <1>2 DEF ClaimOf
  <2>2. \A t \in Sources \ {s} : /\ ClaimOf(t)' = ClaimOf(t)
                                 /\ (Busy(t) /\ rt[t].stage # "aired")' <=> (Busy(t) /\ rt[t].stage # "aired")
    BY <1>2 DEF ClaimOf, Busy
  <2>3. (Busy(s) /\ rt[s].stage # "aired")'
    BY <1>2 DEF Busy
  <2>4. QED
    BY <1>1, <2>1, <2>2, <2>3 DEF Claims
<1>8. Aired' = Aired
  BY <1>1 DEF Aired
<1>9. QED
  BY <1>1, <1>3, <1>6, <1>7, <1>8 DEF Promise!Claim

(* A claim ends when its runtime has no claim any more.                    *)
LEMMA ClaimEnds ==
    ASSUME NEW s \in Sources, Busy(s), rt[s].stage # "aired", rt'[s].stage \in {"idle", "aired"},
           \A t \in Sources : t # s => rt'[t] = rt[t]
    PROVE  ClaimOf(s) \in Claims /\ Claims' = Claims \ {ClaimOf(s)}
PROOF
<1>1. ~(Busy(s) /\ rt[s].stage # "aired")'
  BY DEF Busy
<1>2. \A t \in Sources \ {s} : /\ ClaimOf(t)' = ClaimOf(t)
                               /\ ClaimOf(t) # ClaimOf(s)
                               /\ (Busy(t) /\ rt[t].stage # "aired")' <=> (Busy(t) /\ rt[t].stage # "aired")
  BY DEF ClaimOf, Busy
<1>3. QED
  BY <1>1, <1>2 DEF Claims

LEMMA FinishAirs ==
    ASSUME IInv, NEW j \in worker, FinishJob(j)
    PROVE  Promise!Next
PROOF
<1>. DEFINE s == j.src
<1>1. j \in Jobs /\ s \in Sources /\ rt[s].stage = "waiting"
  BY DEF IInv, TypeOK, Jobs, JobsAwaited
<1>2. rt'[s].stage = "aired" /\ \A t \in Sources : t # s => rt'[t] = rt[t]
  BY <1>1 DEF FinishJob, IInv, TypeOK
<1>3. ClaimOf(s) \in Claims /\ Claims' = Claims \ {ClaimOf(s)}
  BY <1>1, <1>2, ClaimEnds DEF Busy
<1>4. Aired' = Aired \cup {[msg |-> rt[s].msg, since |-> rt[s].since, life |-> life]}
  <2>. DEFINE a == [msg |-> rt[s].msg, since |-> rt[s].since, life |-> life, seq |-> j.seq]
  <2>1. airings' = airings \cup {a}
    BY DEF FinishJob
  <2>2. Aired' = {[msg |-> b.msg, since |-> b.since, life |-> b.life] : b \in airings \cup {a}}
    BY <2>1 DEF Aired
  <2>3. a.msg = rt[s].msg /\ a.since = rt[s].since /\ a.life = life
    OBVIOUS
  <2>. HIDE DEF a
  <2>4. QED
    BY <2>2, <2>3 DEF Aired
<1>5. Promise!Air(ClaimOf(s))
  BY <1>3, <1>4 DEF Promise!Air, ClaimOf, FinishJob
<1>6. QED
  BY <1>3, <1>5 DEF Promise!Next

LEMMA CommitKeepsClaims ==
    ASSUME IInv, NEW s \in Sources, Commit(s)
    PROVE  UNCHANGED Promise!vars
PROOF
<1>1. rt[s].stage = "aired" /\ rt'[s].stage = "idle" /\ \A t \in Sources : t # s => rt'[t] = rt[t]
  BY DEF Commit, IInv, TypeOK, IdleRuntime
<1>2. Claims' = Claims
  BY <1>1, ClaimsKept DEF ClaimOf, Busy
<1>3. QED
  BY <1>2 DEF Promise!vars, Aired, Commit

LEMMA AbortGivesUp ==
    ASSUME IInv, NEW s \in Sources, Abort(s)
    PROVE  Promise!Next
PROOF
<1>1. rt[s].stage = "failed" /\ rt'[s].stage = "idle" /\ \A t \in Sources : t # s => rt'[t] = rt[t]
  BY DEF Abort, IInv, TypeOK, IdleRuntime
<1>2. ClaimOf(s) \in Claims /\ Claims' = Claims \ {ClaimOf(s)}
  BY <1>1, ClaimEnds DEF Busy
<1>3. Promise!GiveUp(ClaimOf(s))
  BY <1>2 DEF Promise!GiveUp, Abort, Aired
<1>4. QED
  BY <1>2, <1>3 DEF Promise!Next

LEMMA DeathForgets ==
    ASSUME LoseMemory, UNCHANGED <<clock, life, airings>>
    PROVE  Promise!Next
PROOF
<1>1. Claims' = {}
  BY DEF LoseMemory, Claims, Busy, IdleRuntime
<1>2. QED
  BY <1>1 DEF Promise!Next, Promise!Forget, Aired

LEMMA RestartRenews ==
    ASSUME IInv, Restart
    PROVE  Promise!Next
PROOF
<1>1. Claims = {}
  BY DEF Restart, IInv, DownIsEmpty, Claims
<1>2. Claims' = Claims /\ Aired' = Aired
  BY DEF Restart, Claims, ClaimOf, Busy, Aired
<1>3. QED
  BY <1>1, <1>2 DEF Promise!Next, Promise!Renew, Restart

LEMMA TickPasses ==
    ASSUME IInv, Tick
    PROVE  Promise!Next
PROOF
<1>1. \A c \in Claims : clock - c.since < Ttl
  BY DEF Tick, Claims, ClaimOf
<1>2. Claims' = Claims /\ Aired' = Aired
  BY DEF Tick, Claims, ClaimOf, Busy, Aired
<1>3. QED
  BY <1>1, <1>2 DEF Promise!Next, Promise!Pass, Tick

LEMMA StepKeepsPromise == IInv /\ [Next]_vars => [Promise!Next]_(Promise!vars)
PROOF
<1>. SUFFICES ASSUME IInv, [Next]_vars PROVE Promise!Next \/ UNCHANGED Promise!vars
  OBVIOUS
<1>1. ASSUME NEW m \in Messages, Receive(m) PROVE UNCHANGED Promise!vars
  BY <1>1, SameClaims DEF Receive
<1>2. ASSUME NEW s \in Sources, NEW m \in Messages, Discard(s, m) \/ SkipDuplicate(s, m)
      PROVE  UNCHANGED Promise!vars
  BY <1>2, SameClaims DEF Discard, SkipDuplicate
<1>3. ASSUME NEW s \in Sources, NEW m \in Messages, Reserve(s, m) PROVE Promise!Next
  BY <1>3, ReserveClaims DEF Promise!Next
<1>4. ASSUME NEW s \in Sources, Submit(s) PROVE UNCHANGED Promise!vars
  BY <1>4, StageKeepsClaims DEF Submit, IInv, Stages
<1>5. ASSUME NEW s \in Sources, PrepareFails(s) PROVE UNCHANGED Promise!vars
  BY <1>5, StageKeepsClaims DEF PrepareFails, IInv, Stages
<1>6. ASSUME NEW j \in jobs, StartJob(j) PROVE UNCHANGED Promise!vars
  BY <1>6, SameClaims DEF StartJob
<1>7. ASSUME NEW j \in worker, FinishJob(j) PROVE Promise!Next
  BY <1>7, FinishAirs
<1>8. ASSUME NEW j \in worker, FailJob(j) PROVE UNCHANGED Promise!vars
  <2>1. j.src \in Sources /\ rt[j.src].stage = "waiting"
    BY DEF IInv, TypeOK, Jobs, JobsAwaited
  <2>2. QED
    BY <1>8, <2>1, StageKeepsClaims DEF FailJob, IInv, Stages
<1>9. ASSUME NEW s \in Sources, Resume(s) PROVE Promise!Next \/ UNCHANGED Promise!vars
  BY <1>9, CommitKeepsClaims, AbortGivesUp, DeathForgets DEF Resume, Die
<1>10. CASE Crash
  BY <1>10, DeathForgets DEF Crash
<1>11. CASE Restart
  BY <1>11, RestartRenews
<1>12. CASE Tick
  BY <1>12, TickPasses
<1>13. CASE UNCHANGED vars
  BY <1>13, SameClaims DEF vars
<1>14. QED
  BY <1>1, <1>2, <1>3, <1>4, <1>5, <1>6, <1>7, <1>8, <1>9, <1>10, <1>11, <1>12, <1>13
     DEF Next, Handle, Work, Complete

(* The airing pipeline keeps the promise of AirOnce, for any messages, TTL *)
(* and cooldowns: the map of reserved keys, pruned, released and lost with *)
(* the process, never lets two messages that share a key be worked on at   *)
(* once or follow each other within the window.                            *)
THEOREM KeepsPromise == Spec => AirsOnce
PROOF
<1>1. Init => Promise!Init
  <2>1. Init => Claims = {}
    BY DEF Init, Claims, Busy, IdleRuntime
  <2>2. Init => Aired = {}
    BY DEF Init, Aired
  <2>3. QED
    BY <2>1, <2>2 DEF Init, Promise!Init
<1>2. QED
  BY <1>1, StepKeepsPromise, Invariance, PTL DEF Spec, AirsOnce, Promise!Spec

=============================================================================
