----------------------------- MODULE AlertCycle -----------------------------
(***************************************************************************)
(* How active alerts stay in the broadcast cycle: the registry             *)
(* (AlertTracker), the refresher that renders their scripts and the store  *)
(* it fills (broadcast/segment_refresher.py, segment_store.py), and the    *)
(* rotation of the conductor that plays them (broadcast/conductor.py).     *)
(*                                                                         *)
(* All are tasks of one event loop.  The refresher awaits a render in an   *)
(* executor; during it the runtimes change the registry and the conductor  *)
(* goes on.  The rest of a pass of the refresher runs without suspension   *)
(* (the store's lock has one user).  The registry is written to the        *)
(* database after each change and read back by the next process.           *)
(*                                                                         *)
(* Left out: the segments that are no alerts, of which only the renders    *)
(* before the alerts' turn matter here; what was queued in Liquidsoap      *)
(* before an alert ended; airings that fail (AlertAiring); a database that *)
(* refuses a write, which the registry does not notice.                    *)
(***************************************************************************)
EXTENDS AlertTracker, Sequences

CONSTANTS
    Feeds,        \* the messages each source receives, in order
    Rank,         \* place of a code of a source in the order of priority
    MaxTime,      \* bound: units of time
    MaxLives,     \* bound: starts of the process
    MaxFailures   \* bound: renders that fail

Messages == UNION {Range(Feeds[s]) : s \in Sources}

ASSUME FeedsAssumption == \A s \in Sources : \A m \in Range(Feeds[s]) : m.src = s
ASSUME BoundsAssumption == MaxTime \in Nat /\ MaxLives \in Nat /\ MaxFailures \in Nat

VARIABLES
    clock,
    life,       \* starts of the process
    pos,        \* messages each source is done with
    reserved,   \* dedupe keys of what was aired (within their time to live)
    status,     \* history: what was aired of each track
    alerts,     \* AlertTracker._alerts
    rows,       \* active_alerts in the database
    wake,       \* _wake_event
    pending,    \* _pending_alert_sync
    phase,      \* where the refresher is
    todo,       \* slots its current loop has still to look at
    render,     \* slot and script of the render under way
    snap,       \* `active`, as the refresher read it
    stir,       \* `changed or requested`
    clean,      \* history: the last pass was not cut short
    failures,   \* history: renders that failed
    known,      \* _known_alert_ids
    store,      \* script of each alert segment that is ready
    order       \* the slots left in the conductor's rotation

refresherVars == <<phase, todo, render, stir, clean, failures, known, store>>
vars == <<clock, life, pos, reserved, status, alerts, rows, wake, pending,
          refresherVars, snap, order>>

NoAlerts == [i \in {} |-> 0]
NoRender == [slot |-> <<>>, script |-> <<>>]

Phases == {"asleep", "triggered", "content", "fill", "filling", "freshen", "freshening"}

Slots == {MessageSlot(m) : m \in Messages}
           \cup {TrackSlot(s, t) : s \in {"CAP", "NWWS"}, t \in UNION {Tracks(m) : m \in Messages}}

Scripts == {m.id : m \in Messages}

TypeOK ==
    /\ clock \in 0 .. MaxTime /\ life \in 1 .. MaxLives
    /\ \A s \in Sources : pos[s] \in 0 .. Len(Feeds[s])
    /\ reserved \subseteq UNION {Keys(m) : m \in Messages}
    /\ DOMAIN alerts \subseteq Slots /\ DOMAIN rows \subseteq Slots /\ DOMAIN snap \subseteq Slots
    /\ \A i \in DOMAIN alerts : alerts[i].src = i[1] /\ alerts[i].script \in Scripts
    /\ wake \in BOOLEAN /\ pending \in BOOLEAN /\ stir \in BOOLEAN /\ clean \in BOOLEAN
    /\ phase \in Phases
    /\ todo \subseteq DOMAIN snap
    /\ render.slot = NoRender.slot <=> phase \notin {"filling", "freshening"}
    /\ known \subseteq Slots
    /\ DOMAIN store \subseteq Slots /\ \A i \in DOMAIN store : store[i] \in Scripts
    /\ order \subseteq Slots
    /\ failures \in 0 .. MaxFailures

-----------------------------------------------------------------------------
Init ==
    /\ clock = 0 /\ life = 1
    /\ pos = [s \in Sources |-> 0]
    /\ reserved = {}
    /\ status = NoAlerts
    /\ alerts = NoAlerts /\ rows = NoAlerts /\ snap = NoAlerts
    /\ wake = FALSE /\ pending = FALSE /\ stir = FALSE /\ clean = FALSE
    /\ phase = "asleep"
    /\ todo = {} /\ render = NoRender
    /\ failures = 0
    /\ known = {}
    /\ store = NoAlerts
    /\ order = {}

(* Mutated form: what was removed stays in the database. *)
SavedGrown == rows' = IF DOMAIN rows \subseteq DOMAIN alerts' THEN alerts' ELSE rows

(* Mutated form: the registry is saved before it is changed. *)
SavedBefore == rows' = alerts

(* _persist, on a database that accepts. *)
Saved == rows' = alerts'

(* Mutated form: the rotation goes on. *)
AnnouncedToRefresher == wake' = TRUE /\ pending' = TRUE /\ UNCHANGED order

(* _on_alert_tracker_changed and _schedule_cycle_refill: the refresher is  *)
(* woken and the rotation starts again.                                    *)
Announced == wake' = TRUE /\ pending' = TRUE /\ order' = {}

(* Entries that were replaced are not the objects the refresher holds; a   *)
(* new script is seen through them.                                        *)
SameObjects ==
    snap' = [i \in DOMAIN snap |->
                IF i \in DOMAIN alerts' /\ alerts'[i].made = snap[i].made THEN alerts'[i] ELSE snap[i]]

(* What a listener was told of the tracks of m: that they ended, or until  *)
(* when they go on.  A track that was never announced is not continued.    *)
Told(m) ==
    LET goesOn == {t \in Tracks(m) \ CancelTracks(m) :
                      Route(m) # "update" \/ (t \in DOMAIN status /\ status[t] > 0)}
    IN  [t \in DOMAIN status \cup CancelTracks(m) \cup goesOn |->
            IF t \in CancelTracks(m) THEN 0
            ELSE IF t \in goesOn THEN m.expires ELSE status[t]]

-----------------------------------------------------------------------------
(* The runtimes *)

IsCancel(m) == m.mt = "cancel" /\ m.vtec = {}

Current(s, m) == pos[s] < Len(Feeds[s]) /\ m = Feeds[s][pos[s] + 1]

Advance(s) == pos' = [pos EXCEPT ![s] = @ + 1]

(* The next message of a source is aired, or is a cancel without VTEC.     *)
Handle(s, m) ==
    /\ Current(s, m)
    /\ \/ IsCancel(m) /\ UNCHANGED reserved
       \/ /\ Route(m) # "skip" /\ Keys(m) \cap reserved = {}
          /\ reserved' = reserved \cup Keys(m)
    /\ Advance(s)
    /\ status' = Told(m)
    /\ alerts' \in Results(alerts, m)
    /\ Saved
    /\ SameObjects
    /\ IF alerts' # alerts \/ ~IsCancel(m) \/ m.src = "IPAWS"
       THEN Announced ELSE UNCHANGED <<wake, pending, order>>
    /\ UNCHANGED <<clock, life, refresherVars>>

(* It is a duplicate, or is not for the air. *)
PassOver(s, m) ==
    /\ Current(s, m)
    /\ ~IsCancel(m)
    /\ Route(m) = "skip" \/ Keys(m) \cap reserved # {}
    /\ Advance(s)
    /\ UNCHANGED <<clock, life, reserved, status, alerts, rows, wake, pending, refresherVars, snap, order>>

-----------------------------------------------------------------------------
(* The refresher: run and _sync_alert_segments *)

(* A notice or the tick ends the wait, or the first pass begins; the event *)
(* is cleared.                                                             *)
WakeUp ==
    /\ phase = "asleep"
    /\ phase' = "triggered"
    /\ wake' = FALSE
    /\ UNCHANGED <<clock, life, pos, reserved, status, alerts, rows, pending, todo, render,
                   snap, stir, clean, failures, known, store, order>>

(* The segments asked for are rendered: is the sync asked for too? *)
ReadRequest ==
    /\ phase = "triggered"
    /\ phase' = "content"
    /\ stir' = pending
    /\ pending' = FALSE
    /\ UNCHANGED <<clock, life, pos, reserved, status, alerts, rows, wake, todo, render,
                   snap, clean, failures, known, store, order>>

(* The stale segments are done.  Expired alerts are purged and the active  *)
(* ones are read.                                                          *)
BeginSync ==
    /\ phase = "content"
    /\ LET active == Unexpired(alerts, clock)
           purges == active # alerts
       IN  /\ alerts' = active
           /\ snap' = active
           /\ todo' = DOMAIN active
           /\ stir' = (stir \/ purges)
           /\ IF purges THEN Saved /\ Announced ELSE UNCHANGED <<rows, wake, pending, order>>
    /\ phase' = "fill"
    /\ UNCHANGED <<clock, life, pos, reserved, status, render, clean, failures, known, store>>

Precedes(i, j) == Rank[<<snap[i].code, snap[i].src>>] < Rank[<<snap[j].code, snap[j].src>>]

(* The first of the slots the loop still has to render. *)
NextIn(slots, i) == i \in slots /\ \A j \in slots : ~Precedes(j, i)

Unready == {i \in todo : i \notin DOMAIN store}

(* Mutated form: a script that changed is not noticed. *)
OutdatedNever == {}

Outdated == {i \in todo : i \in DOMAIN store /\ store[i] # snap[i].script}

StartRender(i, from, to) ==
    /\ phase = from
    /\ render' = [slot |-> i, script |-> snap[i].script]
    /\ todo' = todo \ ({i} \cup {j \in todo : Precedes(j, i)})
    /\ phase' = to
    /\ UNCHANGED <<clock, life, pos, reserved, status, alerts, rows, wake, pending,
                   snap, stir, clean, failures, known, store, order>>

FillNext(i) == NextIn(Unready, i) /\ StartRender(i, "fill", "filling")

FreshenNext(i) == NextIn(Outdated, i) /\ StartRender(i, "freshen", "freshening")

(* The render ends and the store has the segment. *)
RenderDone ==
    /\ phase \in {"filling", "freshening"}
    /\ store' = [i \in DOMAIN store \cup {render.slot} |->
                    IF i = render.slot THEN render.script ELSE store[i]]
    /\ render' = NoRender
    /\ stir' = TRUE
    /\ phase' = IF phase = "filling" THEN "fill" ELSE "freshen"
    /\ UNCHANGED <<clock, life, pos, reserved, status, alerts, rows, wake, pending,
                   todo, snap, clean, failures, known, order>>

(* A render that fails ends the pass: the slots read are not kept. *)
RenderFails ==
    /\ phase \in {"filling", "freshening"}
    /\ failures < MaxFailures
    /\ failures' = failures + 1
    /\ clean' = FALSE
    /\ render' = NoRender
    /\ phase' = "asleep"
    /\ todo' = {} /\ snap' = NoAlerts
    /\ UNCHANGED <<clock, life, pos, reserved, status, alerts, rows, wake, pending, stir, known, store, order>>

(* Every active alert was looked at: now for changed scripts. *)
BeginFreshen ==
    /\ phase = "fill" /\ Unready = {}
    /\ phase' = "freshen"
    /\ todo' = DOMAIN snap
    /\ UNCHANGED <<clock, life, pos, reserved, status, alerts, rows, wake, pending, render,
                   snap, stir, clean, failures, known, store, order>>

(* Mutated form: what was signalled during the pass is forgotten. *)
EndSyncClearing ==
    /\ phase = "freshen" /\ Outdated = {}
    /\ store' = Restrict(store, DOMAIN store \ (known \ DOMAIN snap))
    /\ known' = DOMAIN snap
    /\ clean' = TRUE
    /\ wake' = FALSE
    /\ phase' = "asleep"
    /\ todo' = {} /\ snap' = NoAlerts
    /\ order' = IF stir THEN {} ELSE order
    /\ UNCHANGED <<clock, life, pos, reserved, status, alerts, rows, pending, render, stir, failures>>

(* The segments of the departed become placeholders. *)
EndSync ==
    /\ phase = "freshen" /\ Outdated = {}
    /\ LET departed == known \ DOMAIN snap
       IN  /\ store' = Restrict(store, DOMAIN store \ departed)
           /\ order' = IF stir \/ departed \cap DOMAIN store # {} THEN {} ELSE order
    /\ known' = DOMAIN snap
    /\ clean' = TRUE
    /\ phase' = "asleep"
    /\ todo' = {} /\ snap' = NoAlerts
    /\ UNCHANGED <<clock, life, pos, reserved, status, alerts, rows, wake, pending, render, stir, failures>>

-----------------------------------------------------------------------------
(* The conductor *)

(* _rebuild_cycle_order *)
Rebuild ==
    /\ order = {}
    /\ order' = DOMAIN Unexpired(alerts, clock)
    /\ order' # {}
    /\ UNCHANGED <<clock, life, pos, reserved, status, alerts, rows, wake, pending, refresherVars, snap>>

(* _push_tracker_alert: a segment that is not ready is skipped. *)
PushAlert(i) ==
    /\ i \in order
    /\ order' = order \ {i}
    /\ UNCHANGED <<clock, life, pos, reserved, status, alerts, rows, wake, pending, refresherVars, snap>>

-----------------------------------------------------------------------------
(* The process dies and starts again: the registry and the store are read  *)
(* back, and the expired alerts purged.  A message that a source was       *)
(* working on is lost.                                                     *)
Restart ==
    /\ life < MaxLives
    /\ life' = life + 1
    /\ \E lost \in SUBSET {s \in Sources : pos[s] < Len(Feeds[s])} :
         pos' = [s \in Sources |-> IF s \in lost THEN pos[s] + 1 ELSE pos[s]]
    /\ reserved' = {}
    /\ alerts' = Unexpired(rows, clock)
    /\ IF alerts' # rows THEN Saved ELSE UNCHANGED rows
    /\ wake' = FALSE /\ pending' = FALSE /\ stir' = FALSE
    /\ clean' = FALSE
    /\ phase' = "asleep"
    /\ todo' = {} /\ render' = NoRender /\ snap' = NoAlerts
    /\ known' = {}
    /\ order' = {}
    /\ UNCHANGED <<clock, status, failures, store>>

Tick ==
    /\ clock < MaxTime
    /\ clock' = clock + 1
    /\ UNCHANGED <<life, pos, reserved, status, alerts, rows, wake, pending, refresherVars, snap, order>>

Refresh ==
    \/ WakeUp \/ ReadRequest \/ BeginSync \/ BeginFreshen \/ EndSync
    \/ RenderDone
    \/ \E i \in todo : FillNext(i) \/ FreshenNext(i)

Next ==
    \/ \E s \in Sources : \E m \in Range(Feeds[s]) : Handle(s, m) \/ PassOver(s, m)
    \/ Refresh \/ RenderFails
    \/ Rebuild
    \/ \E i \in order : PushAlert(i)
    \/ Restart
    \/ Tick

Spec == Init /\ [][Next]_vars

(* The refresher's task is scheduled again and again (its wait has a       *)
(* timeout) and renders end; nothing is assumed of feeds and failures.     *)
FairSpec == Spec /\ WF_vars(Refresh)

-----------------------------------------------------------------------------
(* Properties *)

SlotsOf(t) == {TrackSlot("CAP", t), TrackSlot("NWWS", t)}

(* A track whose end was aired is no longer in the registry, and does not  *)
(* come back with a restart.  (cap_runtime.py, air_update: "Removes entry  *)
(* from AlertTracker on CAN/EXP.")                                         *)
CancelledIsGone ==
    \A t \in DOMAIN status : status[t] = 0 => SlotsOf(t) \cap DOMAIN alerts = {}

(* A track that was announced stays in the registry until the time last    *)
(* announced for it, across restarts (active.py: "service restarts do not  *)
(* lose active watches or warnings from the on-air rotation").             *)
AnnouncedIsActive ==
    \A t \in DOMAIN status : clock < status[t] =>
        \E i \in DOMAIN alerts : t \in alerts[i].tracks /\ clock < alerts[i].expires

(* The registry holds what was announced: no less, and nothing that ended. *)
RegistryFollowsAir == CancelledIsGone /\ AnnouncedIsActive

(* When the refresher waits undisturbed after a pass that was not cut      *)
(* short, the current script of every active alert is ready: no change is  *)
(* missed for coming during a render or for being made in place.           *)
QuietMeansSynced ==
    (phase = "asleep" /\ ~wake /\ clean) =>
        \A i \in DOMAIN Unexpired(alerts, clock) : i \in DOMAIN store /\ store[i] = alerts[i].script

(* An action property: the conductor plays the segment of no alert that    *)
(* left the registry, whatever was left of its rotation.                   *)
NoGhostPushed ==
    [][\A i \in Slots : (PushAlert(i) /\ i \in DOMAIN store) => i \in DOMAIN alerts]_vars

(* Liveness: the current script of every active alert gets ready, or the   *)
(* alert ends, though renders fail now and then.                           *)
ScriptsRendered ==
    \A i \in Slots :
        i \in DOMAIN alerts
            ~> \/ i \notin DOMAIN alerts
               \/ i \in DOMAIN store /\ store[i] = alerts[i].script

=============================================================================
