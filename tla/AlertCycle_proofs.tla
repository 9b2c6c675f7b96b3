--------------------------- MODULE AlertCycle_proofs ---------------------------
(***************************************************************************)
(* Proofs about the active alerts in the cycle.                            *)
(*                                                                         *)
(* The segments, for any feeds.  Every change of the registry wakes the    *)
(* refresher, so while it was not woken since it read the registry, what   *)
(* it holds is the registry (Current), its first loop has filled what it   *)
(* passed (Filled) and its second one renewed it (Renewed).                *)
(*                                                                         *)
(* The rotation.  Whoever changes the registry empties it (OrderIsActive). *)
(*                                                                         *)
(* The registry, for feeds whose messages speak of one track each and in   *)
(* which one source registers a track (PlainFeeds).  The slots of a track  *)
(* are then in the registry from its first airing to its end (OnWhile-     *)
(* Announced), with the time that was announced (StatusKnown, Shaped).     *)
(***************************************************************************)
EXTENDS AlertCycle, TLAPS

(* The segments                                                            *)

Syncing == {"fill", "filling", "freshen", "freshening"}

HoldsRegistry ==
  /\ DOMAIN snap = DOMAIN alerts
  /\ \A i \in DOMAIN snap : snap[i].script = alerts[i].script

Filled ==
  \A i \in DOMAIN snap \ todo : i \in DOMAIN store \/ (phase = "filling" /\ i = render.slot)

Renewed ==
  /\ DOMAIN snap \subseteq DOMAIN store
  /\ \A i \in DOMAIN snap \ todo :
       \/ store[i] = snap[i].script
       \/ phase = "freshening" /\ i = render.slot
  /\ phase = "freshening" => render.slot \in DOMAIN snap /\ render.script = snap[render.slot].script

Synced == \A i \in DOMAIN alerts : i \in DOMAIN store /\ store[i] = alerts[i].script

SyncInv ==
  /\ todo \subseteq DOMAIN snap
  /\ ~wake => /\ phase \in Syncing => HoldsRegistry
              /\ phase \in {"fill", "filling"} => Filled
              /\ phase \in {"freshen", "freshening"} => Renewed
              /\ phase = "asleep" /\ clean => Synced

OrderIsActive == order \subseteq DOMAIN alerts
-------------------------------------------------------------------------------
(* The registry                                                            *)

AllTracks == UNION {Tracks(m) : m \in Messages}

(* The runtime of m puts an entry under a slot of its track.               *)
Registers(m) ==
  /\ m.vtec # {}
  /\ \/ m.src = "CAP" /\ Route(m) \in {"full", "voice"}
     \/ m.src = "NWWS" /\ ~Ends(m)

(* The feeds of which the registry is proved to follow the air: a message  *)
(* has one VTEC string at most, and none where the source reads none; one  *)
(* source registers a track, and all say the same of its end; and a CAP    *)
(* message that ends its track is routed as an update.                     *)
PlainFeeds ==
  /\ \A m \in Messages : m.vtec # {} =>
       /\ m.src \in {"CAP", "NWWS"} /\ \E v \in m.vtec : m.vtec = {v} /\ m.lead = v.track
       /\ m.expires \in Nat \ {0}
  /\ \A m, n \in Messages : Tracks(m) \cap Tracks(n) # {} =>
       /\ m.expires = n.expires
       /\ Registers(m) /\ Registers(n) => m.src = n.src
  /\ \A m \in Messages : m.src = "CAP" /\ Ends(m) => Route(m) = "update"

Entries ==
  [src : Sources, tracks : SUBSET AllTracks, code : {m.code : m \in Messages},
   locs : {m.locs : m \in Messages}, expires : {m.expires : m \in Messages},
   script : Scripts, made : Scripts]

MadeBy(i, e, m) ==
  /\ Registers(m) /\ i = TrackSlot(m.src, m.lead)
  /\ e.tracks = {m.lead} /\ e.expires = m.expires /\ e.src = m.src

MayHold(i, e) ==
  /\ e \in Entries
  /\ (i[2] = "message" /\ e.tracks = {}) \/ \E m \in Messages : MadeBy(i, e, m)

(* Slots have entries of their messages.                                   *)
Shaped(reg) == \A i \in DOMAIN reg : MayHold(i, reg[i])

On(reg, t) == SlotsOf(t) \cap DOMAIN reg # {}

StatusKnown ==
  /\ DOMAIN status \subseteq AllTracks
  /\ \A t \in DOMAIN status :
       status[t] = 0 \/ \E m \in Messages : t \in Tracks(m) /\ status[t] = m.expires

OnWhileAnnounced ==
  \A t \in DOMAIN status : /\ status[t] = 0 => ~On(alerts, t)
                           /\ clock < status[t] => On(alerts, t)

RegistryInv ==
  /\ clock \in Nat /\ rows = alerts
  /\ Shaped(alerts) /\ StatusKnown /\ OnWhileAnnounced
-------------------------------------------------------------------------------
(* The segments and the rotation: proofs                                   *)

LEMMA SyncInit == Init => SyncInv /\ OrderIsActive
BY DEF Init, SyncInv, OrderIsActive, Syncing, NoAlerts

(* Handling a message leaves the registry as it is, or wakes the refresher *)
(* and empties the rotation.                                               *)
LEMMA HandleNotes ==
  ASSUME NEW s, NEW m, Handle(s, m)
  PROVE  \/ alerts' = alerts /\ UNCHANGED <<wake, order>>
         \/ wake' = TRUE /\ order' = {}
BY DEF Handle, Announced

LEMMA SyncStep ==
  ASSUME SyncInv, [Next]_vars
  PROVE  SyncInv'
<1> USE DEF refresherVars
<1>0. (todo \subseteq DOMAIN snap)'
  BY DEF SyncInv, Next, vars, Handle, SameObjects, PassOver, Refresh, WakeUp, ReadRequest, BeginSync,
         FillNext, FreshenNext, StartRender, RenderDone, RenderFails, BeginFreshen, EndSync,
         Rebuild, PushAlert, Restart, Tick, Unexpired, Restrict, NoAlerts
<1> SUFFICES ASSUME ~wake' PROVE SyncInv'
  BY <1>0 DEF SyncInv
<1>1. ASSUME ~wake, alerts' = alerts, UNCHANGED <<phase, todo, render, clean, store>>,
             DOMAIN snap' = DOMAIN snap,
             phase \in Syncing => \A i \in DOMAIN snap : snap'[i].script = snap[i].script
      PROVE SyncInv'
  <2>1. phase \in Syncing => HoldsRegistry'
    BY <1>1 DEF SyncInv, HoldsRegistry
  <2>2. phase \in {"fill", "filling"} => Filled'
    BY <1>1 DEF SyncInv, Filled
  <2>3. phase \in {"freshen", "freshening"} => Renewed'
    BY <1>1 DEF SyncInv, Renewed, Syncing
  <2>4. phase = "asleep" /\ clean => Synced'
    BY <1>1 DEF SyncInv, Synced
  <2> QED BY <1>0, <1>1, <2>1, <2>2, <2>3, <2>4 DEF SyncInv
<1>2. ASSUME NEW s, NEW m, Handle(s, m) PROVE SyncInv'
  <2>1. ~wake /\ alerts' = alerts
    BY <1>2, HandleNotes
  <2>2. /\ DOMAIN snap' = DOMAIN snap /\ UNCHANGED <<phase, todo, render, clean, store>>
        /\ \A i \in DOMAIN snap : snap'[i] \in {alerts[i], snap[i]}
    BY <1>2, <2>1 DEF Handle, SameObjects
  <2>3. phase \in Syncing => \A i \in DOMAIN snap : snap'[i].script = snap[i].script
    BY <2>1, <2>2 DEF SyncInv, HoldsRegistry
  <2> QED BY <1>1, <2>1, <2>2, <2>3
<1>3. ASSUME NEW s, NEW m, PassOver(s, m) PROVE SyncInv'
  BY <1>1, <1>3 DEF PassOver
<1>4. CASE WakeUp
  BY <1>4 DEF WakeUp, SyncInv, Syncing
<1>5. CASE ReadRequest
  BY <1>5 DEF ReadRequest, SyncInv, Syncing
<1>6. CASE BeginSync
  <2>1. snap' = alerts' /\ phase' = "fill" /\ todo' = DOMAIN snap'
    BY <1>6 DEF BeginSync, Unexpired, Restrict
  <2> QED BY <1>0, <2>1 DEF SyncInv, Syncing, HoldsRegistry, Filled
<1>7. ASSUME NEW i \in todo, FillNext(i) PROVE SyncInv'
  <2>1. /\ phase = "fill" /\ phase' = "filling" /\ render' = [slot |-> i, script |-> snap[i].script]
        /\ todo' = todo \ ({i} \cup {j \in todo : Precedes(j, i)})
        /\ UNCHANGED <<alerts, wake, snap, store>>
    BY <1>7 DEF FillNext, StartRender
  <2>2. \A j \in todo : Precedes(j, i) => j \in DOMAIN store
    BY <1>7 DEF FillNext, NextIn, Unready
  <2>3. HoldsRegistry /\ Filled
    BY <2>1 DEF SyncInv, Syncing
  <2>4. HoldsRegistry'
    BY <2>1, <2>3 DEF HoldsRegistry
  <2>5. Filled'
    BY <2>1, <2>2, <2>3 DEF Filled
  <2> QED BY <1>0, <2>1, <2>4, <2>5 DEF SyncInv
<1>8. ASSUME NEW i \in todo, FreshenNext(i) PROVE SyncInv'
  <2>1. /\ phase = "freshen" /\ phase' = "freshening"
        /\ render' = [slot |-> i, script |-> snap[i].script]
        /\ todo' = todo \ ({i} \cup {j \in todo : Precedes(j, i)})
        /\ UNCHANGED <<alerts, wake, snap, store>>
    BY <1>8 DEF FreshenNext, StartRender
  <2>2. i \in DOMAIN snap
    BY <1>8, <2>1 DEF FreshenNext, NextIn, Outdated, SyncInv, Renewed
  <2>3. \A j \in todo : Precedes(j, i) /\ j \in DOMAIN store => store[j] = snap[j].script
    BY <1>8 DEF FreshenNext, NextIn, Outdated
  <2>4. HoldsRegistry /\ Renewed
    BY <2>1 DEF SyncInv, Syncing
  <2>5. HoldsRegistry'
    BY <2>1, <2>4 DEF HoldsRegistry
  <2>6. Renewed'
    BY <2>1, <2>2, <2>3, <2>4 DEF Renewed
  <2> QED BY <1>0, <2>1, <2>5, <2>6 DEF SyncInv
<1>9. CASE RenderDone
  <2>1. /\ ~wake /\ phase \in {"filling", "freshening"} /\ DOMAIN store' = DOMAIN store \cup {render.slot}
        /\ \A i \in DOMAIN store' : store'[i] = IF i = render.slot THEN render.script ELSE store[i]
        /\ phase' = IF phase = "filling" THEN "fill" ELSE "freshen"
        /\ UNCHANGED <<alerts, wake, todo, snap>>
    BY <1>9 DEF RenderDone
  <2>2. HoldsRegistry'
    BY <2>1 DEF SyncInv, Syncing, HoldsRegistry
  <2>3. CASE phase = "filling"
    <3>1. Filled'
      BY <2>1, <2>3 DEF SyncInv, Filled
    <3> QED BY <1>0, <2>1, <2>2, <2>3, <3>1 DEF SyncInv
  <2>4. CASE phase = "freshening"
    <3>1. Renewed
      BY <2>1, <2>4 DEF SyncInv
    <3>2. Renewed'
      BY <2>1, <2>4, <3>1 DEF Renewed
    <3> QED BY <1>0, <2>1, <2>2, <2>4, <3>2 DEF SyncInv
  <2> QED BY <2>1, <2>3, <2>4
<1>10. CASE RenderFails
  BY <1>10 DEF RenderFails, SyncInv, Syncing
<1>11. CASE BeginFreshen
  <2>1. /\ ~wake /\ phase = "fill" /\ phase' = "freshen" /\ Unready = {} /\ todo' = DOMAIN snap
        /\ UNCHANGED <<alerts, wake, snap, store>>
    BY <1>11 DEF BeginFreshen
  <2>2. HoldsRegistry' /\ DOMAIN snap \subseteq DOMAIN store
    BY <2>1 DEF SyncInv, Syncing, HoldsRegistry, Filled, Unready
  <2> QED BY <1>0, <2>1, <2>2 DEF SyncInv, Renewed
<1>12. CASE EndSync
  <2>1. /\ ~wake /\ phase = "freshen" /\ phase' = "asleep" /\ Outdated = {}
        /\ store' = Restrict(store, DOMAIN store \ (known \ DOMAIN snap))
        /\ UNCHANGED <<alerts, wake>>
    BY <1>12 DEF EndSync
  <2>2. HoldsRegistry /\ Renewed
    BY <2>1 DEF SyncInv, Syncing
  <2>3. \A i \in DOMAIN snap : i \in DOMAIN store /\ store[i] = snap[i].script
    BY <2>1, <2>2 DEF Renewed, Outdated
  <2>4. Synced'
    BY <2>1, <2>2, <2>3 DEF HoldsRegistry, Synced, Restrict
  <2> QED BY <1>0, <2>1, <2>4 DEF SyncInv, Syncing
<1>13. CASE Rebuild \/ \E i \in order : PushAlert(i)
  BY <1>1, <1>13 DEF Rebuild, PushAlert
<1>14. CASE Restart
  BY <1>14 DEF Restart, SyncInv, Syncing
<1>15. CASE Tick \/ UNCHANGED vars
  BY <1>1, <1>15 DEF Tick, vars
<1> QED BY <1>2, <1>3, <1>4, <1>5, <1>6, <1>7, <1>8, <1>9, <1>10, <1>11, <1>12, <1>13,
           <1>14, <1>15 DEF Next, Refresh

(* A pass that was neither cut short nor overtaken by a change has the     *)
(* current script of every active alert ready: a change of the registry    *)
(* during a render, made in place or not, is never missed                  *)
(* (segment_refresher.py, _sync_alert_segments), whatever the feeds.       *)
THEOREM QuietIsSynced == Spec => []QuietMeansSynced
<1>1. Init => SyncInv
  BY SyncInit
<1>2. SyncInv /\ [Next]_vars => SyncInv'
  BY SyncStep
<1>3. SyncInv => QuietMeansSynced
  BY DEF SyncInv, Synced, QuietMeansSynced, Unexpired, Restrict
<1> QED BY <1>1, <1>2, <1>3, PTL DEF Spec

LEMMA OrderStep ==
  ASSUME OrderIsActive, [Next]_vars
  PROVE  OrderIsActive'
<1> USE DEF OrderIsActive, refresherVars
<1>1. ASSUME NEW s, NEW m, Handle(s, m) PROVE OrderIsActive'
  BY <1>1, HandleNotes
<1>2. CASE BeginSync
  BY <1>2 DEF BeginSync, Announced
<1>3. CASE Rebuild
  BY <1>3 DEF Rebuild, Unexpired, Restrict
<1>4. CASE \E i \in order : PushAlert(i)
  BY <1>4 DEF PushAlert
<1>5. CASE EndSync \/ Restart
  BY <1>5 DEF EndSync, Restart
<1>6. ASSUME \/ \E s \in Sources : \E m \in Range(Feeds[s]) : PassOver(s, m)
             \/ WakeUp \/ ReadRequest \/ BeginFreshen \/ RenderDone \/ RenderFails \/ Tick
             \/ \E i \in todo : FillNext(i) \/ FreshenNext(i)
             \/ UNCHANGED vars
      PROVE OrderIsActive'
  BY <1>6 DEF PassOver, WakeUp, ReadRequest, BeginFreshen, RenderDone, RenderFails, Tick,
              FillNext, FreshenNext, StartRender, vars
<1> QED BY <1>1, <1>2, <1>3, <1>4, <1>5, <1>6 DEF Next, Refresh

(* The conductor plays the segment of no alert that left the registry:     *)
(* whatever changes the registry starts the rotation anew (main.py,        *)
(* conductor.py), whatever the feeds.                                      *)
THEOREM NoGhosts == Spec => NoGhostPushed
<1>1. Init => OrderIsActive
  BY SyncInit
<1>2. OrderIsActive /\ [Next]_vars => OrderIsActive'
  BY OrderStep
<1>3. OrderIsActive => [\A i \in Slots : (PushAlert(i) /\ i \in DOMAIN store) => i \in DOMAIN alerts]_vars
  BY DEF OrderIsActive, PushAlert
<1> QED BY <1>1, <1>2, <1>3, PTL DEF Spec, NoGhostPushed
-------------------------------------------------------------------------------
(* The registry: proofs                                                    *)

LEMMA SlotParts ==
  /\ \A s, t, u, r : TrackSlot(s, t) = TrackSlot(u, r) <=> s = u /\ t = r
  /\ \A s, t : TrackSlot(s, t)[2] = "track"
  /\ \A m : MessageSlot(m)[2] = "message"
  /\ \A t, i : i \in SlotsOf(t) <=> i = TrackSlot("CAP", t) \/ i = TrackSlot("NWWS", t)
BY DEF TrackSlot, MessageSlot, SlotsOf

LEMMA MessageFacts ==
  ASSUME NEW m \in Messages
  PROVE  m.src \in Sources /\ Entry(m) \in Entries /\ m.id \in Scripts
         /\ Tracks(m) \subseteq AllTracks
<1>1. m.src \in Sources
  BY FeedsAssumption DEF Messages
<1>2. m.id \in Scripts /\ Tracks(m) \subseteq AllTracks
  BY DEF Scripts, AllTracks
<1> QED BY <1>1, <1>2 DEF Entry, Entries

(* A message that ends or registers something has one track.               *)
LEMMA OneTrack ==
  ASSUME PlainFeeds, NEW m \in Messages, m.vtec # {}
  PROVE  /\ m.src \in {"CAP", "NWWS"} /\ Tracks(m) = {m.lead} /\ m.expires \in Nat \ {0}
         /\ CancelTracks(m) = IF Ends(m) THEN {m.lead} ELSE {}
         /\ Ends(m) => ContinuationTracks(m) = {} /\ ~ToneoutFull(m.vtec)
<1>1. PICK v \in m.vtec : m.vtec = {v} /\ m.lead = v.track
  BY DEF PlainFeeds
<1>2. Tracks(m) = {m.lead} /\ VtecActions(m.vtec) = {v.act}
  BY <1>1 DEF Tracks, VtecActions
<1>3. CancelTracks(m) = IF v.act \in {"CAN", "EXP"} THEN {m.lead} ELSE {}
  BY <1>1 DEF CancelTracks, ActTracks
<1>4. v.act \in {"CAN", "EXP"} => ContinuationTracks(m) = {} /\ ~ToneoutFull(m.vtec)
  BY <1>1 DEF ContinuationTracks, ActTracks, ToneoutFull, FullActions
<1> QED BY <1>2, <1>3, <1>4 DEF PlainFeeds, Ends

LEMMA NoTrack ==
  ASSUME NEW m, m.vtec = {}
  PROVE  Tracks(m) = {} /\ CancelTracks(m) = {} /\ ContinuationTracks(m) = {} /\ ~Ends(m)
         /\ ~Registers(m)
BY DEF Tracks, CancelTracks, ContinuationTracks, ActTracks, Ends, VtecActions, Registers

(* The entry under a slot of a track is of that track, lasts as long as it *)
(* was announced, and no other slot is of the track.                       *)
LEMMA SlotOfTrack ==
  ASSUME PlainFeeds, NEW reg, Shaped(reg), NEW t, NEW i \in SlotsOf(t) \cap DOMAIN reg
  PROVE  /\ reg[i].tracks = {t} /\ reg[i].src = i[1] /\ reg[i].src \in {"CAP", "NWWS"}
         /\ \A m \in Messages : t \in Tracks(m) => reg[i].expires = m.expires
         /\ SlotsOf(t) \cap DOMAIN reg = {i}
<1>1. \A j \in SlotsOf(t) \cap DOMAIN reg : \E m \in Messages : MadeBy(j, reg[j], m)
  BY SlotParts DEF Shaped, MayHold
<1>2. ASSUME NEW j \in SlotsOf(t) \cap DOMAIN reg, NEW m \in Messages, MadeBy(j, reg[j], m)
      PROVE  /\ m.lead = t /\ reg[j].tracks = {t} /\ reg[j].src = m.src /\ j = TrackSlot(m.src, t)
             /\ t \in Tracks(m) /\ reg[j].expires = m.expires
             /\ Registers(m) /\ m.src \in {"CAP", "NWWS"}
  BY <1>2, SlotParts, OneTrack DEF MadeBy, Registers
<1>3. PICK m \in Messages : MadeBy(i, reg[i], m)
  BY <1>1
<1>4. \A n \in Messages : t \in Tracks(n) => reg[i].expires = n.expires
  BY <1>2, <1>3 DEF PlainFeeds
<1>5. ASSUME NEW j \in SlotsOf(t) \cap DOMAIN reg PROVE j = i
  <2>1. PICK n \in Messages : MadeBy(j, reg[j], n)
    BY <1>1
  <2>2. n.src = m.src
    BY <1>2, <1>3, <2>1 DEF PlainFeeds
  <2> QED BY <1>2, <1>3, <2>1, <2>2
<1> QED BY <1>2, <1>3, <1>4, <1>5 DEF TrackSlot

LEMMA ShapedWithout ==
  ASSUME NEW reg, Shaped(reg), NEW slots
  PROVE  /\ Shaped(Without(reg, slots)) /\ DOMAIN Without(reg, slots) = DOMAIN reg \ slots
         /\ \A i \in DOMAIN reg \ slots : Without(reg, slots)[i] = reg[i]
         /\ \A t : On(Without(reg, slots), t) <=> (SlotsOf(t) \cap DOMAIN reg) \ slots # {}
<1>1. DOMAIN Without(reg, slots) = DOMAIN reg \ slots
  BY DEF Without, Restrict
<1>2. \A t : SlotsOf(t) \cap (DOMAIN reg \ slots) = (SlotsOf(t) \cap DOMAIN reg) \ slots
  OBVIOUS
<1>3. \A t : On(Without(reg, slots), t) <=> (SlotsOf(t) \cap DOMAIN reg) \ slots # {}
  BY <1>1, <1>2 DEF On
<1>4. \A i \in DOMAIN reg \ slots : Without(reg, slots)[i] = reg[i]
  BY DEF Without, Restrict
<1>5. Shaped(Without(reg, slots))
  BY <1>1, <1>4 DEF Shaped
<1> QED BY <1>1, <1>3, <1>4, <1>5

(* The entries of relays and of IPAWS are of no track.                     *)
LEMMA ShapedMatching ==
  ASSUME PlainFeeds, NEW reg, Shaped(reg), NEW src \in {"ERN", "IPAWS"}, NEW code, NEW locs
  PROVE  /\ Shaped(RemoveMatching(reg, src, code, locs))
         /\ \A t : On(RemoveMatching(reg, src, code, locs), t) <=> On(reg, t)
<1> DEFINE gone == {i \in DOMAIN reg : /\ reg[i].src = src /\ reg[i].code = code
                                       /\ \/ locs = {} \/ reg[i].locs = {}
                                          \/ reg[i].locs \subseteq locs
                                          \/ locs \subseteq reg[i].locs}
<1>1. RemoveMatching(reg, src, code, locs) = Without(reg, gone)
  BY DEF RemoveMatching
<1>2. ASSUME NEW t, NEW i \in SlotsOf(t) \cap DOMAIN reg PROVE i \notin gone
  BY <1>2, SlotOfTrack
<1>3. \A t : (SlotsOf(t) \cap DOMAIN reg) \ gone = SlotsOf(t) \cap DOMAIN reg
  BY <1>2
<1> HIDE DEF gone
<1>4. /\ Shaped(Without(reg, gone))
      /\ \A t : On(Without(reg, gone), t) <=> (SlotsOf(t) \cap DOMAIN reg) \ gone # {}
  BY ShapedWithout
<1> QED BY <1>1, <1>3, <1>4 DEF On

(* ... and what is added shadows relays only.                              *)
LEMMA ShapedAdd ==
  ASSUME PlainFeeds, NEW reg, Shaped(reg), NEW slot, NEW e, MayHold(slot, e)
  PROVE  /\ Shaped(AddOrUpdate(reg, slot, e))
         /\ \A t : On(AddOrUpdate(reg, slot, e), t) <=> On(reg, t) \/ slot \in SlotsOf(t)
<1> DEFINE rest == Without(reg, Shadowed(reg, e))
           added == [i \in DOMAIN rest \cup {slot} |-> IF i = slot THEN e ELSE rest[i]]
<1>1. AddOrUpdate(reg, slot, e) = added
  BY DEF AddOrUpdate
<1>2. /\ Shaped(rest) /\ DOMAIN rest = DOMAIN reg \ Shadowed(reg, e)
  BY ShapedWithout
<1>3. ASSUME NEW t, NEW i \in SlotsOf(t) \cap DOMAIN reg PROVE i \notin Shadowed(reg, e)
  BY <1>3, SlotOfTrack DEF Shadowed
<1>4. Shaped(added)
  BY <1>2 DEF Shaped
<1>5. \A t : On(added, t) <=> On(reg, t) \/ slot \in SlotsOf(t)
  BY <1>2, <1>3 DEF On
<1> QED BY <1>1, <1>4, <1>5

LEMMA ShapedScript ==
  ASSUME NEW reg, Shaped(reg), NEW slot \in DOMAIN reg, NEW script \in Scripts
  PROVE  /\ Shaped(UpdateScript(reg, slot, script))
         /\ \A t : On(UpdateScript(reg, slot, script), t) <=> On(reg, t)
<1> DEFINE e == [reg[slot] EXCEPT !.script = script]
<1>1. MayHold(slot, reg[slot])
  BY DEF Shaped
<1>2. e \in Entries /\ e.tracks = reg[slot].tracks /\ e.expires = reg[slot].expires
      /\ e.src = reg[slot].src
  BY <1>1 DEF MayHold, Entries
<1>3. MayHold(slot, e)
  BY <1>1, <1>2 DEF MayHold, MadeBy
<1>4. /\ DOMAIN UpdateScript(reg, slot, script) = DOMAIN reg
      /\ \A i \in DOMAIN reg : UpdateScript(reg, slot, script)[i] = IF i = slot THEN e ELSE reg[i]
  BY DEF UpdateScript
<1> QED BY <1>3, <1>4 DEF Shaped, On

(* A message is registered under a slot of its track, or of its name.      *)
LEMMA Registered ==
  ASSUME PlainFeeds, NEW m \in Messages, NEW reg, Shaped(reg), NEW slot,
         \/ m.vtec = {} /\ slot = MessageSlot(m)
         \/ Registers(m) /\ slot = TrackSlot(m.src, m.lead)
  PROVE  /\ Shaped(Register(reg, slot, m))
         /\ \A t : On(Register(reg, slot, m), t) <=> On(reg, t) \/ (Registers(m) /\ t \in Tracks(m))
<1>1. MayHold(slot, Entry(m))
  <2>1. CASE m.vtec = {} /\ slot = MessageSlot(m)
    BY <2>1, SlotParts, MessageFacts, NoTrack DEF MayHold, Entry
  <2>2. CASE Registers(m) /\ slot = TrackSlot(m.src, m.lead)
    <3>1. Tracks(m) = {m.lead}
      BY <2>2, OneTrack DEF Registers
    <3>2. MadeBy(slot, Entry(m), m)
      BY <2>2, <3>1 DEF MadeBy, Entry
    <3> QED BY <3>2, MessageFacts DEF MayHold
  <2> QED BY <2>1, <2>2
<1>2. \A t : slot \in SlotsOf(t) <=> Registers(m) /\ t \in Tracks(m)
  <2>1. CASE m.vtec = {} /\ slot = MessageSlot(m)
    BY <2>1, SlotParts, NoTrack
  <2>2. CASE Registers(m) /\ slot = TrackSlot(m.src, m.lead)
    <3>1. Tracks(m) = {m.lead} /\ m.src \in {"CAP", "NWWS"}
      BY <2>2, OneTrack DEF Registers
    <3> QED BY <2>2, <3>1, SlotParts
  <2> QED BY <2>1, <2>2
<1> DEFINE added == AddOrUpdate(reg, slot, Entry(m))
<1>3. Shaped(added) /\ \A t : On(added, t) <=> On(reg, t) \/ slot \in SlotsOf(t)
  BY <1>1, ShapedAdd
<1> HIDE DEF added
<1>4. /\ Shaped(RemoveShadowedErn(added, m))
      /\ \A t : On(RemoveShadowedErn(added, m), t) <=> On(added, t)
  BY <1>3, ShapedMatching DEF RemoveShadowedErn
<1>5. Register(reg, slot, m) = RemoveShadowedErn(added, m)
  BY DEF Register, added
<1> QED BY <1>2, <1>3, <1>4, <1>5

(* What has the tracks of m is gone, and relays and IPAWS entries with it. *)
LEMMA Ended ==
  ASSUME PlainFeeds, NEW reg, Shaped(reg), NEW m, NEW slots
  PROVE  LET left == RemoveShadowedErn(RemoveIpaws(Without(reg, slots), m), m)
         IN  /\ Shaped(left)
             /\ \A t : On(left, t) <=> (SlotsOf(t) \cap DOMAIN reg) \ slots # {}
<1> DEFINE some == Without(reg, slots)
           fewer == RemoveIpaws(some, m)
<1>1. Shaped(some) /\ \A t : On(some, t) <=> (SlotsOf(t) \cap DOMAIN reg) \ slots # {}
  BY ShapedWithout
<1> HIDE DEF some
<1>2. Shaped(fewer) /\ \A t : On(fewer, t) <=> On(some, t)
  BY <1>1, ShapedMatching DEF RemoveIpaws
<1> HIDE DEF fewer
<1>3. /\ Shaped(RemoveShadowedErn(fewer, m))
      /\ \A t : On(RemoveShadowedErn(fewer, m), t) <=> On(fewer, t)
  BY <1>2, ShapedMatching DEF RemoveShadowedErn
<1> QED BY <1>1, <1>2, <1>3 DEF some, fewer

(* What the runtime of m makes of the slots of each track.                 *)
Follows(reg, m, new) ==
  /\ Shaped(new)
  /\ \A t : On(new, t) <=> \/ On(reg, t) /\ t \notin CancelTracks(m)
                           \/ Registers(m) /\ t \in Tracks(m)

Heard(m) == IsCancel(m) \/ Route(m) # "skip"

(* Slots that are of no track, or of all the slots of one.                 *)
LEMMA MessageSlotGone ==
  ASSUME NEW m, NEW reg
  PROVE  \A t : (SlotsOf(t) \cap DOMAIN reg) \ {MessageSlot(m)} # {} <=> On(reg, t)
<1>1. \A t : MessageSlot(m) \notin SlotsOf(t)
  BY SlotParts
<1> QED BY <1>1 DEF On

LEMMA TrackGone ==
  ASSUME PlainFeeds, NEW reg, Shaped(reg), NEW u
  PROVE  \A t : (SlotsOf(t) \cap DOMAIN reg) \ OfTracks(reg, {u}) # {} <=> On(reg, t) /\ t # u
<1>1. ASSUME NEW t, NEW i \in SlotsOf(t) \cap DOMAIN reg PROVE i \in OfTracks(reg, {u}) <=> t = u
  BY <1>1, SlotOfTrack DEF OfTracks
<1> QED BY <1>1 DEF On

LEMMA CapSlotGone ==
  ASSUME PlainFeeds, NEW reg, Shaped(reg), NEW u, TrackSlot("CAP", u) \in DOMAIN reg
  PROVE  \A t : (SlotsOf(t) \cap DOMAIN reg) \ {TrackSlot("CAP", u)} # {} <=> On(reg, t) /\ t # u
<1>1. SlotsOf(u) \cap DOMAIN reg = {TrackSlot("CAP", u)}
  BY SlotParts, SlotOfTrack
<1>2. \A t : TrackSlot("CAP", u) \in SlotsOf(t) <=> t = u
  BY SlotParts
<1> QED BY <1>1, <1>2 DEF On

LEMMA CapFollows ==
  ASSUME PlainFeeds, NEW m \in Messages, m.src = "CAP", Heard(m), NEW reg, Shaped(reg),
         NEW new \in CapResults(reg, m)
  PROVE  Follows(reg, m, new)
<1>1. CASE m.mt = "cancel" /\ m.vtec = {}
  <2>1. new = RemoveShadowedErn(RemoveIpaws(Without(reg, {MessageSlot(m)}), m), m)
    BY <1>1 DEF CapResults, CapCancels
  <2>2. Shaped(new) /\ \A t : On(new, t) <=> On(reg, t)
    BY <2>1, Ended, MessageSlotGone
  <2> QED BY <1>1, <2>2, NoTrack DEF Follows
<1>2. CASE ~(m.mt = "cancel" /\ m.vtec = {}) /\ Route(m) # "update"
  <2>1. new = Register(reg, CapSlot(m), m)
    BY <1>2 DEF CapResults, CapRegisters
  <2>2. Route(m) \in {"full", "voice"}
    BY <1>2 DEF Heard, IsCancel, Route, CapRoute
  <2>3. CASE m.vtec = {}
    <3>1. CapSlot(m) = MessageSlot(m)
      BY <2>3 DEF CapSlot
    <3> QED BY <2>1, <2>3, <3>1, NoTrack, Registered DEF Follows
  <2>4. CASE m.vtec # {}
    <3>1. Registers(m) /\ CapSlot(m) = TrackSlot(m.src, m.lead)
      BY <2>2, <2>4 DEF CapSlot, Registers
    <3>2. CancelTracks(m) = {}
      BY <1>2, <2>4, OneTrack DEF PlainFeeds
    <3> QED BY <2>1, <3>1, <3>2, Registered DEF Follows
  <2> QED BY <2>3, <2>4
<1>3. CASE ~(m.mt = "cancel" /\ m.vtec = {}) /\ Route(m) = "update" /\ Ends(m)
  <2> DEFINE gone == IF CapSlot(m) \in DOMAIN reg THEN {CapSlot(m)} ELSE OfTracks(reg, Tracks(m))
  <2>1. new = RemoveShadowedErn(RemoveIpaws(Without(reg, gone), m), m)
    BY <1>3 DEF CapResults, CapEnds
  <2>2. m.vtec # {}
    BY <1>3, NoTrack
  <2>3. /\ Tracks(m) = {m.lead} /\ CancelTracks(m) = {m.lead} /\ ~Registers(m)
        /\ CapSlot(m) = TrackSlot("CAP", m.lead)
    BY <1>3, <2>2, OneTrack DEF CapSlot, Registers
  <2>4. \A t : (SlotsOf(t) \cap DOMAIN reg) \ gone # {} <=> On(reg, t) /\ t # m.lead
    <3>1. CASE CapSlot(m) \in DOMAIN reg
      BY <2>3, <3>1, CapSlotGone
    <3>2. CASE CapSlot(m) \notin DOMAIN reg
      BY <2>3, <3>2, TrackGone
    <3> QED BY <3>1, <3>2
  <2> HIDE DEF gone
  <2>5. Shaped(new) /\ \A t : On(new, t) <=> On(reg, t) /\ t # m.lead
    BY <2>1, <2>4, Ended
  <2> QED BY <2>3, <2>5 DEF Follows
<1>4. CASE ~(m.mt = "cancel" /\ m.vtec = {}) /\ Route(m) = "update" /\ ~Ends(m)
  <2>1. new = reg \/ \E i \in DOMAIN reg : new = UpdateScript(reg, i, m.id)
    BY <1>4 DEF CapResults, CapContinues, OfTracks
  <2>2. Shaped(new) /\ \A t : On(new, t) <=> On(reg, t)
    BY <2>1, MessageFacts, ShapedScript
  <2>3. CancelTracks(m) = {} /\ ~Registers(m)
    BY <1>4, OneTrack, NoTrack DEF Registers
  <2> QED BY <2>2, <2>3 DEF Follows
<1> QED BY <1>1, <1>2, <1>3, <1>4

LEMMA NwwsFollows ==
  ASSUME PlainFeeds, NEW m \in Messages, m.src = "NWWS", NEW reg, Shaped(reg),
         NEW new \in NwwsResults(reg, m)
  PROVE  Follows(reg, m, new)
<1>1. CASE Ends(m)
  <2>1. m.vtec # {}
    BY <1>1, NoTrack
  <2>2. /\ CancelTracks(m) = {m.lead} /\ ContinuationTracks(m) = {} /\ ~ToneoutFull(m.vtec)
        /\ ~Registers(m)
    BY <1>1, <2>1, OneTrack DEF Registers
  <2>3. ~IsFull(m)
    BY <2>2 DEF IsFull, Route, NwwsRoute, NwwsShouldFull
  <2> DEFINE gone == OfTracks(reg, {m.lead})
  <2>4. new = RemoveShadowedErn(RemoveIpaws(Without(reg, gone), m), m)
    BY <1>1, <2>2, <2>3 DEF NwwsResults, NwwsEnds
  <2>5. \A t : (SlotsOf(t) \cap DOMAIN reg) \ gone # {} <=> On(reg, t) /\ t # m.lead
    BY TrackGone
  <2> HIDE DEF gone
  <2>6. Shaped(new) /\ \A t : On(new, t) <=> On(reg, t) /\ t # m.lead
    BY <2>4, <2>5, Ended
  <2> QED BY <2>2, <2>6 DEF Follows
<1>2. CASE ~Ends(m)
  <2>1. PICK slot \in NwwsSlots(m, Tracks(m)) : new = Register(reg, slot, m)
    BY <1>2 DEF NwwsResults
  <2>2. CASE m.vtec = {}
    <3>1. slot = MessageSlot(m)
      BY <2>1, <2>2, NoTrack DEF NwwsSlots
    <3> QED BY <2>1, <2>2, <3>1, NoTrack, Registered DEF Follows
  <2>3. CASE m.vtec # {}
    <3>1. slot = TrackSlot(m.src, m.lead) /\ CancelTracks(m) = {}
      BY <1>2, <2>1, <2>3, OneTrack DEF NwwsSlots
    <3>2. Registers(m)
      BY <1>2, <2>3 DEF Registers
    <3> QED BY <2>1, <3>1, <3>2, Registered DEF Follows
  <2> QED BY <2>2, <2>3
<1> QED BY <1>1, <1>2

LEMMA IpawsFollows ==
  ASSUME PlainFeeds, NEW m \in Messages, m.src = "IPAWS", NEW reg, Shaped(reg),
         NEW new \in IpawsResults(reg, m)
  PROVE  Follows(reg, m, new)
<1>1. m.vtec = {}
  BY DEF PlainFeeds
<1>2. CASE m.mt = "cancel"
  <2> DEFINE some == Without(reg, {MessageSlot(m)})
  <2>1. new = RemoveIpaws(some, m)
    BY <1>2 DEF IpawsResults
  <2>2. Shaped(some) /\ \A t : On(some, t) <=> On(reg, t)
    <3>1. /\ Shaped(some)
          /\ \A t : On(some, t) <=> (SlotsOf(t) \cap DOMAIN reg) \ {MessageSlot(m)} # {}
      BY ShapedWithout
    <3> QED BY <3>1, MessageSlotGone
  <2> HIDE DEF some
  <2>3. Shaped(new) /\ \A t : On(new, t) <=> On(some, t)
    BY <2>1, <2>2, ShapedMatching DEF RemoveIpaws
  <2> QED BY <1>1, <2>2, <2>3, NoTrack DEF Follows
<1>3. CASE m.mt # "cancel"
  <2>1. new = Register(reg, MessageSlot(m), m)
    BY <1>3 DEF IpawsResults
  <2> QED BY <1>1, <2>1, NoTrack, Registered DEF Follows
<1> QED BY <1>2, <1>3

LEMMA ErnFollows ==
  ASSUME PlainFeeds, NEW m \in Messages, m.src = "ERN", NEW reg, Shaped(reg),
         NEW new \in ErnResults(reg, m)
  PROVE  Follows(reg, m, new)
<1>1. m.vtec = {} /\ new = AddOrUpdate(reg, MessageSlot(m), Entry(m))
  BY DEF PlainFeeds, ErnResults
<1>2. MayHold(MessageSlot(m), Entry(m))
  BY <1>1, SlotParts, MessageFacts, NoTrack DEF MayHold, Entry
<1>3. \A t : MessageSlot(m) \notin SlotsOf(t)
  BY SlotParts
<1>4. Shaped(new) /\ \A t : On(new, t) <=> On(reg, t)
  BY <1>1, <1>2, <1>3, ShapedAdd
<1> QED BY <1>1, <1>4, NoTrack DEF Follows

LEMMA ResultsFollow ==
  ASSUME PlainFeeds, NEW m \in Messages, Heard(m), NEW reg, Shaped(reg), NEW new \in Results(reg, m)
  PROVE  Follows(reg, m, new)
<1>1. m.src \in Sources
  BY MessageFacts
<1> QED BY <1>1, CapFollows, NwwsFollows, IpawsFollows, ErnFollows DEF Results, Sources

LEMMA RegistryInit == Init => RegistryInv
BY DEF Init, RegistryInv, Shaped, StatusKnown, OnWhileAnnounced, NoAlerts

(* The purge takes away what has ended by the clock.                       *)
LEMMA Purged ==
  ASSUME PlainFeeds, RegistryInv, NEW new, new = Unexpired(alerts, clock)
  PROVE  Shaped(new) /\ \A t \in DOMAIN status : /\ status[t] = 0 => ~On(new, t)
                                                 /\ clock < status[t] => On(new, t)
<1>1. /\ DOMAIN new = {i \in DOMAIN alerts : clock < alerts[i].expires}
      /\ \A i \in DOMAIN new : new[i] = alerts[i]
  BY DEF Unexpired, Restrict
<1>2. Shaped(new)
  BY <1>1 DEF RegistryInv, Shaped
<1>3. ASSUME NEW t \in DOMAIN status, status[t] = 0 PROVE ~On(new, t)
  BY <1>1, <1>3 DEF RegistryInv, OnWhileAnnounced, On
<1>4. ASSUME NEW t \in DOMAIN status, clock < status[t] PROVE On(new, t)
  <2>1. PICK i \in SlotsOf(t) \cap DOMAIN alerts : TRUE
    BY <1>4 DEF RegistryInv, OnWhileAnnounced, On
  <2>2. clock \in Nat /\ status[t] # 0
    BY <1>4 DEF RegistryInv
  <2>3. PICK m \in Messages : t \in Tracks(m) /\ status[t] = m.expires
    BY <2>2 DEF RegistryInv, StatusKnown
  <2>4. alerts[i].expires = m.expires
    BY <2>1, <2>3, SlotOfTrack DEF RegistryInv
  <2> QED BY <1>1, <1>4, <2>1, <2>3, <2>4 DEF On
<1> QED BY <1>2, <1>3, <1>4

LEMMA HandledRegistry ==
  ASSUME PlainFeeds, RegistryInv, NEW s, NEW m \in Messages, Handle(s, m)
  PROVE  RegistryInv'
<1>1. /\ status' = Told(m) /\ rows' = alerts' /\ clock' = clock
      /\ Heard(m) /\ alerts' \in Results(alerts, m)
  BY DEF Handle, Heard, Saved
<1>2. Follows(alerts, m, alerts')
  BY <1>1, ResultsFollow DEF RegistryInv
<1> DEFINE goesOn == {t \in Tracks(m) \ CancelTracks(m) :
                        Route(m) # "update" \/ (t \in DOMAIN status /\ status[t] > 0)}
<1>3. /\ DOMAIN status' = DOMAIN status \cup CancelTracks(m) \cup goesOn
      /\ \A t \in DOMAIN status' : status'[t] = IF t \in CancelTracks(m) THEN 0
                                               ELSE IF t \in goesOn THEN m.expires ELSE status[t]
  BY <1>1 DEF Told
<1>4. CancelTracks(m) \subseteq Tracks(m) /\ Tracks(m) \subseteq AllTracks
  BY MessageFacts DEF CancelTracks, ActTracks, Tracks
<1>5. ASSUME NEW t \in Tracks(m) PROVE m.vtec # {} /\ m.src \in {"CAP", "NWWS"}
                                       /\ m.expires \in Nat \ {0} /\ m.expires # 0
  BY OneTrack, NoTrack
<1>6. \A t \in goesOn : \/ Registers(m)
                        \/ t \in DOMAIN status /\ status[t] > 0
  <2> SUFFICES ASSUME NEW t \in goesOn, Route(m) # "update" PROVE Registers(m)
    OBVIOUS
  <2>1. m.vtec # {} /\ m.src \in {"CAP", "NWWS"} /\ ~Ends(m)
    BY <1>5, OneTrack
  <2>2. m.src = "CAP" => Route(m) \in {"full", "voice"}
    BY <1>1, <2>1 DEF Heard, IsCancel, Route, CapRoute
  <2> QED BY <2>1, <2>2 DEF Registers
<1>7. Registers(m) => /\ Route(m) # "update" /\ CancelTracks(m) = {} /\ goesOn = Tracks(m)
  <2> SUFFICES ASSUME Registers(m) PROVE Route(m) # "update" /\ CancelTracks(m) = {}
    OBVIOUS
  <2>1. Route(m) # "update"
    BY DEF Registers, Route, NwwsRoute
  <2>2. ~Ends(m)
    BY <2>1 DEF Registers, PlainFeeds
  <2> QED BY <2>1, <2>2, OneTrack DEF Registers
<1> HIDE DEF goesOn
<1>8. goesOn \subseteq Tracks(m) \ CancelTracks(m)
  BY DEF goesOn
<1>9. StatusKnown'
  <2>1. DOMAIN status' \subseteq AllTracks
    BY <1>3, <1>4, <1>8 DEF RegistryInv, StatusKnown
  <2>2. \A t \in DOMAIN status' :
          status'[t] = 0 \/ \E n \in Messages : t \in Tracks(n) /\ status'[t] = n.expires
    BY <1>3, <1>8 DEF RegistryInv, StatusKnown
  <2> QED BY <2>1, <2>2 DEF StatusKnown
<1>10. ASSUME NEW t \in DOMAIN status'
       PROVE  /\ status'[t] = 0 => ~On(alerts', t)
              /\ clock < status'[t] => On(alerts', t)
  <2>1. CASE t \in CancelTracks(m)
    <3>1. status'[t] = 0 /\ ~On(alerts', t)
      BY <1>2, <1>3, <1>7, <2>1 DEF Follows
    <3> QED BY <3>1 DEF RegistryInv
  <2>2. CASE t \in goesOn
    <3>1. status'[t] = m.expires /\ m.expires # 0 /\ t \in Tracks(m) \ CancelTracks(m)
      BY <1>3, <1>5, <1>8, <2>2
    <3>2. CASE Registers(m)
      BY <1>2, <3>1, <3>2 DEF Follows
    <3>3. CASE t \in DOMAIN status /\ status[t] > 0
      <4>1. PICK n \in Messages : t \in Tracks(n) /\ status[t] = n.expires
        BY <3>3 DEF RegistryInv, StatusKnown
      <4>2. status[t] = m.expires
        BY <3>1, <4>1 DEF PlainFeeds
      <4>3. clock < m.expires => On(alerts, t)
        BY <3>3, <4>2 DEF RegistryInv, OnWhileAnnounced
      <4> QED BY <1>2, <3>1, <4>3 DEF Follows
    <3> QED BY <1>6, <2>2, <3>2, <3>3
  <2>3. CASE t \notin CancelTracks(m) \cup goesOn
    <3>1. t \in DOMAIN status /\ status'[t] = status[t] /\ ~(Registers(m) /\ t \in Tracks(m))
      BY <1>3, <1>7, <2>3
    <3>2. On(alerts', t) <=> On(alerts, t)
      BY <1>2, <2>3, <3>1 DEF Follows
    <3> QED BY <3>1, <3>2 DEF RegistryInv, OnWhileAnnounced
  <2> QED BY <2>1, <2>2, <2>3
<1>11. OnWhileAnnounced'
  BY <1>1, <1>10 DEF OnWhileAnnounced, On
<1> QED BY <1>1, <1>2, <1>9, <1>11 DEF RegistryInv, Follows

LEMMA RegistryStep ==
  ASSUME PlainFeeds, RegistryInv, [Next]_vars
  PROVE  RegistryInv'
<1> USE DEF refresherVars
<1>1. ASSUME NEW s \in Sources, NEW m \in Range(Feeds[s]), Handle(s, m) PROVE RegistryInv'
  <2>1. m \in Messages
    BY DEF Messages
  <2> QED BY <1>1, <2>1, HandledRegistry
<1>2. ASSUME UNCHANGED <<alerts, rows, status, clock>> PROVE RegistryInv'
  BY <1>2 DEF RegistryInv, StatusKnown, OnWhileAnnounced
<1>3. ASSUME alerts' = Unexpired(alerts, clock), rows' = alerts', UNCHANGED <<status, clock>>
      PROVE RegistryInv'
  <2>1. Shaped(alerts') /\ \A t \in DOMAIN status : /\ status[t] = 0 => ~On(alerts', t)
                                                    /\ clock < status[t] => On(alerts', t)
    BY <1>3, Purged
  <2>2. OnWhileAnnounced'
    BY <1>3, <2>1 DEF OnWhileAnnounced, On
  <2>3. StatusKnown'
    BY <1>3 DEF RegistryInv, StatusKnown
  <2> QED BY <1>3, <2>1, <2>2, <2>3 DEF RegistryInv
<1>4. CASE BeginSync
  <2>1. rows' = alerts'
    BY <1>4 DEF BeginSync, Saved, RegistryInv
  <2> QED BY <1>3, <1>4, <2>1 DEF BeginSync
<1>5. CASE Restart
  <2>1. rows' = alerts'
    BY <1>5 DEF Restart, Saved
  <2>2. alerts' = Unexpired(alerts, clock)
    BY <1>5 DEF Restart, RegistryInv
  <2> QED BY <1>3, <1>5, <2>1, <2>2 DEF Restart
<1>6. CASE Tick
  <2>1. clock' = clock + 1 /\ clock \in Nat /\ UNCHANGED <<alerts, rows, status>>
    BY <1>6 DEF Tick, RegistryInv
  <2>2. \A t \in DOMAIN status : clock' < status[t] => clock < status[t]
    <3> SUFFICES ASSUME NEW t \in DOMAIN status, clock' < status[t] PROVE clock < status[t]
      OBVIOUS
    <3>1. status[t] \in Nat
      <4>1. ASSUME NEW m \in Messages, t \in Tracks(m) PROVE m.expires \in Nat
        BY <4>1, OneTrack, NoTrack
      <4> QED BY <4>1 DEF RegistryInv, StatusKnown
    <3> QED BY <2>1, <3>1
  <2>3. OnWhileAnnounced'
    BY <2>1, <2>2 DEF RegistryInv, OnWhileAnnounced, On
  <2>4. StatusKnown'
    BY <2>1 DEF RegistryInv, StatusKnown
  <2> QED BY <2>1, <2>3, <2>4 DEF RegistryInv
<1>7. ASSUME \/ \E s \in Sources : \E m \in Range(Feeds[s]) : PassOver(s, m)
             \/ WakeUp \/ ReadRequest \/ BeginFreshen \/ EndSync \/ RenderDone \/ RenderFails
             \/ \E i \in todo : FillNext(i) \/ FreshenNext(i)
             \/ Rebuild \/ \E i \in order : PushAlert(i)
             \/ UNCHANGED vars
      PROVE UNCHANGED <<alerts, rows, status, clock>>
  BY <1>7 DEF PassOver, WakeUp, ReadRequest, BeginFreshen, EndSync, RenderDone, RenderFails,
              FillNext, FreshenNext, StartRender, Rebuild, PushAlert, vars
<1> QED BY <1>1, <1>2, <1>4, <1>5, <1>6, <1>7 DEF Next, Refresh

(* The registry holds what was announced of a track, no less, and nothing  *)
(* that ended, across purges and restarts (active.py and the runtimes),    *)
(* for all feeds whose messages speak of one track, registered by one      *)
(* source, with one end.  The other feeds are those where it does not: a   *)
(* product that ends one track of two, a track in the slots of two         *)
(* sources, a later end that only a continuation names.                    *)
THEOREM RegistryIsTrue == ASSUME PlainFeeds PROVE Spec => []RegistryFollowsAir
<1>1. RegistryInv /\ [Next]_vars => RegistryInv'
  BY RegistryStep
<1>2. ASSUME RegistryInv PROVE RegistryFollowsAir
  <2>1. CancelledIsGone
    BY <1>2 DEF RegistryInv, OnWhileAnnounced, On, CancelledIsGone
  <2>2. ASSUME NEW t \in DOMAIN status, clock < status[t]
        PROVE \E i \in DOMAIN alerts : t \in alerts[i].tracks /\ clock < alerts[i].expires
    <3>1. PICK i \in SlotsOf(t) \cap DOMAIN alerts : TRUE
      BY <1>2, <2>2 DEF RegistryInv, OnWhileAnnounced, On
    <3>2. clock \in Nat /\ status[t] # 0
      BY <1>2, <2>2 DEF RegistryInv
    <3>3. PICK m \in Messages : t \in Tracks(m) /\ status[t] = m.expires
      BY <1>2, <3>2 DEF RegistryInv, StatusKnown
    <3>4. alerts[i].tracks = {t} /\ alerts[i].expires = m.expires
      BY <1>2, <3>1, <3>3, SlotOfTrack DEF RegistryInv
    <3> QED BY <2>2, <3>1, <3>3, <3>4
  <2> QED BY <2>1, <2>2 DEF AnnouncedIsActive, RegistryFollowsAir
<1> QED BY RegistryInit, <1>1, <1>2, PTL DEF Spec
===============================================================================
