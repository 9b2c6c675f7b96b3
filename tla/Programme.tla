------------------------------ MODULE Programme ------------------------------
(***************************************************************************)
(* How the routine segments of the cycle are kept up to date: the pass of  *)
(* the refresher over its keys (broadcast/segment_refresher.py), the texts *)
(* it has built from upstream products (broadcast/cycle.py), with a cache  *)
(* of the last build, and the store the conductor plays from               *)
(* (broadcast/segment_store.py).                                           *)
(*                                                                         *)
(* A segment is what its text is about (the mode and the health of the     *)
(* station when it was written) and how old the products in it are.  A     *)
(* build and a render are awaited; in between the mode, the health and     *)
(* the requests change.  Alerts' segments are in AlertCycle.               *)
(***************************************************************************)
EXTENDS Integers, Sequences, SequencesExt

CONSTANTS
  Order,      \* _ALL_CONTENT_KEYS, in the order of a pass
  Interval,   \* _intervals: refresh interval of each key
  CacheTTL,   \* _BUILD_CACHE_TTL_S
  TickLen,    \* tick_s of the refresher
  MaxPass,    \* bound: the longest pass of the refresher
  MaxChanges  \* bound: changes of mode and health, requests, restarts and failures

Keys == Range(Order)

\* The keys of the segments made from upstream products.
Routine == Keys \ {"id", "health", "status"}

ASSUME ProgrammeAssumption ==
  /\ Order \in Seq(STRING)
  /\ {"id", "health", "status"} \subseteq Keys
  /\ Interval \in [Keys -> Nat \ {0}]
  /\ CacheTTL \in Nat /\ TickLen \in Nat \ {0} /\ MaxPass \in Nat
  /\ MaxChanges \in Nat

VARIABLES
  mode,     \* Orchestrator.mode
  health,   \* the mode of the health state machine
  store,    \* SegmentStore._entries, and its audio
  cache,    \* _seg_cache with its time and mode
  pending,  \* _pending
  wake,     \* _wake_event
  phase,    \* where the refresher is
  todo,     \* the keys its loop has still to look at
  work,     \* the build or render under way
  spent,    \* time since the pass, or the sleep, began
  changes,  \* changes so far
  failures  \* history: builds and renders that failed

refresherVars == <<cache, phase, todo, work>>
programmeVars == <<mode, health, store, refresherVars, pending, wake, spent, changes, failures>>

Context == [mode |-> mode, health |-> health]
NoContext == [mode |-> "none", health |-> "none"]
Contexts == [mode : {"normal", "heightened"}, health : {"normal", "degraded", "detached"}]

\* detached_loop_only is configured, as by default.
Detached(c) == c.health = "detached"

\* The oldest that products and updates are told apart.
Oldest == CacheTTL + TickLen + 3 * MaxPass + 1
Aged(n, k) == IF n > Interval[k] + Oldest THEN n ELSE n + 1

NoCache == [about |-> NoContext, age |-> 0, keys |-> {}]
NoWork == [key |-> "none", about |-> NoContext, age |-> 0, kind |-> "none"]

\* An entry that is no placeholder: since when it is there, what it is about,
\* how old its products are.  mark_placeholder makes an entry that is stale.
Entry(k, c, age) == [ready |-> TRUE, since |-> 0, about |-> c, age |-> IF k \in Routine THEN age ELSE 0]
Placeholder(k) == [ready |-> FALSE, since |-> Interval[k], about |-> NoContext, age |-> 0]

ProgrammeInit ==
  /\ mode = "normal" /\ health = "normal"
  /\ store = [k \in Keys |-> Placeholder(k)]
  /\ cache = NoCache /\ pending = {} /\ wake = FALSE
  /\ phase = "cold" /\ todo = Order /\ work = NoWork
  /\ spent = 0 /\ changes = 0 /\ failures = 0
-------------------------------------------------------------------------------
(* Texts: CycleBuilder.                                                    *)

\* The routine segments that can be made from what the services answer, up.
\* The observations at sea come from the product of those on land.
Synopsis(up) == up \cap {"zfp"}
HazardOutlook(up) == up \cap {"hwo"}
StormOutlook(up) == up \cap {"spc"}
ZoneForecast(up) == up \cap {"fcst"}
CoastalForecast(up) == up \cap {"cwf"}
Observations(up) == up \cap {"obs"}
MarineObservations(up) == IF "obs" \in up THEN up \cap {"marine_obs"} ELSE {}

Upstream(up) ==
  Synopsis(up) \cup HazardOutlook(up) \cup StormOutlook(up) \cup ZoneForecast(up)
    \cup CoastalForecast(up) \cup Observations(up) \cup MarineObservations(up)

\* build_segments: when the feeds are lost, nothing but the notice.
Built(c, up) ==
  IF Detached(c) THEN {"id", "health"}
  ELSE {"id", "status"} \cup (IF c.health = "normal" THEN {} ELSE {"health"}) \cup Upstream(up)
-------------------------------------------------------------------------------
(* The refresher.                                                          *)

\* Mutated form: what was asked for is what a segment of the mode needs.
CacheFitsMode(c) == cache.age < CacheTTL /\ cache.about.mode = c.mode

\* The last build is used again for a while, in the same mode and health.
CacheFits(c) == cache.age < CacheTTL /\ cache.about = c

\* Mutated form: a segment that is not available stays.
MarkKept(k) == store' = [store EXCEPT ![k] = IF @.ready THEN [@ EXCEPT !.since = Interval[k]] ELSE Placeholder(k)]

MarkPlaceholder(k) == store' = [store EXCEPT ![k] = Placeholder(k)]

\* What a build holds for k is rendered, or there is no such segment now.
UseBuild(k, build) ==
  IF k \in build.keys
    THEN /\ work' = [key |-> k, about |-> build.about, age |-> build.age, kind |-> "render"]
         /\ UNCHANGED store
    ELSE work' = NoWork /\ MarkPlaceholder(k)

\* _refresh_one: the identification and the status need no upstream product.
Refresh(k) ==
  \/ /\ k \in {"id"} \cup (IF Detached(Context) THEN {} ELSE {"status"})
     /\ work' = [key |-> k, about |-> Context, age |-> 0, kind |-> "render"]
     /\ UNCHANGED store
  \/ /\ k = "status" /\ Detached(Context)
     /\ work' = NoWork /\ MarkPlaceholder(k)
  \/ /\ k \notin {"id", "status"} /\ CacheFits(Context)
     /\ UseBuild(k, cache)
  \/ /\ k \notin {"id", "status"} /\ ~CacheFits(Context)
     /\ work' = [key |-> k, about |-> Context, age |-> 0, kind |-> "build"]
     /\ UNCHANGED store

IsStale(k) == store[k].since >= Interval[k]

\* A new pass begins with what was requested, in any order.
BeginPass ==
  /\ \E asked \in SetToSeqs(pending) : todo' = asked
  /\ phase' = "requested" /\ wake' = FALSE /\ pending' = {} /\ spent' = 0

WakeUp ==
  /\ phase = "asleep"
  /\ (wake \/ spent = TickLen)
  /\ BeginPass
  /\ UNCHANGED <<mode, health, store, cache, work, changes, failures>>

\* The keys of the cold start and those requested are refreshed; then every
\* key is looked at, and refreshed if it is stale.
TakeKey ==
  /\ phase # "asleep" /\ work = NoWork /\ todo # <<>>
  /\ IF phase = "stale" /\ ~IsStale(Head(todo)) THEN UNCHANGED <<store, work>> ELSE Refresh(Head(todo))
  /\ todo' = Tail(todo)
  /\ UNCHANGED <<mode, health, cache, pending, wake, phase, spent, changes, failures>>

\* After the cold start the loop begins, which clears the event.
NextPhase ==
  /\ phase # "asleep" /\ work = NoWork /\ todo = <<>>
  /\ \/ phase = "cold" /\ BeginPass
     \/ /\ phase = "requested" /\ phase' = "stale" /\ todo' = Order
        /\ UNCHANGED <<pending, wake, spent>>
     \/ /\ phase = "stale" /\ phase' = "asleep" /\ spent' = 0
        /\ UNCHANGED <<todo, pending, wake>>
  /\ UNCHANGED <<mode, health, store, cache, work, changes, failures>>

\* The services have answered, for some of the segments.  The build is kept
\* under the mode it was asked for, and its time is that of its beginning.
FinishBuild ==
  /\ work.kind = "build"
  /\ \E up \in SUBSET Routine :
       LET build == [about |-> work.about, age |-> work.age,
                     keys |-> Built(work.about, up)]
       IN  cache' = build /\ UseBuild(work.key, build)
  /\ UNCHANGED <<mode, health, pending, wake, phase, todo, spent, changes, failures>>

\* synth_and_update: the audio is replaced, then the entry.
Rendered ==
  /\ work.kind = "render"
  /\ store' = [store EXCEPT ![work.key] = Entry(work.key, work.about, work.age)]
  /\ work' = NoWork
  /\ UNCHANGED <<mode, health, cache, pending, wake, phase, todo, spent, changes, failures>>

\* The build raises or the speech engine fails: the old audio and entry stay.
WorkFails ==
  /\ work # NoWork /\ changes + failures < MaxChanges
  /\ work' = NoWork /\ failures' = failures + 1
  /\ UNCHANGED <<mode, health, store, cache, pending, wake, phase, todo, spent, changes>>
-------------------------------------------------------------------------------
(* What happens to the station.                                            *)

Change == changes + failures < MaxChanges /\ changes' = changes + 1

\* trigger_immediate
Trigger(ks) == pending' = pending \cup ks /\ wake' = TRUE

\* _update_mode asks for the identification, and a command that sets the mode
\* for the status, too.
ModeChanges ==
  /\ Change
  /\ \E c \in Contexts : c.mode # mode /\ mode' = c.mode
  /\ \E ks \in {{"id"}, {"id", "status"}} : Trigger(ks)
  /\ UNCHANGED <<health, store, refresherVars, spent, failures>>

\* _health_changed
HealthChanges ==
  /\ Change
  /\ \E c \in Contexts : c.health # health /\ health' = c.health
  /\ Trigger({"id", "health", "status"})
  /\ UNCHANGED <<mode, store, refresherVars, spent, failures>>

\* A product that feeds a segment arrives by NWWS-OI.
ProductArrives ==
  /\ Change
  /\ \E k \in Routine : Trigger({k})
  /\ UNCHANGED <<mode, health, store, refresherVars, spent, failures>>

\* A new process reads the store, whose audio is on disk, and is in neither
\* mode.
ProgrammeRestart ==
  /\ Change
  /\ mode' = "normal" /\ health' = "normal"
  /\ cache' = NoCache /\ pending' = {} /\ wake' = FALSE
  /\ phase' = "cold" /\ todo' = Order /\ work' = NoWork /\ spent' = 0
  /\ UNCHANGED <<store, failures>>

\* Time passes in a sleep and, within bounds, in builds and renders.
ProgrammeTick ==
  /\ IF phase = "asleep" THEN ~wake /\ spent < TickLen ELSE work # NoWork /\ spent < MaxPass
  /\ spent' = spent + 1
  /\ store' = [k \in Keys |-> [store[k] EXCEPT !.since = IF @ < Interval[k] THEN @ + 1 ELSE @,
                                               !.age = IF store[k].ready /\ k \in Routine THEN Aged(@, k) ELSE 0]]
  /\ cache' = [cache EXCEPT !.age = IF cache = NoCache \/ @ >= CacheTTL THEN @ ELSE @ + 1]
  /\ work' = IF work = NoWork THEN work ELSE [work EXCEPT !.age = @ + 1]
  /\ UNCHANGED <<mode, health, pending, wake, phase, todo, changes, failures>>

ProgrammeNext ==
  \/ WakeUp \/ TakeKey \/ NextPhase \/ FinishBuild \/ Rendered \/ WorkFails
  \/ ModeChanges \/ HealthChanges \/ ProductArrives \/ ProgrammeRestart
  \/ ProgrammeTick

ProgrammeSpec == ProgrammeInit /\ [][ProgrammeNext]_programmeVars
-------------------------------------------------------------------------------
(* Properties                                                              *)

Quiet == phase = "asleep" /\ ~wake

\* Nothing is played from products that are older than the interval of the
\* segment and what the refresher needs to notice: a segment whose products
\* are not to be had falls silent.
NothingOutdated ==
  failures = 0 /\ phase # "cold" =>
    \A k \in Routine : store[k].ready => store[k].age <= Interval[k] + CacheTTL + TickLen + 3 * MaxPass

\* When the refresher has done its pass, the identification and the notice of
\* lost feeds speak of the mode and the health the station is in, whatever
\* changed during the builds and renders.
NoticesAreCurrent ==
  failures = 0 /\ Quiet =>
    /\ store["id"].ready /\ store["id"].about = Context
    /\ store["health"].ready <=> health # "normal"
    /\ store["health"].ready => store["health"].about.health = health

ProgrammeIsCurrent == NothingOutdated /\ NoticesAreCurrent

\* docs/STATE_MACHINE.md says of DETACHED "normal programming is suppressed and
\* the cycle becomes a clear service-unavailable notice until source health
\* recovers".
DetachedSuppresses ==
  failures = 0 /\ Quiet /\ health = "detached" => \A k \in Routine : ~store[k].ready
===============================================================================
