# SeasonalWeather: a TLA+ verification project

SeasonalWeather is the automation of a weather radio station: it receives
alerts from four sources, decides which to air with tones and which to read
out, renders speech, and feeds a Liquidsoap instance that also plays a routine
cycle of products.  It is one asyncio process (with a few threads) beside
Liquidsoap, with a SQLite database.  What is hard to get right in it is what
this project models: the sources race for the same alert, failures and restarts
fall between two steps, alerts interrupt a queue that is filled ahead of time,
caches and copies go stale while something is awaited, and threads outlive those
who started them.

## Inventory

Sources are under `src/seasonalweather/`.  `PROJECT.json` lists the same parts
with their status, and under `hazards` what is hard to test, line by line.

| Part | State | Hard behaviour | What makes it correct | Module |
|---|---|---|---|---|
| Routing and keys: `broadcast/cap_policy.py`, `alerts/vtec.py`, `main.py` | none | four notions of "the same alert" | one alert is aired once | `AirKeys` |
| Source runtimes: `broadcast/{cap,nwws,ipaws,ern_relay}_runtime.py` | queues, cooldowns, `_recent_air_keys` | races, failures after a reservation, restarts | exclusive attempts, no leaked key, no double tone, no lost alert | `AlertAiring`, `AirOnce` |
| Dispatcher: `broadcast/alert_audio_jobs.py` | priority queue, one worker | order, exceptions | tone-outs first; every future is set | `AlertAiring` |
| Conductor: `broadcast/conductor.py` | rotation, estimate, hold, deadline, buffers | renders that span an interrupt, drifting estimates, missed wake-ups | nothing queued behind an interrupt; queue bounded, never dry; holds end | `Conductor` |
| Its rotation and `alerts/focus.py` | due times of postponed segments | a focus entered again and again, rotations that restart at every alert | what is postponed gets its turn | `FocusRotation` |
| Admission: `main.py`, `control.py` | cycle lock | partial failures, a path around it | no push behind an interrupt | `Conductor` |
| Liquidsoap: `liquidsoap/radio.liq`, `liquidsoap_telnet.py` | three request queues, commands found | other versions of the script, truncated answers, time-outs | a request reaches the plane of its kind | `Conductor`, `TelnetControl` |
| CAP ledger and pollers: `alerts/{cap_ledger,cap_nws,ipaws_cap}.py`, `database/alerts.py` | table, file, copies in memory | restarts, failing stores, two writers | handled once, in one life and over restarts | `CapLedger` |
| Alert tracker: `alerts/active.py`, `database/alerts.py` | active alerts, persisted | slots of several sources for one track, expiry, reload | holds what was announced and has not ended | `AlertTracker`, `AlertCycle` |
| Segment refresher and store: `broadcast/segment_{refresher,store}.py`, `broadcast/cycle.py` | wake-up event, entries, build cache | changes during a build or a render | each alert gets its script; routine segments speak of the present | `AlertCycle` (alerts), `Programme` (routine) |
| Broadcast mode: `main.py` | `heightened_until` | set by alerts and commands, from clocks read before or after the airing | heightened, and the gate closed, as long as owed | `TestScheduler`, `Desk` |
| RWT/RMT: `broadcast/rwt_rmt.py`, `broadcast/tests_runtime.py` | plan, period marks in memory, row and file | weather, restart, failed save, period boundary | once a period, if the record of it was kept | `TestScheduler`, `Desk` |
| Commands: `control.py`, `api/commands.py`, `database/commands.py` | records by idempotency key | retries, failing statements, crash | carried out once, and ended | `Commands`, `Desk` |
| Inserts and NOW: `control.py`, `broadcast/now_runtime.py`, `database/inserts.py` | rows with counts and status, audio files | cancelled or replaced between listing and airing | limits kept, one NOW per zone | `InsertRows`, `CycleInserts` |
| Housekeeping: `database/housekeeping.py` | files, rows | a file in use is deleted | never | `CycleInserts`, `StationFeed` |
| NWWS-OI client: `nwws/client.py` | supervisor, threads, shared events | a worker that outlives its supervision | lost sessions are replaced | `NwwsSession` in `Services` |
| Health: `health_state.py` | failures, ages, held mode | hysteresis | silence shows, holds end | `HealthState` in `Services` |
| Station feed: `broadcast/station_feed_runtime.py`, `database/station_feed.py` | memory and table | a thread beside the loop, refused transactions | shows what is on the air and nothing that is over | `StationFeed` in `Services` |
| ERN listeners: `broadcast/ern_gwes.py`, `same/{listen,listen_samedec,decode}.py` | windows, dedupe, child process | bursts over window borders, the time after which a text counts as new, restarts | heard, and said once | `ErnEars` in `Peripherals` |
| Targeting: `same/{ugc,targeting,locations}.py` | crosswalk files, maps, cache | downloads that fail, two loaders, month borders | no zone lost to a refresh | `SameTargets` in `Peripherals` |
| Authentication: `auth/service.py`, `auth/repository.py` | clients, tokens | commands between two reads | tokens follow their client | `ApiAuth` in `Peripherals` |
| Public notices: `broadcast/pns.py`, `pns_runtime.py` | reservations, entries | wire and API disagree | none replaced by an older one | `PublicNotices` in `Peripherals` |
| Discord log: `discord_log.py` | a queue for each webhook, token buckets | 429, failures | order and number of posts | `DiscordLog` in `Peripherals` |
| HTTP API, texts, speech, SAME encoding, configuration, CLI | | wording, tables, I/O | | not modelled |

## Modules

**Airing.**  `AirKeys` is the pure part: a message is a record of what routing
and dedupe look at, `Route` the decision of each runtime, `Keys` the tagged
tuples that stand for its dedupe strings.  `AlertAiring` extends it with four
runtimes, the shared reservation map, the dispatcher with one worker, and
process death and restart.  An action is what a task does between two awaits at
which it can be suspended: `Reserve`, `Submit`, `FinishJob`/`FailJob` and
`Commit`/`Abort`/`Die` are the stations of an attempt; CAP and IPAWS queue their
job in the step of the reservation, NWWS and ERN await area names in between.
`airings` and `failed` are history.  An exception ends the process except where
the loop catches it (`Survives`).  `AirOnce` is what all this promises, without
map, worker and stages: claims that end by airing or without a trace, and the
condition under which one may begin.  `AlertAiring` implements it
(`Promise == INSTANCE AirOnce WITH ...`, `AirsOnce`): a claim is an attempt that
has not aired.

**Output.**  `Conductor` has the conductor's task as a small program (`phase`),
the admission of interrupts as one step (telnet calls block the event loop), the
live time announcement as two, and Liquidsoap's queues.  An interrupt whose
length cannot be read holds for `GuessedHold` (60 s), whatever it lasts.  A refill,
which every change of the alerts or the mode asks for, restarts the account of a
queue that stays as full as it is.  Other tasks run only
when the conductor's task is suspended.  The estimate of what is buffered is
`balance`, pushed duration less elapsed time.  `_MAX_PUSHES_PER_TICK` (30) is
above what the bounded model can push in a pass and is left out.
`FocusRotation` is the order of the rotation, with readiness left open.
`TelnetControl` is the discovery of commands and its use by two threads.

**Ledger.**  `CapLedger`: a poll has no await after the fetch, it is one step;
`\E reads, imports, saves, spills` are the outcomes of the four accesses to the
stores.

**Alerts in the cycle.**  `AlertTracker` is the registry as a function from slots
to entries, with what each runtime makes of it after an airing.  `AlertCycle`
composes it with the sources' messages, the refresher and the rotation.  A pass
of the refresher is a sequence of steps between its awaits; `snap` is its list
of alert objects, so a script changed in place is seen through it and a replaced
entry is not.  `Programme` has the same pass over the routine segments, with the
builder, its cache of the last build and the mode and health a text is about.

**Desk.**  `Commands` (accept, replay, run, finish, prune, each with a statement
that may fail after memory was changed), `TestScheduler` (plan, postpone,
gate, mode) and `Desk`, which composes them: a command heightens, clears,
tones out or sends a test; alerts match, are rendered and tone out next to it.
CAP and IPAWS read the clock when an alert matches and set the end of the mode by
it once the alert has aired; NWWS-OI and manual messages read it then.  The gate
has its four blocks: the mode, a tone-out, a severe CAP match, a header that was
heard.  What the scheduler records of a test is in memory, in a row, and in a file
where the row could not be written; a restart reads them in that order.

**Inserts.**  `InsertRows` is each SQL statement as an operator on a row;
`CycleInserts` the operators, the NOW worker, the conductor and the housekeeper
that apply them around their awaits.

**Services.**  `NwwsSession`, `HealthState`, `StationFeed`, each with state and
steps of its own; `Services` checks the three in one run.  They share no state,
so a behaviour follows one of them (`part`): their interleavings would add
states and no behaviours.

**Peripherals** does the same for `ErnEars`, `Programme`, `FocusRotation`,
`SameTargets`, `ApiAuth`, `PublicNotices`, `TelnetControl` and `DiscordLog`.

**`MC*`** give messages, rotations, scripts and symmetry to TLC.
**`*_proofs`** hold the theorems.

Definitions that begin with "Mutated form" are plausible bugs next to the
definition they change.  For each property one of them is named in
`PROJECT.json` that its run detects, so every property depends on the code it is
about.

## Runs

| Run | Question | Result |
|---|---|---|
| `airing_safety` | a warning by CAP, its continuation by NWWS-OI, a civil event by IPAWS and ERN, a second relay: is anything toned twice, or left reserved after a failure? | holds |
| `airing_lifecycle` | NEW and CON of one track by two sources, with failures, crashes and a restart: is `AirOnce` implemented, is a tone-out or an update dropped only for another source's, is each heard? | holds, `ToneoutHeard` under fairness |
| `watch_without_targets` | what a comment promises of the CAP alert for a watch | violated, see below |
| `cycle_interrupts` | interrupts and refills over a ready cycle, lengths that cannot be read: protection, bounded queue, no dry sleep, holds end | holds, `CycleReturns` under fairness |
| `cycle_faults` | telnet calls fail, segments are missing, refills and API pushes come: does a hold stay quiet, and end with the audio or the guess of its length? | holds |
| `alert_rotation` | a warning, its continuation, its end by either source and its relay, a failing render, a restart: does the rotation follow what was announced? | holds, `ScriptsRendered` under fairness |
| `ledger_restart` | one source: is an alert handled twice over three lives? | holds |
| `ledger_sources` | two sources, failing stores, cleared caches: twice in one life, or hidden by a mark that is not its own? | holds |
| `cycle_inserts` | an announcement, a file and overlapping NOW products with failures, cancellations, housekeeping whose reads may fail, and a restart | holds, `NowGetsOnAir` under fairness |
| `desk` | commands, alerts under way and both tests, with failing statements, failing saves and a crash | holds, `AcceptedEnds` under fairness |
| `services` | wire sessions, health, feed | holds, `LostIsReplaced` and `ExpiredLeaves` under fairness |
| `peripherals` | one property for each of the eight parts that has no other run; `ErnEars` has two | holds |

`PROJECT.json` says of every run which properties it checks.  The deeper ones:

* `AirsOnce`: the whole pipeline refines `AirOnce`.
* `BacklogTracked`: the conductor's estimate does not let the queue run dry while
  it sleeps, and over-fills it by at most one lookahead for each refill that
  restarted the account of a queue that was not flushed.
* `SilenceBounded`: once the audio is over a hold lasts a status poll at most, and
  60 s more for each interrupt whose length could not be read.
* `RegistryFollowsAir`, `QuietMeansSynced`, `NoGhostPushed`: what is listed as
  active, what has a segment and what is played agree with what was announced.
* `OneNowPerZone`: NOW rows are made of what was read before a rendering and
  written after it; still no two speak for the same zone.
* `OncePerPeriod`: a test that the scheduler sends goes out once in each period,
  those it was postponed into included, over restarts and failed saves; it goes
  out once more at most for each time the record of it was lost, because the
  process ended before a save kept it or the record could not be read.
* `HeightenedWhileOwed`: an alert sets the end of the mode from a clock that was
  read before its rendering, over what others have set since, which may bring the
  end forward; still the mode is heightened, and the gate of the tests that
  heightened mode blocks is closed, for the configured time less a rendering after
  the last alert, and as long as the last command asked for.
* `AudioKept`: nothing that may still be played is deleted, but for what had aged
  when a pass of the housekeeper failed to read the rows that use it.
* `SessionSafe` and `LostIsReplaced`: with workers that survive `stop()` and
  share events and client with their successors, the end of the supervised worker
  is never missed; while every worker exits in time only a session that was let
  into the room is monitored, and never two run at once; a slow worker leaves at
  most one more behind; and a session that fails is replaced.
* `FeedFollowsAir`: whenever no write is under way and none was lost, the public feed
  shows every aired alert that is not over (but one renewed in the moment of its
  clean-up may go missing), and never one whose end was noted, though a thread
  prunes between any two steps.
* `ShortIsHeard`: whatever the phase of a message to the decoding windows, it is
  heard if two of its bursts, one after the other, fit into one window.
* `SaidOnce`: every event answers a message on the air, and a message that is over
  within `dedupe_seconds` (less the window and the delay) makes one event of one
  child, though the stream breaks and resumes in the middle of it; the same text
  sent again after that time is another message, and a child started anew while a
  message is sent may say it again.
* `RoutineReturns`: a postponed segment that is ready is heard within its gap and
  three rotations, if the rotation goes on.  Restarts do not postpone it again: a
  segment that was not played for that long, in a focus that was there for that
  long, is played within two rotations of the last restart.  What the code bounds
  by nothing are restarts less than two rotations apart, and a focus that ends and
  begins again within the gap, which puts all postponed segments off anew.
* `TargetsHold`: a good crosswalk gives way only to a download from which a zone
  could be parsed, be it torn, and what the file in place has is served.
* `TokensFollowClients`: no request is let in with a token whose client changed
  between the two reads.
* `PushesArrive`: whichever script runs, and however two threads call, a request
  is put on the plane of its kind once the help was heard to its end.

### Bounds

* `AlertAiring`: four or five messages, each delivered once, a clock of one or
  two units against a `Ttl` and cooldowns of one, one or two lives.  The
  conflicts are between two messages that share a key, and a third party that
  fails or is skipped; a clock past the TTL reaches pruning and re-reservation.
  `Tick` assumes that an attempt ends within the TTL (900 s by default).
* `Conductor`: a cycle segment lasts one unit, interrupts one or two; up to
  three interrupts extend each other's deadline, each with a length that can be
  read or not; two refills over them restart the account of a full queue twice, on
  top of each other or apart; `MaxLag` stops the balance of an idle queue from
  falling for ever.  With missing segments the queue's
  contents are arbitrary, so `cycle_faults` uses a rotation of two.
* `AlertCycle`: one track with all its actions by two sources, a relay that ends
  before the warning does, one failing render, one restart.  Two sources are
  what it takes to have an end come before, after or twice.
* `CapLedger`: one or two alerts and pollers, two or three lives, an age limit of
  two units with alerts offered for up to two (`OfferTime`), so that entries are
  dropped exactly when they may be.  `MaxSeenKeys = 0` clears the cache at every
  poll.
* `CycleInserts`: two rotations are what a listing and a late airing need; one
  fault and one restart at any place; of three NOW products two overlap each way.
* `Desk`: one key, weeks of two days and months of two weeks with two slots a day,
  six slots: both tests due at once, a week that ends while a test is postponed, a
  second week.  One alert, of any kind, that takes up to a slot to be rendered, and
  one fault in all; a failed save followed by a crash is left to the proof.
* `Services`: three workers of which one outlives its supervision; limits of one
  or two units and a hold of three; a feed with room for two entries and notes
  for two tracks at once.
* `Peripherals`: two headers, one of three bursts and one of two that comes again
  after `dedupe_seconds`, over 56 units (of about 400 ms) of stream at every phase
  of the windows, one break; `Dedupe` is 21 units, longer than a message, its window
  and the delay but shorter than the 20 s of the program; ends of messages are
  decoded alike and are not in `Air`.  Gaps of three and five units of time and nine
  plays in a unit are enough for three changes of the focus to fall before, in and
  after each rotation.  Two changes or faults in most other parts; four generations
  of the Liquidsoap script; four notices.

`CHECK_DEADLOCK FALSE` is set where a bounded behaviour really stops: when
deliveries, faults, lives and the clock of `AlertAiring`, `CycleInserts`,
`Desk`, `Services` or `Peripherals` are used up, their tasks wait for input.
`Conductor`, `AlertCycle` and `CapLedger` are checked for deadlock.

### Fairness

`AlertAiring`: weak fairness of each runtime's next step, of the worker's start
and completion: asyncio runs ready tasks, and renders end or raise.  `Conductor`:
of its task and of time.  `AlertCycle`: of the refresher's task, whose wait has a
timeout.  `CycleInserts`: of the poll of the API, which repeats, and of the NOW
worker's steps.  `Desk`: of handlers, of the scheduler and of time.  `Services`:
of the supervisor, of threads that were asked to end, of the event loop's
transactions and the housekeeper's rounds; and strong fairness of a round that
no note interrupts, since rounds repeat for ever and notes are few.
Nothing is assumed of feeds, servers, clients and crashes.  `CycleReturns` is
checked without faults: a status query that fails for ever keeps the hold for
ever, as conductor.py says ("A failed state query must not prematurely return
stale cycle audio").  A render that fails is not part of `AlertCycle`'s
fairness, and happens boundedly often.

## Where the code differs from what it says

`watch_without_targets` is a run that TLC must find violated, with the quoted
line in `PROJECT.json`: a watch product without SAME targets, read out as voice
so that the CAP tone-out stays eligible, reserves a key the tone-out needs.

Five configurations reproduce further disagreements; TLC reports the property
violated in each (`tlc -config <name>.cfg <module>`):

| Configuration | Module | Property | What it shows |
|---|---|---|---|
| `partial_cancel` | `MCAlertAiring` | `UpdateIsCovered` | a product with CON and CAN is dropped whole when the CON is held |
| `cycle_time_buffers` | `MCConductor` | `TimeBuffersApart` | repeated refills overwrite a waiting time announcement |
| `cancelled_lingers` | `MCAlertCycle` | `CancelledIsGone` | a CAP cancellation leaves the slot of an NWWS-OI continuation |
| `ledger_two_sources` | `MCCapLedger` | `NoRestartSpam` | two pollers delete each other's rows, so a restart repeats alerts |
| `detached_programming` | `MCPeripherals` | `DetachedSuppresses` | when the feeds are lost only id, health and status are refreshed at once, docs/STATE_MACHINE.md:80 suppresses normal programming |

Two properties are stated in the modules and known not to hold: `MonthlyPreferred`
("prefer RMT on tie") and `HeightenedEnds` (docs/STATE_MACHINE.md), both in
`Desk`: the mode is only brought up to date when something asks for it.  Four
more are stated where a part does less than it says, and are in no run:
`SupersededStaysOff` and `NowInEveryRotation` (`CycleInserts`), `LongIsHeard` and
`DecodedIsDrained` (`ErnEars`: the header of a long list of locations does not
fit the 2.5 s window; output of samedec before its exit is not drained), and
`PacedAtRate` (`DiscordLog`: the drain task posts after its sleep without taking
a token, so the rate is up to twice the limit).  All but `LongIsHeard` are violated
under the configuration of their module's run; `LongIsHeard` needs a long header in
`Air`, and the messages of `MCPeripherals` are short.  The docs' words behind
the first two are those of the backfill (newest first) and of
docs/STATE_MACHINE.md (inserts remain eligible during alert focus).

Met while modelling, and in the models as the code has it:

* *Airing*: an advisory is read out by both CAP and NWWS-OI, and a CAP update
  shares no key with a tone-out, so `NoDoubleAir` needs feeds without the two
  (`NoVoiceTracks`, `UpdatesApart`); ERN shares a key only with messages without
  VTEC; a CAP "cancel" of a listed event is toned.
* *Ears*: a header of four locations or more may be too long for two bursts to
  fit into a window; whether the native listener hears it depends on where the
  windows fall.
* *Output*: API audio "after the current alert" bypasses reset and hold
  (`PushDirect`); a refill restarts the accounting of a queue that is still
  full; what is postponed in a focus is put off anew each time the focus is entered.
* *Desk*: a CAP or IPAWS alert, or a command, may bring `heightened_until` forward,
  where docs/STATE_MACHINE.md has a tone-out "extend" it; a test sent by hand is
  not recorded, so the planned one of its period still goes out; a test that is
  given up is not saved.
* *Housekeeping*: a pass that fails to read the protected rows logs it and deletes
  with what it has (housekeeping.py:344), aged audio of active inserts included.
* *Ledger and registry*: the ledger's fallback file is ignored while the table
  has rows; an extension by CAP updates the script of an entry and not its
  expiry; a cancel without VTEC removes the slot of its own identifier; an entry
  with several tracks leaves with the first that is cancelled.
* *Wire*: `stop()` is to "hard stop any previous worker", and leaves one that does
  not exit in ten seconds; when that one ends it clears the client and the
  events of its successor, which runs on unasked until its silence is noticed; a
  session that never received anything is never seen as stalled.
* *Feed*: the end of one track removes all tracks of its product; an entry
  renewed while the housekeeper removes it may vanish; a failed delete leaves a
  row that a restart shows until it expires.
* *Programme*: a trigger within 20 s of a build reuses the cached build.
* *Targeting*: the download of marine areas replaces the file without looking at
  it, where the other crosswalk is "never" deleted "on a failed refresh"; that one
  is replaced by any download that parses to a zone or more, a torn one too.
* *Notices*: two statements within the 90 s tolerance can pass for each other;
  after the 900 s of a reservation the backfill queues the same statement again.
* *Telnet*: a truncated help is trusted for the life of the process; commands are
  cached while Liquidsoap restarts with another script; a send that times out
  returns like one that succeeded.
* *Discord*: posts that raise or meet other statuses are dropped; 429 puts a post
  back behind later ones; one webhook's wait delays the others.

## Proofs

TLAPS proves, for every value of the constants that satisfies the modules'
named assumptions, every property of the runs but the seven of liveness.  Most
are not inductive; what follows names what makes them so, and the hypotheses of
those theorems that have some.  A hypothesis is there because the code does
something else without it; TLC evaluated each on the constants of the runs.

**`AlertAiring_proofs`.**  `TypeOK`, `ReservationsAccounted`,
`AttemptsExclusive`, `NoDoubleTone`, and `KeepsPromise`: `AlertAiring` implements
`AirOnce`.  The invariant adds that jobs, worker and stages correspond one to
one, that reservations held by attempts are not older than the TTL, and that an
airing's keys stay reserved, with its time, until the TTL is over: it is this
that blocks a second tone-out (`SharedKey`: the same alert toned twice shares a
key), and that gives each reservation the guard of `Claim`.  Three properties
depend on what the feeds carry:

| Theorem | Property | Hypotheses |
|---|---|---|
| `SingleAiring` | `NoDoubleAir` | `NoVoiceTracks`, `UpdatesApart` |
| `ToneoutsCovered` | `DuplicateIsCovered` | `IdsAreTrue`, `OneActionEach`, `TonedByNwws` |
| `AiringsCovered` | `UpdateIsCovered` | `IdsAreTrue`, `OneActionEach`, `NoVoiceTracks` |

`IdsAreTrue`: an identifier stands for one text.  `NoVoiceTracks`: no advisory
comes by CAP.  `UpdatesApart`: a CAP update carries nothing that is toned out.
`OneActionEach`: a message has one lifecycle action.  `TonedByNwws`: what one
source tones out NWWS-OI tones out too.  They hold of the messages of the passing
runs; `watch_without_targets` is where the last one fails, `partial_cancel.cfg`
where `OneActionEach` does, and no other of them fails there.

**`Conductor_proofs`.**  `TypeOK`, `NoPushDuringHold`, `SilenceBounded` (what
guesses of a length add is counted, `Guessed`), and `NothingBehindInterrupt` under
"no telnet failures, no direct pushes, and Liquidsoap's status or the lengths can
be read": the deadline covers the audio where lengths can be read, there is none
without a hold, a held queue is empty, and where a length was guessed it is the
status that rules a release out.  `BacklogIsTrue`: `BacklogTracked` over any
alerts, refills and wake-ups, if nothing fails or is missing (`Undisturbed`) and
the rotation leaves time to render (`RoomToRender`: as many segments before and
between announcements of the time, and a lookahead, 75 s, beyond a tick, 4 s, and
a rendering).  The invariant (`Backlog`) is that what is queued is never less than
the balance and exceeds it by a lookahead for each restart of the account at most,
and that whatever is queued at a place of the rotation leads by a rendering when
the next announcement is reached (`LeadsBy`).

**`AlertCycle_proofs`.**  `QuietMeansSynced` and `NoGhostPushed` whatever the
feeds: while the refresher was not woken since it read the registry, what it
holds is the registry (`Current`), so its first loop filled what it passed and its
second one renewed it; whoever changes the registry empties the rotation.
`RegistryIsTrue`: `RegistryFollowsAir` for feeds whose messages speak of one track
each, which one source registers with one end (`PlainFeeds`).  Outside of these the
registry does not follow: a product that ends one of two tracks, a track in the
slots of two sources (`cancelled_lingers.cfg`), a later end that only an extension
names.  They include the feeds of `alert_rotation`, where either source may end the
alert.

**`CycleInserts_proofs`.**  `TypeOK`, `OneNowPerZone`, `AirsAsAsked`, `AudioKept`.
While the worker renders, the zones of its product are free but for the row it
will become (`ZonesFree`); each push is counted in its row or was not marked
(`Counted`), what a rotation still has to push has airings left
(`PendingHasLeft`), and a push after the end of a row takes it off the list
(`LateIsOver`); what was rendered is there until it is published, and what a pass
with a failed read deletes is counted (`exposed`) until it is rendered again.

**`CapLedger_proofs`.**  `MarksAreOwn` for any number of sources, failures and
restarts, and `NoRestartSpam` for one source with working stores, both if
`OfferTime <= MaxAge`.  What was handled is marked, and with one source stored,
with a time not before the alert's publication, for as long as it is offered
(`HandledIsMarked`, `HandledIsStored`).  `ledger_two_sources` shows why the second
needs one source.

**`Desk_proofs`.**  `RanOnce`: who works on a command or has done it holds its row
(`RowKept`), and no key with a row is accepted again.  `OncePerPeriod`, for any
calendar and policies: the scheduler pursues one test at a time, which went out
in the period of its slot at the latest, before it only if it was found not to
have run; what memory, row and file record is what went out, but for what was at
risk when the process ended or a read failed, and each such loss is counted.
`HeightenedWhileOwed`: a clock read before an alert was rendered is a rendering
old at most, so the end set by it reaches as far as is owed, and the mode is
never behind an end that has not passed.

**`Services_proofs`.**  `SessionSafe`: a slow worker pays for the one left behind
and for a stray session (`DebtsCovered`), and every other session is asked to
stop before it is joined (`JoinedWasAsked`).  `HealthHonest`: a source silent
beyond its limit and the time since the last evaluation was impaired then
(`SilentIsNamed`); the time since the sources are well is covered by the age of
the mode or by the hold and the round under way (`HoldCovers`).
`FeedFollowsAir`: the row that an entry will have after the transaction under way
(`RowSoon`) is what was aired, or none for what ended.  `PartsOfServices` carries
the three over to the composition that the run checks.

**`Peripherals_proofs`.**  One or two theorems for each part, and
`PartsOfPeripherals` for the composition:

* `TokensFollowClients`: the expiration and scopes of a client never change,
  whatever else changes revokes its tokens in the same transaction, and an
  exchange under way sees it in its recheck.
* `SaidOnce`, `ShortIsHeard`: events of one text are `dedupe_seconds` apart
  (`SaidApart`), and each is printed while a message is in reach (`SaidIsTrue`),
  since the listener keeps up with the stream; the cursor does not pass the second
  of two near bursts before the message is heard (`NotPassed`).
* `NotesAreKept`: every notice is in one place, and one that was never refused
  comes after all others (`Accounted`, `EachOnce`, `FreshIsLast`).
* `ProgrammeIsCurrent`: ages, what the products waited and what is left of the
  pass add up to the bound (`InTime`, `Late`); the identification and the notice
  are right, asked for, or on the way (`IdSoon`, `NoticeSoon`).
* `TargetsHold`: a zone is looked for elsewhere or given up only after the
  crosswalk was loaded (`NoneGivenUp`, `OthersElsewhere`).  Of the months around,
  the day of an expiry in a wrong one is four weeks away or more
  (`ClosestIsRight`).
* `NoticesHold`: the day by which a code gives the end of a statement is found
  again (`EndIsFound`).
* `PushesArrive`, for scripts whose help names the planes they have
  (`NamesAreTrue`) and calls that flush the cycle by its safe reset only
  (`OnlySafeResets`): what was learned of a whole help is what the script has
  (`SureIsKnown`).
* `RoutineReturns`: counted in plays, of which a unit of time has `Pace`, a segment
  comes at its place of the rotation, or once its gap and this rotation are over
  (`ComesInTime`); over restarts, once the focus has lasted the rotation that
  entered it is over, so what is overdue is in the next one (`OverdueInv`).

Three modules assume of a fold or a filter what it computes, since induction over
data is beyond the provers: the months follow one another (`CalendarAssumption` in
`PublicNotices`, `DaysAssumption` in `SameTargets`), and the scan for due segments
lists each of them once (`DueAssumption` in `FocusRotation`).  TLC evaluates these,
like all assumptions, in the runs.

Only model-checked: liveness under fairness, which is beyond the provers
(`ToneoutHeard`, `CycleReturns`, `ScriptsRendered`, `NowGetsOnAir`, `AcceptedEnds`,
`LostIsReplaced`, `ExpiredLeaves`).

## Not modelled

* The HTTP API (validation and routing to the control surface), speech and audio
  (subprocesses; a render is a step that ends or fails), configuration, logging
  and the command line: they keep no state that outlives a call.
* The wording of scripts and products, the encoding of SAME headers and tones
  (a message has a target class), the schema and its migrations.
* Of the control surface: rebuilds and listings.  Of the tracker: `_persist`
  swallows a refusal, and the next process reads what was written before.  Of
  authentication: the scope "*", static credentials, addresses.
* `AlertCycle` has no airings that fail (`AlertAiring` does), nor audio of an
  alert already in Liquidsoap's queue when it ends.
* A telnet push whose send timed out: the code does not notice, and no property
  speaks of it.

## Plan

1. Done: all parts of the inventory that keep state, `AirOnce` with its
   refinement theorem, and the theorems above.
2. Done: theorems for every safety property of the runs.  Next:
   `RegistryFollowsAir` for extensions and for ends of one of several tracks.
3. An abstract `Output` (who owns the output) implemented by `Conductor`.
4. Airings that fail inside `AlertCycle`; two clients of one key in `Desk`; rows
   that a refused `_persist` leaves behind.
