----------------------------- MODULE DiscordLog -----------------------------
(***************************************************************************)
(* The log of the station on Discord (discord_log.py): notices that are    *)
(* put in a queue and return at once, and the task that posts them to the  *)
(* webhooks, at the pace of a token bucket for each.  A unit of time is a  *)
(* part of the time a token takes; wording and colours are left out.       *)
(***************************************************************************)
EXTENDS Integers, Sequences, SequencesExt

CONSTANTS
  Hooks,      \* the webhooks that are enabled
  Options,    \* the switches that are on: "tests", "voice", "cycle", ...
  Events,     \* what the station reports: [kind, test, voice, failed]
  Rate,       \* rate_limit_per_minute, the tokens of a full bucket
  PerToken,   \* units of time in which a token is refilled
  RetryAfter, \* units of time of a Retry-After header
  MaxNotes    \* bound: notices in a behaviour

ReportKinds ==
  {"aired", "updated", "expired", "partial", "started", "rebuilt", "health", "decision", "dedupe",
   "audio", "feed", "mode", "stall", "tracker", "api", "error", "warning"}

ASSUME DiscordAssumption ==
  /\ \A e \in Events : e.kind \in ReportKinds
  /\ Hooks \subseteq {"alerts", "ops", "api", "errors"} /\ Hooks # {}
  /\ Rate \in Nat \ {0} /\ PerToken \in Nat \ {0} /\ RetryAfter \in Nat /\ MaxNotes \in Nat

VARIABLES
  notes,   \* _queue: [hook, no], no being the order in which they were put
  taken,   \* the notice that the task holds, or NoNote
  drain,   \* where the task is: "take", "wait", "post" or "refused"
  rest,    \* the time it still sleeps
  level,   \* _tokens of each bucket, in parts of a token
  made,    \* notices put so far
  posted,  \* history: the notices that each webhook got
  credit,  \* history: what a bucket that is charged for every post has left
  lost,    \* history: notices whose post failed
  swapped  \* history: a webhook got a notice after a later one

discordVars == <<notes, taken, drain, rest, level, made, posted, credit, lost, swapped>>

NoNote == [hook |-> "none", no |-> 0, again |-> FALSE]

Full == Rate * PerToken

DiscordInit ==
  /\ notes = <<>> /\ taken = NoNote /\ drain = "take" /\ rest = 0
  /\ level = [h \in Hooks |-> Full]
  /\ made = 0 /\ posted = [h \in Hooks |-> {}]
  /\ credit = [h \in Hooks |-> Full]
  /\ lost = {} /\ swapped = FALSE
-------------------------------------------------------------------------------
(* The webhook that a report goes to, if any: one operator for each        *)
(* method.                                                                 *)
To(hook, on) == IF hook \in Hooks /\ on THEN {hook} ELSE {}

AlertAired(e) == To("alerts", (e.test => "tests" \in Options) /\ (e.voice => "voice" \in Options))
AlertUpdated == To("alerts", "voice" \in Options)
AlertExpired == To("alerts", TRUE)
AlertPartialTerminal == To("alerts", "voice" \in Options)
ServiceStarted == To("ops", TRUE)
CycleRebuilt == To("ops", "cycle" \in Options)
SourceHealth == To("ops", "health" \in Options)
AlertDecision == To("ops", "detail" \in Options)
DedupeEvent == To("ops", "detail" \in Options)
AudioPipeline(e) == IF e.failed THEN To("errors", TRUE) ELSE To("ops", "detail" \in Options)
StationFeedUpdate == To("ops", "detail" \in Options)
ModeChanged == To("ops", TRUE)
NwwsStall == To("ops", TRUE)
TrackerLifecycle == To("ops", "tracker" \in Options)
ApiAction == To("api", TRUE)
LogError == To("errors", TRUE)
LogWarning == To("errors", TRUE)

HooksOf(e) ==
  CASE e.kind = "aired"    -> AlertAired(e)
    [] e.kind = "updated"  -> AlertUpdated
    [] e.kind = "expired"  -> AlertExpired
    [] e.kind = "partial"  -> AlertPartialTerminal
    [] e.kind = "started"  -> ServiceStarted
    [] e.kind = "rebuilt"  -> CycleRebuilt
    [] e.kind = "health"   -> SourceHealth
    [] e.kind = "decision" -> AlertDecision
    [] e.kind = "dedupe"   -> DedupeEvent
    [] e.kind = "audio"    -> AudioPipeline(e)
    [] e.kind = "feed"     -> StationFeedUpdate
    [] e.kind = "mode"     -> ModeChanged
    [] e.kind = "stall"    -> NwwsStall
    [] e.kind = "tracker"  -> TrackerLifecycle
    [] e.kind = "api"      -> ApiAction
    [] e.kind = "error"    -> LogError
    [] e.kind = "warning"  -> LogWarning

\* _enqueue
Enqueue(note) == notes' = Append(notes, note)

Report(e) ==
  /\ made < MaxNotes
  /\ \E h \in HooksOf(e) : Enqueue([hook |-> h, no |-> made + 1, again |-> FALSE])
  /\ made' = made + 1
  /\ UNCHANGED <<taken, drain, rest, level, posted, credit, lost, swapped>>
-------------------------------------------------------------------------------
(* The task, start().                                                      *)

\* consume(): a token if there is one, else the time until there is; what was
\* refilled is counted as time passes.
Consume(h) ==
  IF level[h] >= PerToken
    THEN level' = [level EXCEPT ![h] = @ - PerToken] /\ rest' = 0 /\ drain' = "post"
    ELSE UNCHANGED level /\ rest' = PerToken - level[h] /\ drain' = "wait"

TakeNote ==
  /\ drain = "take" /\ notes # <<>>
  /\ taken' = Head(notes) /\ notes' = Tail(notes)
  /\ Consume(Head(notes).hook)
  /\ UNCHANGED <<made, posted, credit, lost, swapped>>

\* The end of a sleep takes no token.
Slept ==
  /\ drain \in {"wait", "refused"} /\ rest = 0
  /\ drain' = (IF drain = "wait" THEN "post" ELSE "again")
  /\ UNCHANGED <<notes, taken, rest, level, made, posted, credit, lost, swapped>>

\* The webhook answers 200 or 204, 429, or anything else; or the post raises.
Post(answer) ==
  /\ drain = "post"
  /\ credit' = [credit EXCEPT ![taken.hook] = @ - PerToken]
  /\ CASE answer = "ok" ->
            /\ posted' = [posted EXCEPT ![taken.hook] = @ \cup {taken.no}]
            /\ swapped' = (swapped \/ (~taken.again /\ \E m \in posted[taken.hook] : m > taken.no))
            /\ drain' = "take" /\ taken' = NoNote /\ UNCHANGED <<rest, lost>>
       [] answer = "busy" ->
            /\ drain' = "refused" /\ rest' = RetryAfter
            /\ UNCHANGED <<taken, posted, lost, swapped>>
       [] answer = "fails" ->
            /\ lost' = lost \cup {taken.no}
            /\ drain' = "take" /\ taken' = NoNote /\ UNCHANGED <<rest, posted, swapped>>
  /\ UNCHANGED <<notes, level, made>>

\* Mutated form: a notice that was refused is not put again.
PostAgainForgotten ==
  /\ drain = "again"
  /\ drain' = "take" /\ taken' = NoNote
  /\ UNCHANGED <<notes, rest, level, made, posted, credit, lost, swapped>>

PostAgain ==
  /\ drain = "again"
  /\ Enqueue([taken EXCEPT !.again = TRUE])
  /\ drain' = "take" /\ taken' = NoNote
  /\ UNCHANGED <<rest, level, made, posted, credit, lost, swapped>>

Refilled(l) == IF l < Full THEN l + 1 ELSE l

\* A unit of time, which no post outlasts.
DiscordTick ==
  /\ drain \notin {"post", "again"} /\ (drain \in {"wait", "refused"} => rest > 0)
  /\ rest' = (IF rest > 0 THEN rest - 1 ELSE 0)
  /\ level' = [h \in Hooks |-> Refilled(level[h])]
  /\ credit' = [h \in Hooks |-> Refilled(credit[h])]
  /\ UNCHANGED <<notes, taken, drain, made, posted, lost, swapped>>

DiscordNext ==
  \/ \E e \in Events : Report(e)
  \/ TakeNote \/ Slept \/ \E answer \in {"ok", "busy", "fails"} : Post(answer)
  \/ PostAgain \/ DiscordTick

DiscordSpec == DiscordInit /\ [][DiscordNext]_discordVars
-------------------------------------------------------------------------------
(* Properties.                                                             *)

\* No notice is lost on the way, but for those whose post failed, none is
\* posted twice, and a webhook gets its notices in the order they were put,
\* but for those that it refused.
NotesAreKept ==
  LET waiting == {n.no : n \in Range(notes)}
      held == IF drain = "take" THEN {} ELSE {taken.no}
      got == UNION Range(posted)
  IN /\ waiting \cup held \cup got \cup lost = 1 .. made
     /\ (waiting \cup held) \cap got = {} /\ waiting \cap held = {}
     /\ ~swapped

\* A webhook gets no more notices than a full bucket has tokens and are
\* refilled since, as the class comment of the bucket says.
PacedAtRate == \A h \in Hooks : credit[h] >= 0
===============================================================================
