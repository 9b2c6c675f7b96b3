----------------------------- MODULE AlertAiring -----------------------------
(***************************************************************************)
(* From a received alert message to interrupt audio on the air.            *)
(*                                                                         *)
(* Four source runtimes (CAP, NWWS-OI, IPAWS, ERN) each consume a queue of *)
(* messages, one message at a time.  A runtime reserves dedupe keys shared *)
(* by all sources, submits one render-and-push job to the priority worker  *)
(* of broadcast/alert_audio_jobs.py, awaits it, and either commits or, on  *)
(* failure, releases its keys.  An exception that leaves a runtime ends    *)
(* the process (service_runtime.py waits with FIRST_EXCEPTION), and        *)
(* systemd starts a new one with an empty dedupe map.                      *)
(*                                                                         *)
(* asyncio runs a task until it awaits, so an action here is what a task   *)
(* does between two awaits that can suspend it.                            *)
(***************************************************************************)
EXTENDS AirKeys, Sequences

CONSTANTS
    Messages,        \* the messages the feeds may deliver
    Ttl,             \* dedupe.ttl_seconds
    Cooldown,        \* [Sources -> Nat]: cooldown_seconds of the runtimes
    MaxDeliveries,   \* bound: deliveries of one message
    MaxTime,         \* bound: the clock
    MaxLives,        \* bound: process starts
    NoMessage        \* a runtime that handles nothing

ASSUME TtlAssumption == Ttl \in Nat
ASSUME CooldownAssumption == Cooldown \in [Sources -> Nat]
ASSUME BoundsAssumption == MaxDeliveries \in Nat /\ MaxTime \in Nat /\ MaxLives \in Nat
ASSUME MessagesAssumption ==
    /\ NoMessage \notin Messages
    /\ \A m \in Messages : m.src \in Sources
    /\ \A m \in Messages : m.src \in {"IPAWS", "ERN"} => m.vtec = {}

FullPriority == 0
VoicePriority == 10

Priority(m) == IF IsFull(m) THEN FullPriority ELSE VoicePriority

VARIABLES
    clock,      \* wall-clock time
    up,         \* the process runs
    life,       \* how many times it was started
    sent,       \* [Messages -> Nat]: deliveries so far
    inbox,      \* [Sources -> Seq(Messages)]: cap_queue, nwws_queue, ...
    rt,         \* [Sources -> runtime state]: what each runtime awaits
    recent,     \* _recent_air_keys: a function from reserved keys to times
    lastAired,    \* [Sources -> set of <<message, time>>]: the cooldown marks
    jobs,       \* the dispatcher's priority queue
    seq,        \* its sequence counter
    worker,     \* the set of jobs being rendered: at most one
    airings,    \* history: what was pushed to Liquidsoap
    failed      \* history: messages whose render, preparation or push failed

vars == <<clock, up, life, sent, inbox, rt, recent, lastAired, jobs, seq, worker, airings, failed>>

Stages == {"idle", "preparing", "waiting", "aired", "failed"}

IdleRuntime == [stage |-> "idle", msg |-> NoMessage, since |-> 0]

Runtimes == [stage : Stages, msg : Messages \cup {NoMessage}, since : Nat]

Jobs == [prio : {FullPriority, VoicePriority}, seq : Nat, src : Sources]

Airings == [msg : Messages, since : Nat, life : Nat, seq : Nat]

(* State of each variable; the reservation map has any keys.               *)
TypeOK ==
    /\ clock \in Nat
    /\ up \in BOOLEAN
    /\ life \in Nat
    /\ sent \in [Messages -> Nat]
    /\ inbox \in [Sources -> Seq(Messages)]
    /\ rt \in [Sources -> Runtimes]
    /\ recent \in [DOMAIN recent -> Nat]
    /\ lastAired \in [Sources -> SUBSET (Messages \X Nat)]
    /\ jobs \subseteq Jobs
    /\ seq \in Nat
    /\ worker \subseteq Jobs
    /\ airings \subseteq Airings
    /\ failed \subseteq Messages

-----------------------------------------------------------------------------
(* Helpers *)

Busy(s) == rt[s].stage # "idle"

(* A reservation is in use until its runtime has committed or aborted.     *)
Holds(s, k) == Busy(s) /\ k \in Keys(rt[s].msg)

(* Mutated form: a reservation expires one unit early. *)
LiveKeysEarly == {k \in DOMAIN recent : clock - recent[k] < Ttl}

(* What _dedupe_prune leaves in the map. *)
LiveKeys == {k \in DOMAIN recent : clock - recent[k] <= Ttl}

Pruned == [k \in LiveKeys |-> recent[k]]

(* CAP and IPAWS count a cooldown per message, ERN one for any message.    *)
CoolingDown(s, m) ==
    \E c \in lastAired[s] : /\ s = "ERN" \/ c[1] = m
                            /\ clock - c[2] < Cooldown[s]

Starts(s, m) == /\ up
                /\ ~Busy(s)
                /\ inbox[s] # <<>>
                /\ m = Head(inbox[s])

NewJob(s, m) == [prio |-> Priority(m), seq |-> seq, src |-> s]

(* PriorityQueue order: the priority, then the sequence number. *)
Precedes(i, j) == i.prio < j.prio \/ (i.prio = j.prio /\ i.seq < j.seq)

(* The process dies: every task, queue and map is gone. *)
LoseMemory ==
    /\ up' = FALSE
    /\ inbox' = [s \in Sources |-> <<>>]
    /\ rt' = [s \in Sources |-> IdleRuntime]
    /\ recent' = <<>>
    /\ lastAired' = [s \in Sources |-> {}]
    /\ jobs' = {}
    /\ seq' = 0
    /\ worker' = {}

-----------------------------------------------------------------------------
Init ==
    /\ clock = 0
    /\ up = TRUE
    /\ life = 1
    /\ sent = [m \in Messages |-> 0]
    /\ inbox = [s \in Sources |-> <<>>]
    /\ rt = [s \in Sources |-> IdleRuntime]
    /\ recent = <<>>
    /\ lastAired = [s \in Sources |-> {}]
    /\ jobs = {}
    /\ seq = 0
    /\ worker = {}
    /\ airings = {}
    /\ failed = {}

(* A feed delivers m: for the first time, or again (NWWS-OI room history   *)
(* on a rejoin, a CAP poll after a restart, a repeated ERN header).        *)
Receive(m) ==
    /\ up
    /\ sent[m] < MaxDeliveries
    /\ sent' = [sent EXCEPT ![m] = @ + 1]
    /\ inbox' = [inbox EXCEPT ![m.src] = Append(@, m)]
    /\ UNCHANGED <<clock, up, life, rt, recent, lastAired, jobs, seq, worker, airings, failed>>

(* The runtime takes a message that policy or a cooldown keeps off the air. *)
Discard(s, m) ==
    /\ Starts(s, m)
    /\ Route(m) = "skip" \/ CoolingDown(s, m)
    /\ inbox' = [inbox EXCEPT ![s] = Tail(@)]
    /\ UNCHANGED <<clock, up, life, sent, rt, recent, lastAired, jobs, seq, worker, airings, failed>>

(* _dedupe_reserve finds one of the keys: the message is dropped. *)
SkipDuplicate(s, m) ==
    /\ Starts(s, m)
    /\ Route(m) # "skip" /\ ~CoolingDown(s, m)
    /\ Keys(m) \cap LiveKeys # {}
    /\ recent' = Pruned
    /\ inbox' = [inbox EXCEPT ![s] = Tail(@)]
    /\ UNCHANGED <<clock, up, life, sent, rt, lastAired, jobs, seq, worker, airings, failed>>

(* _dedupe_reserve takes all the keys.  CAP and IPAWS submit their job     *)
(* without giving up control; NWWS and ERN first await area names.         *)
Reserve(s, m) ==
    /\ Starts(s, m)
    /\ Route(m) # "skip" /\ ~CoolingDown(s, m)
    /\ Keys(m) \cap LiveKeys = {}
    /\ recent' = [k \in LiveKeys \cup Keys(m) |-> IF k \in Keys(m) THEN clock ELSE recent[k]]
    /\ inbox' = [inbox EXCEPT ![s] = Tail(@)]
    /\ \/ /\ s \in {"CAP", "IPAWS"}
          /\ rt' = [rt EXCEPT ![s] = [stage |-> "waiting", msg |-> m, since |-> clock]]
          /\ jobs' = jobs \cup {NewJob(s, m)}
          /\ seq' = seq + 1
       \/ /\ s \in {"NWWS", "ERN"}
          /\ rt' = [rt EXCEPT ![s] = [stage |-> "preparing", msg |-> m, since |-> clock]]
          /\ UNCHANGED <<jobs, seq>>
    /\ UNCHANGED <<clock, up, life, sent, lastAired, worker, airings, failed>>

(* The area names are there: the job is queued. *)
Submit(s) ==
    /\ rt[s].stage = "preparing"
    /\ rt' = [rt EXCEPT ![s].stage = "waiting"]
    /\ jobs' = jobs \cup {NewJob(s, rt[s].msg)}
    /\ seq' = seq + 1
    /\ UNCHANGED <<clock, up, life, sent, inbox, recent, lastAired, worker, airings, failed>>

(* Building the script raises before the job is queued. *)
PrepareFails(s) ==
    /\ rt[s].stage = "preparing"
    /\ rt' = [rt EXCEPT ![s].stage = "failed"]
    /\ failed' = failed \cup {rt[s].msg}
    /\ UNCHANGED <<clock, up, life, sent, inbox, recent, lastAired, jobs, seq, worker, airings>>

(* The worker takes the first job and starts rendering it. *)
StartJob(j) ==
    /\ worker = {}
    /\ j \in jobs
    /\ \A i \in jobs \ {j} : Precedes(j, i)
    /\ jobs' = jobs \ {j}
    /\ worker' = {j}
    /\ UNCHANGED <<clock, up, life, sent, inbox, rt, recent, lastAired, seq, airings, failed>>

(* The render is done and the push returns; the runtime's future is set.   *)
FinishJob(j) ==
    /\ j \in worker
    /\ worker' = {}
    /\ rt' = [rt EXCEPT ![j.src].stage = "aired"]
    /\ airings' = airings \cup
           {[msg |-> rt[j.src].msg, since |-> rt[j.src].since, life |-> life, seq |-> j.seq]}
    /\ UNCHANGED <<clock, up, life, sent, inbox, recent, lastAired, jobs, seq, failed>>

(* Render or push raises; the exception is set on the future and the       *)
(* worker goes on.                                                         *)
FailJob(j) ==
    /\ j \in worker
    /\ worker' = {}
    /\ rt' = [rt EXCEPT ![j.src].stage = "failed"]
    /\ failed' = failed \cup {rt[j.src].msg}
    /\ UNCHANGED <<clock, up, life, sent, inbox, recent, lastAired, jobs, seq, airings>>

(* The airings that start a cooldown: any of ERN, a full or voice one of   *)
(* CAP (not an update), a full one of IPAWS.                               *)
MarksCooldown(s, m) ==
    \/ s = "ERN"
    \/ s = "CAP" /\ Route(m) \in {"full", "voice"}
    \/ s = "IPAWS" /\ IsFull(m)

(* The runtime resumes with the audio aired: it marks its cooldown with    *)
(* the time it read before it reserved, and takes the next message.        *)
Commit(s) ==
    /\ rt[s].stage = "aired"
    /\ rt' = [rt EXCEPT ![s] = IdleRuntime]
    /\ lastAired' = IF MarksCooldown(s, rt[s].msg)
                    THEN [lastAired EXCEPT ![s] = {c \in @ : s # "ERN" /\ c[1] # rt[s].msg}
                                                    \cup {<<rt[s].msg, rt[s].since>>}]
                    ELSE lastAired
    /\ UNCHANGED <<clock, up, life, sent, inbox, recent, jobs, seq, worker, airings, failed>>

(* The runtimes whose loop catches the exception: IPAWS, and NWWS when it  *)
(* handles a Marine Weather Statement.                                     *)
Survives(s) == s = "IPAWS" \/ (s = "NWWS" /\ rt[s].msg.ptype = "MWS")

(* Mutated form: the exception is handled but the keys stay. *)
AbortKeepingKeys(s) ==
    /\ rt[s].stage = "failed"
    /\ Survives(s)
    /\ rt' = [rt EXCEPT ![s] = IdleRuntime]
    /\ UNCHANGED <<clock, up, life, sent, inbox, recent, lastAired, jobs, seq, worker, airings, failed>>

(* The runtime resumes with an exception, releases its keys and goes on.   *)
Abort(s) ==
    /\ rt[s].stage = "failed"
    /\ Survives(s)
    /\ recent' = [k \in DOMAIN recent \ Keys(rt[s].msg) |-> recent[k]]
    /\ rt' = [rt EXCEPT ![s] = IdleRuntime]
    /\ UNCHANGED <<clock, up, life, sent, inbox, lastAired, jobs, seq, worker, airings, failed>>

(* The exception leaves the runtime: the supervisor cancels all tasks.     *)
Die(s) ==
    /\ rt[s].stage = "failed"
    /\ ~Survives(s)
    /\ LoseMemory
    /\ UNCHANGED <<clock, life, sent, airings, failed>>

(* The process is killed or the machine stops. *)
Crash ==
    /\ up
    /\ LoseMemory
    /\ UNCHANGED <<clock, life, sent, airings, failed>>

(* systemd starts the service again. *)
Restart ==
    /\ ~up
    /\ life < MaxLives
    /\ up' = TRUE
    /\ life' = life + 1
    /\ UNCHANGED <<clock, sent, inbox, rt, recent, lastAired, jobs, seq, worker, airings, failed>>

(* Time passes.  Assumed: an attempt is over before its reservation        *)
(* expires (ttl_seconds is 900, a render takes seconds).                   *)
Tick ==
    /\ clock < MaxTime
    /\ \A s \in Sources : Busy(s) => clock - rt[s].since < Ttl
    /\ clock' = clock + 1
    /\ UNCHANGED <<up, life, sent, inbox, rt, recent, lastAired, jobs, seq, worker, airings, failed>>

Handle(s) == \E m \in Messages : Discard(s, m) \/ SkipDuplicate(s, m) \/ Reserve(s, m)

(* Mutated form: the worker never passes an exception on. *)
ResumeOnSuccess(s) == Commit(s)

Resume(s) == Commit(s) \/ Abort(s) \/ Die(s)

Work == \E j \in jobs : StartJob(j)

Complete == \E j \in worker : FinishJob(j) \/ FailJob(j)

Next ==
    \/ \E m \in Messages : Receive(m)
    \/ \E s \in Sources : Handle(s) \/ Submit(s) \/ PrepareFails(s) \/ Resume(s)
    \/ Work
    \/ Complete
    \/ Crash
    \/ Restart
    \/ Tick

(* asyncio runs every ready task, and a render or an area lookup ends.     *)
(* Nothing is assumed of the feeds, of crashes, or of what a render does.  *)
Fairness ==
    /\ \A s \in Sources : WF_vars(Handle(s)) /\ WF_vars(Submit(s) \/ PrepareFails(s)) /\ WF_vars(Resume(s))
    /\ WF_vars(Work)
    /\ WF_vars(Complete)

Spec == Init /\ [][Next]_vars

FairSpec == Spec /\ Fairness

-----------------------------------------------------------------------------
(* Properties *)

(* The dedupe map never blocks an alert for nothing: every key in it was   *)
(* reserved by an attempt that still runs, or by one that aired in this    *)
(* process (main.py: "If we later fail to air, caller should release").    *)
ReservationsAccounted ==
    \A k \in DOMAIN recent :
        \/ \E s \in Sources : Holds(s, k) /\ rt[s].since = recent[k]
        \/ \E a \in airings : /\ a.life = life
                              /\ k \in Keys(a.msg)
                              /\ a.since = recent[k]

(* From reservation to commit a runtime keeps its keys, and no other       *)
(* runtime works on an alert that needs one of them, whatever is skipped,  *)
(* failed, released or pruned in the meantime.                             *)
AttemptsExclusive ==
    \A s \in Sources : Busy(s) =>
        /\ \A k \in Keys(rt[s].msg) : k \in DOMAIN recent /\ recent[k] = rt[s].since
        /\ \A t \in Sources \ {s} : \A k \in Keys(rt[s].msg) : ~Holds(t, k)

(* The same alert (a lifecycle action of a VTEC track, or an event and its *)
(* area) is not toned out twice by one process within the dedupe window,   *)
(* whichever sources carry it (cap_runtime.py: "prevents CAP vs NWWS       *)
(* double-air for the same lifecycle action").                             *)
NoDoubleTone ==
    \A a, b \in airings :
        (a # b /\ a.life = b.life /\ IsFull(a.msg) /\ IsFull(b.msg) /\ SameAlert(a.msg, b.msg))
            => \/ a.since - b.since > Ttl
               \/ b.since - a.since > Ttl

(* An action property: dropping a VTEC tone-out as a duplicate is only     *)
(* right when each of its lifecycle actions is being toned out by another  *)
(* attempt, or was toned out within the dedupe window.                     *)
BeingToned(act) ==
    \/ \E s \in Sources : Busy(s) /\ IsFull(rt[s].msg) /\ act \in Actions(rt[s].msg)
    \/ \E a \in airings : /\ IsFull(a.msg) /\ a.life = life /\ clock - a.since <= Ttl
                          /\ act \in Actions(a.msg)

DuplicateIsCovered ==
    [][\A s \in Sources : \A m \in Messages :
          (SkipDuplicate(s, m) /\ IsFull(m) /\ m.vtec # {})
              => \A act \in Actions(m) : BeingToned(act)]_vars

(* The same for the messages routed to voice: one that is dropped has each *)
(* of its lifecycle actions on the air from another message.               *)
BeingAired(act) ==
    \/ \E s \in Sources : Busy(s) /\ act \in Actions(rt[s].msg)
    \/ \E a \in airings : a.life = life /\ clock - a.since <= Ttl /\ act \in Actions(a.msg)

UpdateIsCovered ==
    [][\A s \in Sources : \A m \in Messages :
          (SkipDuplicate(s, m) /\ m.vtec # {})
              => \A act \in Actions(m) : BeingAired(act)]_vars

(* A VTEC lifecycle action is not read out twice by one process within the *)
(* dedupe window, in full or as voice.                                     *)
NoDoubleAir ==
    \A a, b \in airings :
        (a # b /\ a.life = b.life /\ a.msg.vtec # {} /\ SameAlert(a.msg, b.msg))
            => \/ a.since - b.since > Ttl
               \/ b.since - a.since > Ttl

(* The promise of AirOnce, kept with a map from keys to times: a claim is  *)
(* an attempt that has not aired, from its reservation on, and messages    *)
(* share something when they need a common key.                            *)
SharedPairs == {p \in Messages \X Messages : Keys(p[1]) \cap Keys(p[2]) # {}}

ClaimOf(s) == [by |-> s, msg |-> rt[s].msg, since |-> rt[s].since]

Claims == {ClaimOf(s) : s \in {t \in Sources : Busy(t) /\ rt[t].stage # "aired"}}

Aired == {[msg |-> a.msg, since |-> a.since, life |-> a.life] : a \in airings}

Promise == INSTANCE AirOnce
             WITH Claimant <- Sources, Message <- Messages, Shared <- SharedPairs, Window <- Ttl,
                  now <- clock, process <- life, claims <- Claims, aired <- Aired

(* Refinement: whatever is queued, skipped, rendered, failed, released,    *)
(* pruned or restarted, a message is taken up only when nothing that needs *)
(* one of its keys is being worked on or was aired within the TTL, and a   *)
(* failed attempt leaves nothing behind (main.py: "Reserve dedupe keys      *)
(* *before* airing to avoid races").                                       *)
AirsOnce == Promise!Spec

(* Liveness: a VTEC tone-out that is queued is toned out by some source    *)
(* in this process, unless an attempt at the same alert failed or the      *)
(* process died.                                                           *)
Queued(m) == \E i \in 1 .. Len(inbox[m.src]) : inbox[m.src][i] = m

Heard(m) == \E a \in airings : IsFull(a.msg) /\ a.life = life /\ SameAlert(a.msg, m)

ToneoutHeard ==
    \A m \in Messages : (IsFull(m) /\ m.vtec # {}) =>
        (Queued(m) ~> (Heard(m) \/ ~up \/ \E n \in failed : SameAlert(n, m)))

=============================================================================
