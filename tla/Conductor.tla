----------------------------- MODULE Conductor -----------------------------
(***************************************************************************)
(* The routine broadcast cycle and the interrupts that suspend it:         *)
(* broadcast/conductor.py, the admission of interrupt audio in main.py     *)
(* (_push_interrupt_audio) and the three request queues of                 *)
(* liquidsoap/radio.liq.                                                   *)
(*                                                                         *)
(* Time is counted in units, and deadlines as the time left to them.  A    *)
(* cycle segment lasts one unit.  The conductor's estimate of what is      *)
(* buffered is max(0, balance), with balance the pushed duration less the  *)
(* time since _push_start_ts; the queue itself is cycleQ.                  *)
(*                                                                         *)
(* Telnet calls block the event loop, so the admission of an interrupt and *)
(* the push of a cached segment are single steps; only the live time       *)
(* announcement, rendered in an executor, spans two.  Other tasks run only *)
(* while the conductor's task is suspended.                                *)
(***************************************************************************)
EXTENDS Integers, Sequences

CONSTANTS
    Lookahead,        \* _LOOKAHEAD_S
    TickLength,       \* _TICK_S
    StatusPoll,       \* _INTERRUPT_STATUS_POLL_S
    Rotation,         \* _cycle_order: a sequence of segment keys
    TimeBufs,         \* _TIME_BUF_COUNT
    RenderTime,       \* bound: units a live time announcement takes to render
    Durations,        \* durations of interrupt audio
    GuessedHold,      \* the hold for audio whose length cannot be read (60 s)
    Unreadable,       \* the length of the audio may be unreadable
    MaxInterrupts,    \* bound: interrupts admitted
    MaxDirect,        \* bound: API pushes that queue after the current alert
    MaxRefills,       \* bound: refills and wake-ups requested without a queue reset
    MaxLag,           \* bound: how far the balance falls below zero
    StatusKnown,      \* radio.liq has the interrupt status command
    AlwaysReady,      \* every segment of the rotation is ready to be pushed
    Faulty            \* telnet calls may fail

ASSUME LookaheadAssumption == Lookahead \in Nat \ {0}
ASSUME TimingAssumption == /\ TickLength \in Nat \ {0}
                           /\ StatusPoll \in Nat \ {0}
                           /\ GuessedHold \in Nat \ {0}
                           /\ RenderTime \in Nat
ASSUME RotationAssumption ==
    /\ Rotation \in Seq(STRING)
    /\ \E i \in 1 .. Len(Rotation) : Rotation[i] = "time"
ASSUME TimeBufsAssumption == TimeBufs \in Nat \ {0}
ASSUME DurationsAssumption == Durations \subseteq Nat \ {0}
ASSUME LimitsAssumption == /\ MaxInterrupts \in Nat /\ MaxDirect \in Nat
                           /\ MaxRefills \in Nat /\ MaxLag \in Nat
ASSUME SwitchesAssumption == /\ StatusKnown \in BOOLEAN
                             /\ AlwaysReady \in BOOLEAN /\ Faulty \in BOOLEAN
                             /\ Unreadable \in BOOLEAN

VARIABLES
    cycleQ,     \* Liquidsoap's cycle queue, the current segment first
    fullLeft,   \* units of audio on the full alert plane
    voiceLeft,  \* units of audio on the voice alert plane
    hold,       \* _interrupt_hold
    holdLeft,   \* time left to _interrupt_expected_end
    balance,    \* _total_pushed_s less the time since _push_start_ts
    position,   \* _position_in_rotation, from 1
    buf,        \* _time_buf_idx
    flush,      \* _flush_event
    phase,      \* where the conductor's task is
    left,       \* time left to the end of its sleep or render
    admitted, direct, refills,   \* counters for the bounds
    restarted,  \* history: accounts started over the queue since its last reset
    unread      \* history: interrupts of this hold whose length was guessed

vars == <<cycleQ, fullLeft, voiceLeft, hold, holdLeft, balance, position, buf, flush, phase, left,
          admitted, direct, refills, restarted, unread>>

conductorVars == <<cycleQ, hold, holdLeft, balance, position, buf, flush, phase, left>>

Phases == {"top", "pushing", "rendering", "nap", "asleep", "holding"}

Keys == {Rotation[i] : i \in 1 .. Len(Rotation)}

(* buffer 0 is the audio of a cached segment *)
Segments == [key : Keys, buf : 0 .. TimeBufs]

TypeOK ==
    /\ cycleQ \in Seq(Segments)
    /\ fullLeft \in Nat
    /\ voiceLeft \in Nat
    /\ hold \in BOOLEAN
    /\ holdLeft \in Nat
    /\ balance \in Int
    /\ position \in 1 .. Len(Rotation)
    /\ buf \in 1 .. TimeBufs
    /\ flush \in BOOLEAN
    /\ phase \in Phases
    /\ left \in Nat
    /\ admitted \in Nat /\ direct \in Nat /\ refills \in Nat
    /\ restarted \in Nat /\ unread \in Nat

-----------------------------------------------------------------------------
(* Helpers *)

Interrupting == fullLeft + voiceLeft > 0

Remaining == IF balance > 0 THEN balance ELSE 0

Following(i) == IF i = Len(Rotation) THEN 1 ELSE i + 1

(* Mutated form: the audio that was thrown away still counts. *)
NotifyFlushUncounted ==
    /\ UNCHANGED balance
    /\ position' = 1
    /\ flush' = TRUE

(* notify_flush: the accounting starts again, the queue itself is not      *)
(* touched.                                                                *)
NotifyFlush ==
    /\ balance' = 0
    /\ position' = 1
    /\ flush' = TRUE

(* The pass of the push loop is over: clear the event, wait for it or for  *)
(* the tick.                                                               *)
GoToSleep ==
    /\ flush' = FALSE
    /\ phase' = "asleep"
    /\ left' = TickLength

(* Nothing was pushed: a second's sleep comes before.                      *)
TakeNap ==
    /\ phase' = "nap"
    /\ left' = 1

-----------------------------------------------------------------------------
Init ==
    /\ cycleQ = <<>>
    /\ fullLeft = 0 /\ voiceLeft = 0
    /\ hold = FALSE /\ holdLeft = 0
    /\ balance = 0
    /\ position = 1
    /\ buf = 1
    /\ flush = FALSE
    /\ phase = "top" /\ left = 0
    /\ admitted = 0 /\ direct = 0 /\ refills = 0
    /\ restarted = 0 /\ unread = 0

(* The conductor's task *)

StartPushing ==
    /\ phase = "top" /\ ~hold
    /\ phase' = "pushing"
    /\ UNCHANGED <<cycleQ, fullLeft, voiceLeft, hold, holdLeft, balance, position, buf, flush, left,
                   admitted, direct, refills, restarted, unread>>

(* Mutated form: a full queue takes one more. *)
MayPushOneMore == phase = "pushing" /\ ~hold /\ Remaining <= Lookahead

MayPush == phase = "pushing" /\ ~hold /\ Remaining < Lookahead

(* A cached segment, an alert's segment or an insert goes to the queue.    *)
PushSegment ==
    /\ MayPush
    /\ Rotation[position] # "time"
    /\ cycleQ' = Append(cycleQ, [key |-> Rotation[position], buf |-> 0])
    /\ balance' = balance + 1
    /\ position' = Following(position)
    /\ UNCHANGED <<fullLeft, voiceLeft, hold, holdLeft, buf, flush, phase, left,
                   admitted, direct, refills, restarted, unread>>

(* It is a placeholder, its audio is missing, or the push fails. *)
SkipSegment ==
    /\ MayPush
    /\ Rotation[position] # "time"
    /\ ~AlwaysReady \/ Faulty
    /\ position' = Following(position)
    /\ TakeNap
    /\ UNCHANGED <<cycleQ, fullLeft, voiceLeft, hold, holdLeft, balance, buf, flush,
                   admitted, direct, refills, restarted, unread>>

(* The live time announcement takes the next buffer and renders.           *)
StartTime ==
    /\ MayPush
    /\ Rotation[position] = "time"
    /\ position' = Following(position)
    /\ buf' = IF buf = TimeBufs THEN 1 ELSE buf + 1
    /\ phase' = "rendering"
    /\ left' = RenderTime
    /\ UNCHANGED <<cycleQ, fullLeft, voiceLeft, hold, holdLeft, balance, flush,
                   admitted, direct, refills, restarted, unread>>

RenderedBuf == IF buf = 1 THEN TimeBufs ELSE buf - 1

(* Mutated form: the hold is not looked at again after the render. *)
PushTimeUnchecked ==
    /\ phase = "rendering"
    /\ cycleQ' = Append(cycleQ, [key |-> "time", buf |-> RenderedBuf])
    /\ balance' = balance + 1
    /\ phase' = "pushing"
    /\ UNCHANGED <<fullLeft, voiceLeft, hold, holdLeft, position, buf, flush, left,
                   admitted, direct, refills, restarted, unread>>

(* It is rendered, no interrupt came meanwhile, and it goes to the queue. *)
PushTime ==
    /\ phase = "rendering" /\ ~hold
    /\ cycleQ' = Append(cycleQ, [key |-> "time", buf |-> RenderedBuf])
    /\ balance' = balance + 1
    /\ phase' = "pushing"
    /\ UNCHANGED <<fullLeft, voiceLeft, hold, holdLeft, position, buf, flush, left,
                   admitted, direct, refills, restarted, unread>>

(* An interrupt came while it rendered, or rendering or pushing failed.    *)
DiscardTime ==
    /\ phase = "rendering"
    /\ hold \/ Faulty
    /\ TakeNap
    /\ UNCHANGED <<cycleQ, fullLeft, voiceLeft, hold, holdLeft, balance, position, buf, flush,
                   admitted, direct, refills, restarted, unread>>

FinishPass ==
    /\ \/ phase = "pushing" /\ (hold \/ Remaining >= Lookahead)
       \/ phase = "nap" /\ left = 0
    /\ GoToSleep
    /\ UNCHANGED <<cycleQ, fullLeft, voiceLeft, hold, holdLeft, balance, position, buf,
                   admitted, direct, refills, restarted, unread>>

(* Mutated form: the wait for the expected end has no timeout. *)
WakeUpOnFlushOnly ==
    /\ \/ phase = "asleep" /\ (flush \/ left = 0)
       \/ phase = "holding" /\ flush
    /\ phase' = "top"
    /\ UNCHANGED <<cycleQ, fullLeft, voiceLeft, hold, holdLeft, balance, position, buf, flush, left,
                   admitted, direct, refills, restarted, unread>>

WakeUp ==
    /\ \/ phase = "asleep" /\ (flush \/ left = 0)
       \/ phase = "holding" /\ (flush \/ holdLeft = 0)
    /\ phase' = "top"
    /\ UNCHANGED <<cycleQ, fullLeft, voiceLeft, hold, holdLeft, balance, position, buf, flush, left,
                   admitted, direct, refills, restarted, unread>>

(* _wait_for_interrupt_end before the expected end. *)
WaitForEnd ==
    /\ phase = "top" /\ hold
    /\ holdLeft > 0
    /\ flush' = FALSE
    /\ phase' = "holding"
    /\ UNCHANGED <<cycleQ, fullLeft, voiceLeft, hold, holdLeft, balance, position, buf, left,
                   admitted, direct, refills, restarted, unread>>

(* The expected end is over but Liquidsoap still has interrupt audio, or   *)
(* does not answer.                                                        *)
KeepHolding ==
    /\ phase = "top" /\ hold
    /\ holdLeft = 0
    /\ StatusKnown /\ (Interrupting \/ Faulty)
    /\ holdLeft' = StatusPoll
    /\ UNCHANGED <<cycleQ, fullLeft, voiceLeft, hold, balance, position, buf, flush, phase, left,
                   admitted, direct, refills, restarted, unread>>

(* Both alert planes are idle (or there is no way to know): the cycle is   *)
(* reset once more and pushed from the start.                              *)
Release ==
    /\ phase = "top" /\ hold
    /\ holdLeft = 0
    /\ StatusKnown => ~Interrupting
    /\ hold' = FALSE
    /\ \/ cycleQ' = <<>> /\ restarted' = 0
       \/ Faulty /\ UNCHANGED cycleQ /\ restarted' = restarted + 1
    /\ unread' = 0
    /\ NotifyFlush
    /\ UNCHANGED <<fullLeft, voiceLeft, holdLeft, buf, phase, left, admitted, direct, refills>>

-----------------------------------------------------------------------------
(* Other tasks *)

Suspended == phase \in {"rendering", "nap", "asleep", "holding"}

QueueAudio(d) ==
    \/ fullLeft' = fullLeft + d /\ UNCHANGED voiceLeft
    \/ voiceLeft' = voiceLeft + d /\ UNCHANGED fullLeft

(* Mutated form: every interrupt adds a status poll. *)
HoldForPadded(d) == holdLeft' = holdLeft + d + StatusPoll

(* notify_interrupt_started: durations add up. *)
HoldFor(d) == holdLeft' = holdLeft + d

(* wav_duration_seconds, and the conservative hold where it fails.         *)
MeasuredAs(d, read) == IF read THEN d ELSE GuessedHold

(* Mutated form: the conductor is held but the queued cycle stays. *)
AdmitWithoutReset(d, read) ==
    /\ Suspended /\ admitted < MaxInterrupts
    /\ read \/ Unreadable
    /\ admitted' = admitted + 1
    /\ QueueAudio(d)
    /\ hold' = TRUE
    /\ HoldFor(MeasuredAs(d, read))
    /\ unread' = IF read THEN unread ELSE unread + 1
    /\ NotifyFlush
    /\ UNCHANGED <<cycleQ, restarted, buf, phase, left, direct, refills>>

(* _push_interrupt_audio: the audio is admitted, the cycle queue is reset, *)
(* the conductor is held.                                                  *)
Admit(d, read) ==
    /\ Suspended /\ admitted < MaxInterrupts
    /\ read \/ Unreadable
    /\ admitted' = admitted + 1
    /\ QueueAudio(d)
    /\ cycleQ' = <<>> /\ restarted' = 0
    /\ hold' = TRUE
    /\ HoldFor(MeasuredAs(d, read))
    /\ unread' = IF read THEN unread ELSE unread + 1
    /\ NotifyFlush
    /\ UNCHANGED <<buf, phase, left, direct, refills>>

(* It is admitted, but the reset fails: the conductor is not held. *)
AdmitUnprotected(d) ==
    /\ Faulty
    /\ Suspended /\ admitted < MaxInterrupts
    /\ admitted' = admitted + 1
    /\ QueueAudio(d)
    /\ UNCHANGED <<conductorVars, direct, refills, restarted, unread>>

(* The push fails: the conductor is only woken up. *)
AdmitFails ==
    /\ Faulty
    /\ Suspended /\ admitted < MaxInterrupts
    /\ admitted' = admitted + 1
    /\ balance' = 0 /\ restarted' = restarted + 1
    /\ flush' = TRUE
    /\ UNCHANGED <<cycleQ, fullLeft, voiceLeft, hold, holdLeft, position, buf, phase, left,
                   direct, refills, unread>>

(* An API origination that queues after the current alert pushes to the    *)
(* alert plane directly, then asks for a refill (control.py).              *)
PushDirect(d) ==
    /\ Suspended /\ direct < MaxDirect
    /\ direct' = direct + 1
    /\ QueueAudio(d)
    /\ NotifyFlush /\ restarted' = restarted + 1
    /\ UNCHANGED <<cycleQ, hold, holdLeft, buf, phase, left, admitted, refills, unread>>

(* A refill that follows a change of state elsewhere: the alert tracker,   *)
(* the mode, the health state, a reloaded configuration.                   *)
Refill ==
    /\ Suspended /\ refills < MaxRefills
    /\ refills' = refills + 1
    /\ NotifyFlush /\ restarted' = restarted + 1
    /\ UNCHANGED <<cycleQ, fullLeft, voiceLeft, hold, holdLeft, buf, phase, left,
                   admitted, direct, unread>>

(* New inserts only wake the conductor up (notify_inserts_changed). *)
InsertsChanged ==
    /\ Suspended /\ refills < MaxRefills
    /\ refills' = refills + 1
    /\ flush' = TRUE
    /\ UNCHANGED <<cycleQ, fullLeft, voiceLeft, hold, holdLeft, balance, position, buf, phase, left,
                   admitted, direct, restarted, unread>>

-----------------------------------------------------------------------------
(* Liquidsoap plays: full alerts, else voice alerts, else the cycle.       *)
Play ==
    IF fullLeft > 0 THEN fullLeft' = fullLeft - 1 /\ UNCHANGED <<voiceLeft, cycleQ>>
    ELSE IF voiceLeft > 0 THEN voiceLeft' = voiceLeft - 1 /\ UNCHANGED <<fullLeft, cycleQ>>
    ELSE /\ cycleQ' = IF cycleQ = <<>> THEN <<>> ELSE Tail(cycleQ)
         /\ UNCHANGED <<fullLeft, voiceLeft>>

CountDown(n) == IF n > 0 THEN n - 1 ELSE 0

(* The conductor's task waits for time to pass, or for a render.           *)
Waiting ==
    \/ phase \in {"nap", "rendering"} /\ left > 0
    \/ phase = "asleep" /\ ~flush /\ left > 0
    \/ phase = "holding" /\ ~flush /\ holdLeft > 0

(* A unit of time is long compared to what a ready task takes.             *)
Tick ==
    /\ Waiting
    /\ Play
    /\ holdLeft' = CountDown(holdLeft)
    /\ left' = CountDown(left)
    /\ balance' = IF balance > -MaxLag THEN balance - 1 ELSE balance
    /\ UNCHANGED <<hold, position, buf, flush, phase, admitted, direct, refills, restarted, unread>>

ConductorStep ==
    \/ StartPushing \/ PushSegment \/ SkipSegment \/ StartTime \/ PushTime \/ DiscardTime
    \/ FinishPass \/ WakeUp \/ WaitForEnd \/ KeepHolding \/ Release

Request ==
    \/ \E d \in Durations :
          (\E read \in BOOLEAN : Admit(d, read)) \/ AdmitUnprotected(d) \/ PushDirect(d)
    \/ AdmitFails
    \/ Refill
    \/ InsertsChanged

Next == ConductorStep \/ Request \/ Tick

Spec == Init /\ [][Next]_vars

(* The event loop runs the conductor whenever it is ready, and time passes. *)
FairSpec == Spec /\ WF_vars(ConductorStep) /\ WF_vars(Tick)

-----------------------------------------------------------------------------
(* Properties *)

(* No step adds to the cycle queue while the conductor is held, not even   *)
(* one that began to render a live time announcement before.               *)
NoPushDuringHold == [][hold => Len(cycleQ') <= Len(cycleQ)]_vars

(* From admission to its last second, interrupt audio has no routine cycle *)
(* audio queued behind it to go stale, and the conductor is held (module   *)
(* text: "Interrupt admission places the conductor on hold while           *)
(* Liquidsoap owns the output").                                           *)
NothingBehindInterrupt == Interrupting => hold /\ cycleQ = <<>>

(* The conductor keeps at most the lookahead in the queue, and a lookahead *)
(* more for each time its account was started again over a queue that      *)
(* stayed: every refill, which an alert change or a mode command asks for, *)
(* forgets what is queued.                                                 *)
QueueBounded == Len(cycleQ) <= Lookahead * (1 + restarted)

(* A live time announcement is never rendered into a buffer that waits in  *)
(* the queue (_push_live_time: "ensures we never overwrite a file          *)
(* Liquidsoap has already queued but not yet played").                     *)
TimeBuffersApart ==
    \A i, j \in 2 .. Len(cycleQ) :
        (i # j /\ cycleQ[i].key = "time" /\ cycleQ[j].key = "time") => cycleQ[i].buf # cycleQ[j].buf

(* The station is not kept silent: once the interrupt audio is over, the   *)
(* conductor is held for a status poll at most, however many alerts        *)
(* extended its deadline, and for the conservative hold more for each one  *)
(* whose length could not be read.                                         *)
SilenceBounded == (hold /\ ~Interrupting) => holdLeft <= StatusPoll + unread * GuessedHold

(* What is queued lasts until the conductor wakes up, so that routine      *)
(* audio never runs dry while segments are ready.                          *)
SleepIsCovered == (phase = "asleep" /\ ~flush /\ ~hold) => Len(cycleQ) >= left

(* What the conductor believes of its queue is true enough, whatever is    *)
(* flushed, refilled or aired over it: never dry, and too much queued by   *)
(* no more than the refills let up.                                        *)
BacklogTracked == QueueBounded /\ SleepIsCovered

(* Liveness: every hold ends, and the cycle is then fed again.             *)
CycleReturns == hold ~> (~hold /\ cycleQ # <<>>)

=============================================================================
