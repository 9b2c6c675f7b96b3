--------------------------- MODULE Conductor_proofs ---------------------------
(***************************************************************************)
(* Theorems about the conductor, for every rotation, lookahead and number  *)
(* of interrupts.                                                          *)
(*                                                                         *)
(* The argument for the protection of interrupts: the deadline, which sums *)
(* durations, is never behind the audio it stands for while lengths can be *)
(* read (Covered), a conductor that is not held has no deadline, and a     *)
(* held one has an empty queue (Still).  Admission establishes the three,  *)
(* a tick consumes audio and deadline alike, and a release finds a         *)
(* deadline of zero, hence no audio; where a length was guessed, it is     *)
(* Liquidsoap's status that rules a release out.                           *)
(*                                                                         *)
(* The argument for the estimate: what is queued exceeds the balance by at *)
(* most a lookahead for each restart of the account, is never less, and    *)
(* when the conductor gets to an announcement enough is queued to render   *)
(* it by (Backlog, LeadsBy).                                               *)
(***************************************************************************)
EXTENDS Conductor, TLAPS

(* What the lengths that were guessed may add to the deadline. *)
Guessed == unread * GuessedHold

Audio == fullLeft + voiceLeft

(* The deadline is at most the audio, a status poll and the guesses. *)
Prompt == holdLeft <= Audio + StatusPoll + Guessed

(* No deadline without a hold. *)
Free == ~hold => holdLeft = 0

(* The deadline covers the audio. *)
Covered == fullLeft + voiceLeft <= holdLeft

(* Nothing is queued during a hold. *)
Still == hold => cycleQ = <<>>

LEMMA RotationFacts ==
    /\ 1 \in 1 .. Len(Rotation)
    /\ \A i \in 1 .. Len(Rotation) : Following(i) \in 1 .. Len(Rotation)
    /\ \A i \in 1 .. Len(Rotation) : Rotation[i] \in Keys
    /\ "time" \in Keys
<1>1. Len(Rotation) \in Nat /\ Len(Rotation) # 0
  BY RotationAssumption
<1>2. \A i \in 1 .. Len(Rotation) : Following(i) \in 1 .. Len(Rotation)
  BY <1>1 DEF Following
<1>3. \A i \in 1 .. Len(Rotation) : Rotation[i] \in Keys
  BY DEF Keys
<1>4. "time" \in Keys
  BY <1>3, RotationAssumption
<1> QED
  BY <1>1, <1>2, <1>3, <1>4

(* A pushed segment keeps the queue's type. *)
LEMMA AppendTyped ==
    ASSUME TypeOK, NEW k \in Keys, NEW b \in 0 .. TimeBufs
    PROVE  Append(cycleQ, [key |-> k, buf |-> b]) \in Seq(Segments)
<1>1. [key |-> k, buf |-> b] \in Segments
  BY DEF Segments
<1> QED
  BY <1>1 DEF TypeOK

LEMMA EmptyTyped == <<>> \in Seq(Segments)
  OBVIOUS

LEMMA QueueAudioTyped ==
    ASSUME TypeOK, NEW d \in Durations, QueueAudio(d)
    PROVE  /\ fullLeft' \in Nat /\ voiceLeft' \in Nat
           /\ fullLeft' + voiceLeft' = fullLeft + voiceLeft + d
           /\ d \in Nat
  BY DurationsAssumption DEF TypeOK, QueueAudio

LEMMA ConductorTyped ==
    ASSUME TypeOK, ConductorStep
    PROVE  TypeOK'
<1> USE RotationFacts, EmptyTyped
<1>1. CASE StartPushing
  BY <1>1 DEF TypeOK, StartPushing, Phases
<1>2. CASE PushSegment
  <2>1. cycleQ' \in Seq(Segments)
    <3>1. Rotation[position] \in Keys /\ 0 \in 0 .. TimeBufs
      BY TimeBufsAssumption DEF TypeOK
    <3> QED
      BY <1>2, <3>1, AppendTyped DEF PushSegment
  <2>2. position' \in 1 .. Len(Rotation) /\ balance' \in Int
    BY <1>2 DEF TypeOK, PushSegment
  <2> QED
    BY <1>2, <2>1, <2>2 DEF TypeOK, PushSegment
<1>3. CASE SkipSegment
  BY <1>3 DEF TypeOK, SkipSegment, TakeNap, Phases
<1>4. CASE StartTime
  <2>1. buf' \in 1 .. TimeBufs
    BY <1>4, TimeBufsAssumption DEF TypeOK, StartTime
  <2> QED
    BY <1>4, <2>1, TimingAssumption DEF TypeOK, StartTime, Phases
<1>5. CASE PushTime
  <2>1. RenderedBuf \in 0 .. TimeBufs
    BY TimeBufsAssumption DEF TypeOK, RenderedBuf
  <2>2. cycleQ' \in Seq(Segments)
    BY <1>5, <2>1, AppendTyped DEF PushTime
  <2> QED
    BY <1>5, <2>2 DEF TypeOK, PushTime, Phases
<1>6. CASE DiscardTime
  BY <1>6 DEF TypeOK, DiscardTime, TakeNap, Phases
<1>7. CASE FinishPass
  BY <1>7, TimingAssumption DEF TypeOK, FinishPass, GoToSleep, Phases
<1>8. CASE WakeUp
  BY <1>8 DEF TypeOK, WakeUp, Phases
<1>9. CASE WaitForEnd
  BY <1>9 DEF TypeOK, WaitForEnd, Phases
<1>10. CASE KeepHolding
  BY <1>10, TimingAssumption DEF TypeOK, KeepHolding
<1>11. CASE Release
  <2>1. cycleQ' \in Seq(Segments)
    BY <1>11, Zenon DEF TypeOK, Release
  <2> QED
    <3>1. hold' \in BOOLEAN
      BY <1>11 DEF Release
    <3>2. position' \in 1 .. Len(Rotation)
      BY <1>11 DEF Release, NotifyFlush
    <3>3. flush' \in BOOLEAN /\ balance' \in Int
      BY <1>11 DEF Release, NotifyFlush
    <3>4. /\ fullLeft' \in Nat /\ voiceLeft' \in Nat /\ holdLeft' \in Nat
          /\ buf' \in 1 .. TimeBufs /\ phase' \in Phases /\ left' \in Nat
      BY <1>11 DEF TypeOK, Release
    <3>5. /\ admitted' \in Nat /\ direct' \in Nat /\ refills' \in Nat
          /\ restarted' \in Nat /\ unread' \in Nat
      BY <1>11 DEF TypeOK, Release
    <3> QED
      BY <2>1, <3>1, <3>2, <3>3, <3>4, <3>5 DEF TypeOK
<1> QED
  BY <1>1, <1>2, <1>3, <1>4, <1>5, <1>6, <1>7, <1>8, <1>9, <1>10, <1>11 DEF ConductorStep

LEMMA RequestTyped ==
    ASSUME TypeOK, Request
    PROVE  TypeOK'
<1> USE RotationFacts, EmptyTyped
<1>1. ASSUME NEW d \in Durations, NEW read \in BOOLEAN, Admit(d, read) PROVE TypeOK'
  <2>1. cycleQ' \in Seq(Segments)
    BY <1>1, Zenon DEF Admit
  <2>2. holdLeft' \in Nat
    <3>1. MeasuredAs(d, read) \in Nat
      BY DurationsAssumption, TimingAssumption DEF MeasuredAs
    <3>2. holdLeft' = holdLeft + MeasuredAs(d, read)
      BY <1>1 DEF Admit, HoldFor
    <3> QED
      BY <3>1, <3>2 DEF TypeOK
  <2> QED
    <3>1. position' \in 1 .. Len(Rotation)
      BY <1>1 DEF Admit, NotifyFlush
    <3>2. hold' \in BOOLEAN /\ flush' \in BOOLEAN /\ balance' \in Int
      BY <1>1 DEF Admit, NotifyFlush
    <3>3. fullLeft' \in Nat /\ voiceLeft' \in Nat
      BY <1>1, QueueAudioTyped DEF Admit
    <3>4. buf' \in 1 .. TimeBufs /\ phase' \in Phases /\ left' \in Nat
      BY <1>1 DEF TypeOK, Admit
    <3>5. /\ admitted' \in Nat /\ direct' \in Nat /\ refills' \in Nat
          /\ restarted' \in Nat /\ unread' \in Nat
      BY <1>1 DEF TypeOK, Admit
    <3> QED
      BY <2>1, <2>2, <3>1, <3>2, <3>3, <3>4, <3>5 DEF TypeOK
<1>2. ASSUME NEW d \in Durations, AdmitUnprotected(d) PROVE TypeOK'
  BY <1>2, QueueAudioTyped DEF TypeOK, AdmitUnprotected, conductorVars
<1>3. ASSUME NEW d \in Durations, PushDirect(d) PROVE TypeOK'
  BY <1>3, QueueAudioTyped DEF TypeOK, PushDirect, NotifyFlush
<1>4. CASE AdmitFails
  BY <1>4 DEF TypeOK, AdmitFails
<1>5. CASE Refill
  BY <1>5 DEF TypeOK, Refill, NotifyFlush
<1>6. CASE InsertsChanged
  BY <1>6 DEF TypeOK, InsertsChanged
<1> QED
  BY <1>1, <1>2, <1>3, <1>4, <1>5, <1>6 DEF Request

(* What Liquidsoap's plays leave of the queues. *)
LEMMA PlayFacts ==
    ASSUME TypeOK, Play
    PROVE  /\ cycleQ' \in Seq(Segments)
           /\ fullLeft' \in Nat /\ voiceLeft' \in Nat
           /\ fullLeft' + voiceLeft' = CountDown(fullLeft + voiceLeft)
           /\ cycleQ = <<>> => cycleQ' = <<>>
           /\ Len(cycleQ') <= Len(cycleQ)
<1>1. CASE fullLeft > 0
  BY <1>1 DEF TypeOK, Play, CountDown
<1>2. CASE ~(fullLeft > 0) /\ voiceLeft > 0
  BY <1>2 DEF TypeOK, Play, CountDown
<1>3. CASE ~(fullLeft > 0) /\ ~(voiceLeft > 0)
  <2>1. /\ cycleQ' = IF cycleQ = <<>> THEN <<>> ELSE Tail(cycleQ)
        /\ UNCHANGED <<fullLeft, voiceLeft>>
    BY <1>3 DEF Play
  <2>2. cycleQ' \in Seq(Segments) /\ Len(cycleQ') <= Len(cycleQ)
    BY <2>1 DEF TypeOK
  <2>3. fullLeft = 0 /\ voiceLeft = 0
    BY <1>3 DEF TypeOK
  <2> QED
    BY <2>1, <2>2, <2>3 DEF CountDown
<1> QED
  BY <1>1, <1>2, <1>3

LEMMA TickTyped ==
    ASSUME TypeOK, Tick
    PROVE  TypeOK'
<1>1. cycleQ' \in Seq(Segments) /\ fullLeft' \in Nat /\ voiceLeft' \in Nat
  BY PlayFacts DEF Tick
<1>2. holdLeft' \in Nat /\ left' \in Nat /\ balance' \in Int
  BY DEF TypeOK, Tick, CountDown
<1> QED
  BY <1>1, <1>2 DEF TypeOK, Tick

(* The variables keep their types through every run (the state of          *)
(* CycleConductor and of the three request queues).                        *)
THEOREM TypeCorrect == Spec => []TypeOK
<1>1. Init => TypeOK
  <2>1. Init => cycleQ \in Seq(Segments)
    BY EmptyTyped, Zenon DEF Init
  <2> QED
    <3>1. Init => position \in 1 .. Len(Rotation) /\ buf \in 1 .. TimeBufs
      BY RotationFacts, TimeBufsAssumption DEF Init
    <3>2. Init => hold \in BOOLEAN /\ flush \in BOOLEAN /\ phase \in Phases
      BY DEF Init, Phases
    <3>3. Init => /\ fullLeft \in Nat /\ voiceLeft \in Nat /\ holdLeft \in Nat
                  /\ balance \in Int /\ left \in Nat
                  /\ admitted \in Nat /\ direct \in Nat /\ refills \in Nat
                  /\ restarted \in Nat /\ unread \in Nat
      BY DEF Init
    <3> QED
      BY <2>1, <3>1, <3>2, <3>3 DEF TypeOK
<1>2. TypeOK /\ [Next]_vars => TypeOK'
  <2>1. ASSUME TypeOK, UNCHANGED vars PROVE TypeOK'
    BY <2>1 DEF TypeOK, vars
  <2> QED
    BY <2>1, ConductorTyped, RequestTyped, TickTyped DEF Next
<1> QED
  BY <1>1, <1>2, PTL DEF Spec

-----------------------------------------------------------------------------
(* The hold ends with the audio. *)

LEMMA GuessedFacts ==
    ASSUME TypeOK
    PROVE  /\ Guessed \in Nat
           /\ unread' = unread => Guessed' = Guessed
           /\ unread' = unread + 1 => Guessed' = Guessed + GuessedHold
           /\ unread' = 0 => Guessed' = 0
  BY TimingAssumption DEF Guessed, TypeOK

LEMMA HoldStep ==
    ASSUME TypeOK, Prompt, Free, Next
    PROVE  Prompt' /\ Free'
<1>0. /\ Guessed \in Nat /\ GuessedHold \in Nat
      /\ holdLeft \in Nat /\ Audio \in Nat /\ StatusPoll \in Nat
  BY GuessedFacts, TimingAssumption DEF TypeOK, Audio
<1>00. /\ unread' = unread => Guessed' = Guessed
       /\ unread' = unread + 1 => Guessed' = Guessed + GuessedHold
       /\ unread' = 0 => Guessed' = 0
  BY GuessedFacts
<1> USE DEF Prompt, Free
<1>1. CASE ConductorStep
  <2>1. Audio' = Audio
    BY <1>1 DEF ConductorStep, StartPushing, PushSegment, SkipSegment, StartTime, PushTime,
                DiscardTime, FinishPass, WakeUp, WaitForEnd, KeepHolding, Release, Audio
  <2>2. \/ UNCHANGED <<hold, holdLeft, unread>>
        \/ hold' /\ holdLeft' = StatusPoll /\ UNCHANGED unread
        \/ ~hold' /\ holdLeft' = 0 /\ unread' = 0
    BY <1>1 DEF ConductorStep, StartPushing, PushSegment, SkipSegment, StartTime, PushTime,
                DiscardTime, FinishPass, WakeUp, WaitForEnd, KeepHolding, Release
  <2>3. Guessed' \in Nat
    BY <1>0, <1>00, <2>2
  <2>4. CASE UNCHANGED <<hold, holdLeft, unread>>
    <3>1. Guessed' = Guessed
      BY <1>00, <2>4
    <3> QED
      BY <2>1, <2>4, <3>1
  <2>5. CASE \/ hold' /\ holdLeft' = StatusPoll
             \/ ~hold' /\ holdLeft' = 0
    BY <1>0, <2>1, <2>3, <2>5
  <2> QED
    BY <2>2, <2>4, <2>5
<1>2. ASSUME NEW d \in Durations, NEW read \in BOOLEAN, Admit(d, read) PROVE Prompt' /\ Free'
  <2>1. Audio' = Audio + d /\ d \in Nat
    BY <1>2, QueueAudioTyped DEF Admit, Audio
  <2>2. hold'
    BY <1>2 DEF Admit
  <2>3. /\ holdLeft + d <= Audio' + StatusPoll + Guessed
        /\ holdLeft + GuessedHold <= Audio' + StatusPoll + (Guessed + GuessedHold)
    BY <1>0, <2>1
  <2>4. CASE read
    <3>1. holdLeft' = holdLeft + d /\ unread' = unread
      BY <1>2, <2>4 DEF Admit, HoldFor, MeasuredAs
    <3>2. Guessed' = Guessed
      BY <1>00, <3>1
    <3> QED
      BY <2>2, <2>3, <3>1, <3>2
  <2>5. CASE ~read
    <3>1. holdLeft' = holdLeft + GuessedHold /\ unread' = unread + 1
      BY <1>2, <2>5 DEF Admit, HoldFor, MeasuredAs
    <3>2. Guessed' = Guessed + GuessedHold
      BY <1>00, <3>1
    <3> QED
      BY <2>2, <2>3, <3>1, <3>2
  <2> QED
    BY <2>4, <2>5
<1>3. ASSUME NEW d \in Durations, AdmitUnprotected(d) \/ PushDirect(d) PROVE Prompt' /\ Free'
  <2>1. Audio' = Audio + d /\ d \in Nat
    BY <1>3, QueueAudioTyped DEF PushDirect, AdmitUnprotected, Audio
  <2>2. UNCHANGED <<hold, holdLeft, unread>>
    BY <1>3 DEF PushDirect, AdmitUnprotected, conductorVars
  <2>3. Guessed' = Guessed
    BY <1>00, <2>2
  <2>4. holdLeft <= Audio' + StatusPoll + Guessed
    BY <1>0, <2>1
  <2> QED
    BY <2>2, <2>3, <2>4
<1>4. CASE AdmitFails \/ Refill \/ InsertsChanged
  <2>1. UNCHANGED <<hold, holdLeft, unread>> /\ Audio' = Audio
    BY <1>4 DEF AdmitFails, Refill, InsertsChanged, Audio
  <2>2. Guessed' = Guessed
    BY <1>00, <2>1
  <2> QED
    BY <2>1, <2>2
<1>5. CASE Tick
  <2>1. Audio' = CountDown(Audio)
    BY <1>5, PlayFacts DEF Tick, Audio
  <2>2. holdLeft' = CountDown(holdLeft) /\ UNCHANGED <<hold, unread>>
    BY <1>5 DEF Tick
  <2>3. Guessed' = Guessed
    BY <1>00, <2>2
  <2>4. CountDown(holdLeft) <= CountDown(Audio) + StatusPoll + Guessed
    BY <1>0 DEF CountDown
  <2>5. Free'
    BY <2>2 DEF CountDown
  <2> QED
    BY <2>1, <2>2, <2>3, <2>4, <2>5
<1> QED
  BY <1>1, <1>2, <1>3, <1>4, <1>5 DEF Next, Request

(* However many interrupts extended the deadline, and whatever telnet      *)
(* calls fail, the conductor is held for a status poll at most once the    *)
(* audio is over, and the conservative hold more for each length that      *)
(* could not be read.                                                      *)
THEOREM Promptness == Spec => []SilenceBounded
<1>1. Init => Prompt /\ Free
  BY TimingAssumption DEF Init, Prompt, Free, Guessed, Audio
<1>2. TypeOK /\ Prompt /\ Free /\ [Next]_vars => (Prompt /\ Free)'
  <2>1. ASSUME Prompt, Free, UNCHANGED vars PROVE (Prompt /\ Free)'
    BY <2>1 DEF Prompt, Free, Guessed, Audio, vars
  <2> QED
    BY <2>1, HoldStep
<1>3. TypeOK /\ Prompt => SilenceBounded
  <2>1. TypeOK => Guessed \in Nat
    BY GuessedFacts
  <2>2. TypeOK /\ Prompt => (hold /\ ~Interrupting => holdLeft <= StatusPoll + Guessed)
    BY <2>1, TimingAssumption DEF TypeOK, Prompt, Interrupting, Audio
  <2> QED
    BY <2>2 DEF SilenceBounded, Guessed
<1> QED
  BY <1>1, <1>2, <1>3, TypeCorrect, PTL DEF Spec

-----------------------------------------------------------------------------
(* Nothing joins the queue of a held conductor. *)

LEMMA QuietStep ==
    ASSUME TypeOK, Next, hold
    PROVE  Len(cycleQ') <= Len(cycleQ)
<1>1. CASE cycleQ' = cycleQ
  BY <1>1 DEF TypeOK
<1>2. CASE cycleQ' = <<>>
  BY <1>2 DEF TypeOK
<1>3. CASE ConductorStep
  BY <1>1, <1>2, <1>3 DEF ConductorStep, StartPushing, PushSegment, SkipSegment, StartTime, PushTime,
                DiscardTime, FinishPass, WakeUp, WaitForEnd, KeepHolding, Release, MayPush
<1>4. CASE Request
  BY <1>1, <1>2, <1>4 DEF Request, Admit, AdmitUnprotected, AdmitFails, PushDirect, Refill,
                InsertsChanged, conductorVars
<1>5. CASE Tick
  BY <1>5, PlayFacts DEF Tick
<1> QED
  BY <1>3, <1>4, <1>5 DEF Next

(* No step of any task adds to the cycle queue while the conductor is      *)
(* held, a live time announcement that was rendering included.             *)
THEOREM QuietDuringHold == Spec => NoPushDuringHold
<1>1. TypeOK /\ [Next]_vars => [hold => Len(cycleQ') <= Len(cycleQ)]_vars
  BY QuietStep
<1> QED
  BY <1>1, TypeCorrect, PTL DEF Spec, NoPushDuringHold

-----------------------------------------------------------------------------
(* Protection of the interrupts. *)

(* Lengths that cannot be read are made up for by the status command. *)
StatusOrLength == StatusKnown \/ ~Unreadable

Protected ==
    /\ Free
    /\ Still
    /\ Interrupting => hold
    /\ ~Unreadable => Covered

LEMMA ProtectedStep ==
    ASSUME ~Faulty, MaxDirect = 0, StatusOrLength, TypeOK, Protected, Next
    PROVE  Protected'
<1> USE DEF TypeOK, Protected, Free, Covered, Still, Interrupting
<1>1. CASE ConductorStep
  <2>1. CASE KeepHolding
    BY <2>1, TimingAssumption DEF KeepHolding
  <2>2. CASE Release
    <3>1. ~Interrupting
      BY <2>2 DEF Release, StatusOrLength
    <3> QED
      BY <2>2, <3>1 DEF Release
  <2>3. CASE PushSegment \/ PushTime
    BY <2>3 DEF PushSegment, PushTime, MayPush
  <2>4. CASE StartPushing \/ SkipSegment \/ StartTime \/ DiscardTime \/ FinishPass \/ WakeUp \/ WaitForEnd
    BY <2>4 DEF StartPushing, SkipSegment, StartTime, DiscardTime, FinishPass, WakeUp, WaitForEnd
  <2> QED
    BY <1>1, <2>1, <2>2, <2>3, <2>4 DEF ConductorStep
<1>2. ASSUME NEW d \in Durations, NEW read \in BOOLEAN, Admit(d, read) PROVE Protected'
  <2>1. fullLeft' + voiceLeft' = fullLeft + voiceLeft + d /\ d \in Nat
    BY <1>2, QueueAudioTyped DEF Admit
  <2>2. hold' /\ cycleQ' = <<>>
    BY <1>2 DEF Admit
  <2>3. ~Unreadable => Covered'
    BY <1>2, <2>1 DEF Admit, HoldFor, MeasuredAs
  <2> QED
    BY <2>2, <2>3
<1>3. CASE Refill \/ InsertsChanged
  BY <1>3 DEF Refill, InsertsChanged
<1>4. CASE Tick
  <2>1. ~Unreadable => Covered'
    BY <1>4, PlayFacts DEF Tick, CountDown
  <2>2. Interrupting' => Interrupting
    BY <1>4, PlayFacts DEF CountDown, Tick
  <2>3. Free' /\ Still'
    BY <1>4, PlayFacts DEF Tick, CountDown
  <2> QED
    BY <1>4, <2>1, <2>2, <2>3 DEF Tick
<1>5. ASSUME NEW d \in Durations PROVE ~AdmitUnprotected(d) /\ ~PushDirect(d)
  BY DEF AdmitUnprotected, PushDirect
<1>6. ~AdmitFails
  BY DEF AdmitFails
<1> QED
  BY <1>1, <1>2, <1>3, <1>4, <1>5, <1>6 DEF Next, Request

(* When telnet calls succeed and no audio bypasses the admission, routine  *)
(* audio never waits behind an interrupt and the conductor is held until   *)
(* the last of it has played, if Liquidsoap can tell or all lengths can be *)
(* read.                                                                   *)
THEOREM Protection ==
    ASSUME ~Faulty, MaxDirect = 0, StatusOrLength
    PROVE  Spec => []NothingBehindInterrupt
<1>1. Init => Protected
  BY DEF Init, Protected, Free, Covered, Still, Interrupting
<1>2. TypeOK /\ Protected /\ [Next]_vars => Protected'
  <2>1. ASSUME Protected, UNCHANGED vars PROVE Protected'
    BY <2>1 DEF Protected, Free, Covered, Still, Interrupting, vars
  <2> QED
    BY <2>1, ProtectedStep
<1>3. TypeOK /\ Protected => NothingBehindInterrupt
  BY DEF TypeOK, Protected, Free, Covered, Still, NothingBehindInterrupt, Interrupting
<1> QED
  BY <1>1, <1>2, <1>3, TypeCorrect, PTL DEF Spec

-----------------------------------------------------------------------------
(* The backlog.  Every push adds one to the queue and the balance, every   *)
(* unit of time takes one from the balance, and one from the queue if it   *)
(* is not dry; a restart of the account sets the balance to zero and the   *)
(* queue stays.  So the queue is at least the balance and exceeds it by no *)
(* more than a lookahead for each restart, if it never runs dry under a    *)
(* live time announcement: what is queued ahead of each announcement, and  *)
(* after each sleep, must last for its rendering.                          *)

Slots == 1 .. Len(Rotation)

TimeAt(i) == Rotation[i] = "time"

(* The rotation leads with other segments ("id", then "time"), has as many *)
(* between two announcements, and the lookahead outlasts a tick and a      *)
(* rendering (75 s against 4 s by default).                                *)
RoomToRender ==
    /\ TickLength + RenderTime <= Lookahead
    /\ \A i \in Slots : TimeAt(i) => i > RenderTime
    /\ \A i, j \in Slots : TimeAt(i) /\ TimeAt(j) /\ i < j => j - i >= RenderTime

(* Telnet calls succeed, every segment is ready, and no audio bypasses the *)
(* admission; alerts, refills and wake-ups come as they may.               *)
Undisturbed == ~Faulty /\ AlwaysReady /\ MaxDirect = 0 /\ StatusOrLength

(* With b units queued when it is at p, the conductor has enough of them   *)
(* queued when it gets to an announcement.                                 *)
LeadsBy(p, b) ==
    \A q \in Slots : TimeAt(q) =>
        b + (IF q >= p THEN q - p ELSE Len(Rotation) - p + q) >= RenderTime

(* What the restarts of the account let up. *)
Forgotten == Lookahead * restarted

(* The queue is what the balance says, the restarts aside, and lasts until *)
(* the conductor pushes again.                                             *)
Backlog ==
    ~hold =>
      /\ balance <= Len(cycleQ) /\ Len(cycleQ) <= balance + Forgotten
      /\ balance <= Lookahead
      /\ phase \in {"top", "pushing", "rendering", "asleep"}
      /\ phase \in {"top", "pushing", "asleep"} => LeadsBy(position, Len(cycleQ))
      /\ phase = "rendering" => /\ left <= Len(cycleQ) /\ balance < Lookahead
                                /\ LeadsBy(position, Len(cycleQ) - left + 1)
      /\ phase = "asleep" /\ ~flush => left + RenderTime <= Len(cycleQ)

LEMMA ForgottenFacts ==
    ASSUME TypeOK
    PROVE  /\ Forgotten \in Nat
           /\ restarted' = restarted => Forgotten' = Forgotten
           /\ restarted' = restarted + 1 => Forgotten' = Forgotten + Lookahead
           /\ restarted' = 0 => Forgotten' = 0
  BY LookaheadAssumption DEF Forgotten, TypeOK

LEMMA LengthFacts == Len(Rotation) \in Nat \ {0}
  BY RotationAssumption

LEMMA LeadsNext ==
    ASSUME NEW p \in Slots, NEW b \in Int, LeadsBy(p, b), ~TimeAt(p)
    PROVE  LeadsBy(Following(p), b + 1)
<1> SUFFICES ASSUME NEW q \in Slots, TimeAt(q)
             PROVE  b + 1 + (IF q >= Following(p) THEN q - Following(p)
                             ELSE Len(Rotation) - Following(p) + q) >= RenderTime
  BY DEF LeadsBy
<1>1. b + (IF q >= p THEN q - p ELSE Len(Rotation) - p + q) >= RenderTime /\ q # p
  BY DEF LeadsBy
<1>2. CASE p = Len(Rotation)
  BY <1>1, <1>2, LengthFacts, TimingAssumption DEF Following, Slots
<1>3. CASE p # Len(Rotation)
  <2>1. Following(p) = p + 1 /\ p \in Int /\ q \in Int /\ Len(Rotation) \in Int /\ p <= Len(Rotation)
    BY <1>3, LengthFacts DEF Following, Slots
  <2>2. CASE q >= p + 1
    BY <1>1, <2>1, <2>2, TimingAssumption
  <2>3. CASE ~(q >= p + 1)
    BY <1>1, <2>1, <2>3, TimingAssumption DEF Slots
  <2> QED
    BY <2>2, <2>3
<1> QED
  BY <1>2, <1>3

LEMMA LeadsAfterTime ==
    ASSUME RoomToRender, NEW p \in Slots, TimeAt(p), NEW b \in Int, b >= RenderTime
    PROVE  LeadsBy(Following(p), b - RenderTime + 1)
<1> SUFFICES ASSUME NEW q \in Slots, TimeAt(q)
             PROVE  b - RenderTime + 1 +
                      (IF q >= Following(p) THEN q - Following(p)
                       ELSE Len(Rotation) - Following(p) + q) >= RenderTime
  BY DEF LeadsBy
<1>1. q > RenderTime /\ (p < q => q - p >= RenderTime)
  BY DEF RoomToRender
<1>2. CASE p = Len(Rotation)
  BY <1>1, <1>2, LengthFacts, TimingAssumption DEF Following, Slots
<1>3. CASE p # Len(Rotation)
  <2>1. Following(p) = p + 1 /\ p \in Int /\ q \in Int /\ Len(Rotation) \in Int /\ p <= Len(Rotation)
    BY <1>3, LengthFacts DEF Following, Slots
  <2>2. CASE q >= p + 1
    BY <1>1, <2>1, <2>2, TimingAssumption
  <2>3. CASE ~(q >= p + 1)
    BY <1>1, <2>1, <2>3, TimingAssumption DEF Slots
  <2> QED
    BY <2>2, <2>3
<1> QED
  BY <1>2, <1>3

LEMMA LeadsMore ==
    ASSUME NEW p \in Slots, NEW b \in Int, NEW c \in Int, b <= c, LeadsBy(p, b)
    PROVE  LeadsBy(p, c)
<1> SUFFICES ASSUME NEW q \in Slots, TimeAt(q)
             PROVE  c + (IF q >= p THEN q - p ELSE Len(Rotation) - p + q) >= RenderTime
  BY DEF LeadsBy
<1> DEFINE ahead == IF q >= p THEN q - p ELSE Len(Rotation) - p + q
<1>1. ahead \in Int
  BY LengthFacts DEF Slots
<1>2. b + ahead >= RenderTime
  BY DEF LeadsBy
<1> HIDE DEF ahead
<1>3. c + ahead >= RenderTime
  BY <1>1, <1>2, TimingAssumption
<1> QED
  BY <1>3 DEF ahead

LEMMA LeadsWhenEnough ==
    ASSUME NEW p \in Slots, NEW b \in Int, b >= RenderTime
    PROVE  LeadsBy(p, b)
  BY LengthFacts, TimingAssumption DEF LeadsBy, Slots

LEMMA LeadsAtStart ==
    ASSUME RoomToRender
    PROVE  LeadsBy(1, 0)
  BY LengthFacts, TimingAssumption DEF LeadsBy, Slots, RoomToRender

(* What Backlog says of a free conductor, with its queue's length named. *)
LEMMA BacklogFacts ==
    ASSUME TypeOK, Backlog, ~hold
    PROVE  /\ Len(cycleQ) \in Nat /\ balance \in Int /\ left \in Nat
           /\ balance <= Len(cycleQ) /\ Len(cycleQ) <= balance + Forgotten
           /\ balance <= Lookahead
           /\ phase \in {"top", "pushing", "rendering", "asleep"}
           /\ phase \in {"top", "pushing", "asleep"} => LeadsBy(position, Len(cycleQ))
           /\ phase = "rendering" => /\ left <= Len(cycleQ) /\ balance < Lookahead
                                     /\ LeadsBy(position, Len(cycleQ) - left + 1)
           /\ phase = "asleep" /\ ~flush => left + RenderTime <= Len(cycleQ)
           /\ position \in Slots
  BY DEF TypeOK, Backlog, Slots

(* A pushed segment lengthens queue and balance alike. *)
LEMMA PushedBacklog ==
    ASSUME TypeOK, Backlog, ~hold, UNCHANGED restarted,
           NEW s, cycleQ' = Append(cycleQ, s), balance' = balance + 1
    PROVE  /\ Len(cycleQ') = Len(cycleQ) + 1
           /\ balance' <= Len(cycleQ') /\ Len(cycleQ') <= balance' + Forgotten'
<1>1. Len(cycleQ') = Len(cycleQ) + 1
  BY DEF TypeOK
<1>2. Forgotten \in Nat /\ Forgotten' = Forgotten
  BY ForgottenFacts
<1> QED
  BY <1>1, <1>2, BacklogFacts

(* The conductor's steps while it is free. *)
LEMMA FreeConductorStep ==
    ASSUME Undisturbed, RoomToRender, TypeOK, Backlog, ~hold, ConductorStep
    PROVE  Backlog'
<1> USE TimingAssumption, LookaheadAssumption
<1>0. /\ Len(cycleQ) \in Nat /\ balance \in Int /\ left \in Nat
      /\ balance <= Len(cycleQ) /\ Len(cycleQ) <= balance + Forgotten
      /\ balance <= Lookahead
      /\ phase \in {"top", "pushing", "rendering", "asleep"}
      /\ phase \in {"top", "pushing", "asleep"} => LeadsBy(position, Len(cycleQ))
      /\ phase = "rendering" => /\ left <= Len(cycleQ) /\ balance < Lookahead
                                /\ LeadsBy(position, Len(cycleQ) - left + 1)
      /\ phase = "asleep" /\ ~flush => left + RenderTime <= Len(cycleQ)
      /\ position \in Slots
  BY BacklogFacts
<1>00. Forgotten \in Nat /\ (restarted' = restarted => Forgotten' = Forgotten)
  BY ForgottenFacts
<1>1. CASE StartPushing
  <2>1. phase' = "pushing" /\ phase = "top"
        /\ UNCHANGED <<cycleQ, balance, position, restarted>>
    BY <1>1 DEF StartPushing
  <2>2. LeadsBy(position, Len(cycleQ))'
    BY <1>0, <2>1 DEF LeadsBy, Slots, TimeAt
  <2> QED
    BY <1>0, <1>00, <2>1, <2>2 DEF Backlog
<1>2. CASE PushSegment
  <2>1. /\ phase = "pushing" /\ phase' = "pushing"
        /\ Remaining < Lookahead
        /\ ~TimeAt(position) /\ position' = Following(position)
        /\ balance' = balance + 1 /\ UNCHANGED restarted
        /\ cycleQ' = Append(cycleQ, [key |-> Rotation[position], buf |-> 0])
    BY <1>2 DEF PushSegment, MayPush, TimeAt
  <2>2. /\ Len(cycleQ') = Len(cycleQ) + 1
        /\ balance' <= Len(cycleQ') /\ Len(cycleQ') <= balance' + Forgotten'
    BY <2>1, PushedBacklog
  <2>3. LeadsBy(Following(position), Len(cycleQ) + 1)
    BY <1>0, <2>1, LeadsNext
  <2>4. LeadsBy(position, Len(cycleQ))'
    BY <2>1, <2>2, <2>3 DEF LeadsBy, Slots, TimeAt
  <2>5. balance' <= Lookahead
    BY <1>0, <2>1 DEF Remaining
  <2> QED
    BY <2>1, <2>2, <2>4, <2>5 DEF Backlog
<1>3. CASE SkipSegment
  BY <1>3 DEF SkipSegment, Undisturbed
<1>4. CASE StartTime
  <2>1. /\ phase = "pushing" /\ phase' = "rendering" /\ left' = RenderTime
        /\ TimeAt(position) /\ position' = Following(position)
        /\ UNCHANGED <<cycleQ, balance, restarted>> /\ Remaining < Lookahead
    BY <1>4 DEF StartTime, MayPush, TimeAt
  <2>2. Len(cycleQ) >= RenderTime
    <3>1. LeadsBy(position, Len(cycleQ))
      BY <1>0, <2>1
    <3> QED
      BY <1>0, <2>1, <3>1 DEF LeadsBy, Slots
  <2>3. LeadsBy(Following(position), Len(cycleQ) - RenderTime + 1)
    BY <1>0, <2>1, <2>2, LeadsAfterTime
  <2>4. LeadsBy(position, Len(cycleQ) - left + 1)'
    BY <2>1, <2>3 DEF LeadsBy, Slots, TimeAt
  <2>5. balance < Lookahead
    BY <1>0, <2>1 DEF Remaining
  <2> QED
    BY <1>0, <1>00, <2>1, <2>2, <2>4, <2>5 DEF Backlog
<1>5. CASE PushTime
  <2>1. /\ phase = "rendering" /\ phase' = "pushing"
        /\ balance' = balance + 1 /\ UNCHANGED <<position, restarted>>
        /\ cycleQ' = Append(cycleQ, [key |-> "time", buf |-> RenderedBuf])
    BY <1>5 DEF PushTime
  <2>2. /\ Len(cycleQ') = Len(cycleQ) + 1
        /\ balance' <= Len(cycleQ') /\ Len(cycleQ') <= balance' + Forgotten'
    BY <2>1, PushedBacklog
  <2>3. LeadsBy(position, Len(cycleQ) + 1)
    <3>1. Len(cycleQ) - left + 1 \in Int /\ Len(cycleQ) - left + 1 <= Len(cycleQ) + 1
      BY <1>0
    <3>2. LeadsBy(position, Len(cycleQ) - left + 1)
      BY <1>0, <2>1
    <3> QED
      BY <1>0, <3>1, <3>2, LeadsMore
  <2>4. LeadsBy(position, Len(cycleQ))'
    BY <2>1, <2>2, <2>3 DEF LeadsBy, Slots, TimeAt
  <2>5. balance' <= Lookahead
    BY <1>0, <2>1
  <2> QED
    BY <2>1, <2>2, <2>4, <2>5 DEF Backlog
<1>6. CASE DiscardTime
  BY <1>6 DEF DiscardTime, Undisturbed
<1>7. CASE FinishPass
  <2>1. /\ Remaining >= Lookahead /\ phase = "pushing" /\ phase' = "asleep"
        /\ ~flush' /\ left' = TickLength
        /\ UNCHANGED <<cycleQ, balance, position, restarted>>
    BY <1>0, <1>7 DEF FinishPass, GoToSleep
  <2>2. left' + RenderTime <= Len(cycleQ')
    BY <1>0, <2>1 DEF Remaining, RoomToRender
  <2>3. LeadsBy(position, Len(cycleQ))'
    BY <1>0, <2>1 DEF LeadsBy, Slots, TimeAt
  <2> QED
    BY <1>0, <1>00, <2>1, <2>2, <2>3 DEF Backlog
<1>8. CASE WakeUp
  <2>1. phase = "asleep" /\ phase' = "top" /\ UNCHANGED <<cycleQ, balance, position, restarted>>
    BY <1>0, <1>8 DEF WakeUp
  <2>2. LeadsBy(position, Len(cycleQ))'
    BY <1>0, <2>1 DEF LeadsBy, Slots, TimeAt
  <2> QED
    BY <1>0, <1>00, <2>1, <2>2 DEF Backlog
<1>9. CASE WaitForEnd \/ KeepHolding \/ Release
  BY <1>9 DEF WaitForEnd, KeepHolding, Release
<1> QED
  BY <1>1, <1>2, <1>3, <1>4, <1>5, <1>6, <1>7, <1>8, <1>9 DEF ConductorStep

(* A hold ends with an empty queue and a new account. *)
LEMMA ReleasedBacklog ==
    ASSUME Undisturbed, RoomToRender, TypeOK, hold, ConductorStep
    PROVE  Backlog'
<1>1. CASE Release
  <2>1. /\ cycleQ' = <<>> /\ balance' = 0 /\ position' = 1 /\ phase' = "top" /\ restarted' = 0
    BY <1>1 DEF Release, NotifyFlush, Undisturbed
  <2>2. LeadsBy(position, Len(cycleQ))'
    BY <2>1, LeadsAtStart DEF LeadsBy, Slots, TimeAt
  <2>3. Forgotten' = 0
    BY <2>1, ForgottenFacts
  <2> QED
    BY <2>1, <2>2, <2>3, LookaheadAssumption DEF Backlog
<1>2. CASE ~Release
  <2>1. hold'
    BY <1>2 DEF ConductorStep, StartPushing, PushSegment, SkipSegment, StartTime, PushTime,
                DiscardTime, FinishPass, WakeUp, WaitForEnd, KeepHolding, MayPush
  <2> QED
    BY <2>1 DEF Backlog
<1> QED
  BY <1>1, <1>2

(* A refill forgets what is queued, and a rotation that starts again leads *)
(* with other segments than the announcement.                              *)
LEMMA RefilledBacklog ==
    ASSUME RoomToRender, TypeOK, Backlog, Refill
    PROVE  Backlog'
<1> SUFFICES ASSUME ~hold PROVE Backlog'
  BY DEF Backlog, Refill
<1>1. /\ balance' = 0 /\ position' = 1 /\ flush' = TRUE /\ restarted' = restarted + 1
      /\ UNCHANGED <<cycleQ, phase, left>>
      /\ phase \in {"rendering", "asleep"}
  BY BacklogFacts DEF Refill, NotifyFlush, Suspended
<1>2. /\ Len(cycleQ) \in Nat /\ Len(cycleQ) <= balance + Forgotten /\ balance <= Lookahead
      /\ balance \in Int /\ left \in Nat
      /\ phase = "rendering" => left <= Len(cycleQ)
  BY BacklogFacts
<1>3. Forgotten \in Nat /\ Forgotten' = Forgotten + Lookahead
  BY <1>1, ForgottenFacts
<1>4. balance' <= Len(cycleQ') /\ Len(cycleQ') <= balance' + Forgotten'
  BY <1>1, <1>2, <1>3, LookaheadAssumption
<1>5. LeadsBy(1, 0) /\ 1 \in Slots
  BY LeadsAtStart, RotationFacts DEF Slots
<1>6. LeadsBy(1, Len(cycleQ))
  BY <1>2, <1>5, LeadsMore
<1>7. phase = "rendering" => LeadsBy(1, Len(cycleQ) - left + 1)
  <2> SUFFICES ASSUME phase = "rendering" PROVE LeadsBy(1, Len(cycleQ) - left + 1)
    OBVIOUS
  <2>1. Len(cycleQ) - left + 1 \in Int /\ 0 <= Len(cycleQ) - left + 1
    BY <1>2
  <2> QED
    BY <1>5, <2>1, LeadsMore
<1>8. phase = "rendering" => LeadsBy(position, Len(cycleQ) - left + 1)'
  BY <1>1, <1>7 DEF LeadsBy, Slots, TimeAt
<1>9. LeadsBy(position, Len(cycleQ))'
  BY <1>1, <1>6 DEF LeadsBy, Slots, TimeAt
<1> QED
  BY <1>1, <1>2, <1>4, <1>8, <1>9, LookaheadAssumption DEF Backlog

(* Time: of a free conductor the queue plays, and nothing else does. *)
LEMMA BacklogTick ==
    ASSUME TypeOK, Protected, Backlog, Tick
    PROVE  Backlog'
<1> SUFFICES ASSUME ~hold PROVE Backlog'
  BY DEF Backlog, Tick
<1>0. /\ Len(cycleQ) \in Nat /\ balance \in Int /\ left \in Nat
      /\ balance <= Len(cycleQ) /\ Len(cycleQ) <= balance + Forgotten
      /\ balance <= Lookahead
      /\ phase = "rendering" => /\ left <= Len(cycleQ) /\ balance < Lookahead
                                /\ LeadsBy(position, Len(cycleQ) - left + 1)
      /\ phase = "asleep" /\ ~flush => left + RenderTime <= Len(cycleQ)
      /\ position \in Slots
  BY BacklogFacts
<1>1. /\ UNCHANGED <<phase, flush, hold, position, restarted>>
      /\ phase \in {"rendering", "asleep"} /\ left > 0 /\ (phase = "asleep" => ~flush)
  <2>1. phase \in {"top", "pushing", "rendering", "asleep"}
    BY BacklogFacts
  <2> QED
    BY <2>1 DEF Tick, Waiting
<1>2. fullLeft = 0 /\ voiceLeft = 0
  BY DEF TypeOK, Protected, Interrupting
<1>3. Len(cycleQ) > 0 /\ left' = left - 1
  BY <1>0, <1>1, TimingAssumption DEF Tick, CountDown
<1>4. Len(cycleQ') = Len(cycleQ) - 1
  <2>1. cycleQ # <<>>
    BY <1>3
  <2>2. cycleQ' = Tail(cycleQ)
    BY <1>2, <2>1 DEF Tick, Play
  <2> QED
    BY <2>1, <2>2 DEF TypeOK
<1>5. balance' \in Int /\ balance' <= balance /\ balance - 1 <= balance'
      /\ balance' <= Len(cycleQ) - 1
  BY <1>0, <1>3, LimitsAssumption DEF Tick
<1>6. Forgotten \in Nat /\ Forgotten' = Forgotten
  BY <1>1, ForgottenFacts
<1>7. balance' <= Len(cycleQ') /\ Len(cycleQ') <= balance' + Forgotten'
  BY <1>0, <1>4, <1>5, <1>6
<1>8. phase = "rendering" => /\ left' <= Len(cycleQ') /\ balance' < Lookahead
                             /\ LeadsBy(position, Len(cycleQ) - left + 1)'
  <2>1. Len(cycleQ') - left' + 1 = Len(cycleQ) - left + 1
    BY <1>0, <1>3, <1>4
  <2>2. phase = "rendering" => LeadsBy(position, Len(cycleQ) - left + 1)'
    BY <1>0, <1>1, <2>1 DEF LeadsBy, Slots, TimeAt
  <2> QED
    BY <1>0, <1>3, <1>4, <1>5, <2>2, LookaheadAssumption
<1>9. phase = "asleep" => /\ left' + RenderTime <= Len(cycleQ')
                          /\ LeadsBy(position, Len(cycleQ))'
  <2> SUFFICES ASSUME phase = "asleep"
               PROVE  left' + RenderTime <= Len(cycleQ') /\ LeadsBy(position, Len(cycleQ))'
    OBVIOUS
  <2>1. left' + RenderTime <= Len(cycleQ') /\ Len(cycleQ') \in Int /\ Len(cycleQ') >= RenderTime
    BY <1>0, <1>1, <1>3, <1>4, TimingAssumption
  <2>2. LeadsBy(position, Len(cycleQ'))
    BY <1>0, <2>1, LeadsWhenEnough
  <2> QED
    BY <1>1, <2>1, <2>2 DEF LeadsBy, Slots, TimeAt
<1> QED
  BY <1>0, <1>1, <1>5, <1>7, <1>8, <1>9, LookaheadAssumption DEF Backlog

LEMMA BacklogStep ==
    ASSUME Undisturbed, RoomToRender, TypeOK, Protected, Backlog, Next
    PROVE  Backlog'
<1>1. CASE ConductorStep
  BY <1>1, FreeConductorStep, ReleasedBacklog
<1>2. CASE Request
  <2>1. ASSUME NEW d \in Durations, NEW read \in BOOLEAN, Admit(d, read) PROVE Backlog'
    BY <2>1 DEF Admit, Backlog
  <2>2. ASSUME NEW d \in Durations PROVE ~AdmitUnprotected(d) /\ ~PushDirect(d)
    BY DEF AdmitUnprotected, PushDirect, Undisturbed, TypeOK
  <2>3. ~AdmitFails
    BY DEF AdmitFails, Undisturbed
  <2>4. CASE InsertsChanged
    <3>1. flush' /\ UNCHANGED <<cycleQ, hold, balance, position, phase, left, restarted>>
      BY <2>4 DEF InsertsChanged
    <3>2. Forgotten' = Forgotten
      BY <3>1, ForgottenFacts
    <3> QED
      BY <3>1, <3>2 DEF Backlog, LeadsBy, Slots, TimeAt
  <2> QED
    BY <1>2, <2>1, <2>2, <2>3, <2>4, RefilledBacklog DEF Request
<1>3. CASE Tick
  BY <1>3, BacklogTick
<1> QED
  BY <1>1, <1>2, <1>3 DEF Next

(* Whatever rotation leaves room to render, and however many alerts and    *)
(* refills come over it: the conductor queues at most its lookahead, and a *)
(* lookahead more for each restart of its account, and what it queued      *)
(* lasts until it wakes up (_push_until_full and _run).                    *)
THEOREM BacklogIsTrue ==
    ASSUME Undisturbed, RoomToRender
    PROVE  Spec => []BacklogTracked
<1>1. Init => Protected /\ Backlog
  <2>1. Init => Protected
    BY DEF Init, Protected, Free, Covered, Still, Interrupting
  <2>2. Init => LeadsBy(position, Len(cycleQ))
    BY LeadsAtStart DEF Init
  <2>3. Init => Backlog
    <3>1. Init => Forgotten = 0
      BY LookaheadAssumption DEF Init, Forgotten
    <3> QED
      BY <2>2, <3>1, LookaheadAssumption DEF Init, Backlog
  <2> QED
    BY <2>1, <2>3
<1>2. TypeOK /\ Protected /\ Backlog /\ [Next]_vars => (Protected /\ Backlog)'
  <2>1. ASSUME Protected, Backlog, UNCHANGED vars PROVE (Protected /\ Backlog)'
    BY <2>1 DEF Protected, Free, Covered, Still, Interrupting, Backlog, Forgotten, LeadsBy, Slots,
                TimeAt, vars
  <2> QED
    BY <2>1, ProtectedStep, BacklogStep DEF Undisturbed
<1>3. TypeOK /\ Protected /\ Backlog => BacklogTracked
  <2>1. ASSUME TypeOK, Protected, Backlog PROVE QueueBounded
    <3>1. Forgotten \in Nat /\ Lookahead * (1 + restarted) = Lookahead + Forgotten
      BY <2>1, ForgottenFacts, LookaheadAssumption DEF Forgotten, TypeOK
    <3>2. CASE hold
      BY <2>1, <3>1, <3>2, LookaheadAssumption DEF Protected, Still, QueueBounded
    <3>3. CASE ~hold
      BY <2>1, <3>1, <3>3, BacklogFacts, LookaheadAssumption DEF QueueBounded
    <3> QED
      BY <3>2, <3>3
  <2>2. ASSUME TypeOK, Backlog PROVE SleepIsCovered
    BY <2>2, TimingAssumption, BacklogFacts DEF SleepIsCovered
  <2> QED
    BY <2>1, <2>2 DEF BacklogTracked
<1> QED
  BY <1>1, <1>2, <1>3, TypeCorrect, PTL DEF Spec

=============================================================================
