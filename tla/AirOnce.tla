------------------------------- MODULE AirOnce -------------------------------
(***************************************************************************)
(* What the dedupe of alert messages promises, without the runtimes, the   *)
(* worker, the queues and the map that keep the promise: a message may be  *)
(* claimed only when no message that shares something with it is claimed,  *)
(* or was aired by this process within the window.  A claim ends by going  *)
(* on the air or without a trace.                                          *)
(***************************************************************************)
EXTENDS Integers

CONSTANTS
    Claimant,  \* who may work on a message
    Message,   \* what may be aired
    Shared,    \* the pairs of messages that must not follow each other
    Window     \* how long an airing keeps the others off

VARIABLES
    now,       \* the time
    process,   \* which process this is
    claims,    \* the claims being worked on: who, what and since when
    aired      \* history: what went on the air, since when, by which process

vars == <<now, process, claims, aired>>

Init ==
    /\ now = 0
    /\ process = 1
    /\ claims = {}
    /\ aired = {}

(* Nothing that shares a key is being worked on, or was aired a moment ago. *)
Free(m) ==
    /\ \A c \in claims : <<c.msg, m>> \notin Shared
    /\ \A a \in aired : (a.life = process /\ <<a.msg, m>> \in Shared) => now - a.since > Window

(* A claimant works on one message at a time. *)
Claim(w, m) ==
    /\ \A c \in claims : c.by # w
    /\ Free(m)
    /\ claims' = claims \cup {[by |-> w, msg |-> m, since |-> now]}
    /\ UNCHANGED <<now, process, aired>>

Air(c) ==
    /\ claims' = claims \ {c}
    /\ aired' = aired \cup {[msg |-> c.msg, since |-> c.since, life |-> process]}
    /\ UNCHANGED <<now, process>>

GiveUp(c) ==
    /\ claims' = claims \ {c}
    /\ UNCHANGED <<now, process, aired>>

Forget ==
    /\ claims' = {}
    /\ UNCHANGED <<now, process, aired>>

Renew ==
    /\ claims = {}
    /\ process' = process + 1
    /\ UNCHANGED <<now, claims, aired>>

(* A claim never gets older than the window. *)
Pass ==
    /\ \A c \in claims : now - c.since < Window
    /\ now' = now + 1
    /\ UNCHANGED <<process, claims, aired>>

Next ==
    \/ \E w \in Claimant : \E m \in Message : Claim(w, m)
    \/ \E c \in claims : Air(c) \/ GiveUp(c)
    \/ Forget
    \/ Renew
    \/ Pass

Spec == Init /\ [][Next]_vars

=============================================================================
