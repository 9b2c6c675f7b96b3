------------------------------- MODULE Services -------------------------------
(***************************************************************************)
(* Three services that run beside the airing of alerts and share no state: *)
(* the client of the weather wire, the health of the sources and the       *)
(* public feed.  As no step of one touches another, a behaviour of this    *)
(* specification follows one of them, and leaves the others as they began. *)
(***************************************************************************)
EXTENDS NwwsSession, HealthState, StationFeed

VARIABLE part  \* the service that this behaviour follows

vars == <<part, sessionVars, healthVars, feedVars>>

Init ==
  /\ part \in {"session", "health", "feed"}
  /\ SessionInit /\ HealthInit /\ FeedInit

Session(A) == part = "session" /\ A /\ UNCHANGED <<part, healthVars, feedVars>>
Health(A) == part = "health" /\ A /\ UNCHANGED <<part, sessionVars, feedVars>>
Feed(A) == part = "feed" /\ A /\ UNCHANGED <<part, sessionVars, healthVars>>

Next == Session(SessionNext) \/ Health(HealthNext) \/ Feed(FeedNext)

Spec == Init /\ [][Next]_vars

\* The supervisor runs, a thread gets to its loop, a worker that was asked
\* obeys and a closing one ends; nothing is assumed of the server.  The event
\* loop ends its transactions and the thread its rounds, and one in which no
\* note comes in between comes up again and again.
Fairness ==
  /\ WF_vars(Session(Supervise))
  /\ \A w \in Workers : /\ WF_vars(Session(Register(w)))
                        /\ WF_vars(Session(Obey(w)))
                        /\ WF_vars(Session(End(w)))
  /\ WF_vars(Feed(Write))
  /\ WF_vars(Feed(Forget \/ Delete \/ Prune))
  /\ SF_vars(Feed(Look /\ hk' = "remove"))

FairSpec == Spec /\ Fairness
-------------------------------------------------------------------------------
\* The variables have their types; what is not well has its reasons.
TypeOK == SessionTypeOK /\ HealthTypeOK
===============================================================================
