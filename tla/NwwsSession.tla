------------------------------ MODULE NwwsSession ------------------------------
(***************************************************************************)
(* The client of the weather wire (nwws/client.py): a supervisor in the    *)
(* event loop of the process and one worker thread per session, which      *)
(* share three events, the registered XMPP client and a record of what was *)
(* received.  A worker that does not exit within the ten seconds stop()    *)
(* waits for it is left behind, and goes on sharing all of these.          *)
(*                                                                         *)
(* Timers are abstracted: what waits for a time-out may see it whenever    *)
(* what it waits for has not come.  Parsing and logging are left out.      *)
(***************************************************************************)
EXTENDS Naturals, FiniteSets

CONSTANTS
  Workers,   \* worker threads; a thread that ended is used again
  NoWorker,  \* no worker
  MaxSlow    \* bound: workers that take more than ten seconds to exit

ASSUME SessionAssumption ==
  /\ IsFiniteSet(Workers) /\ NoWorker \notin Workers
  /\ MaxSlow \in Nat

VARIABLES
  worker,     \* each worker: what its thread does
  asked,      \* the workers whose loop was asked to stop
  sup,        \* what the supervisor does
  cur,        \* _thread
  client,     \* _xmpp: the worker whose client is registered
  stopEvt, startedEvt, joinedEvt,  \* the shared events
  authFailed, \* _shared.last_error tells of a failed authentication
  mucJoined,  \* _shared.muc_joined
  rx,         \* _shared.last_rx_monotonic: "none", "fresh", or "old", beyond the limit
  slow,       \* workers that were too slow to exit
  confirmed   \* history: the workers whose server let them into the room

eventVars == <<stopEvt, startedEvt, joinedEvt>>
sharedVars == <<authFailed, mucJoined, rx>>
sessionVars == <<worker, asked, sup, cur, client, eventVars, sharedVars, slow, confirmed>>

Running == {"connecting", "session"}
Alive == {w \in Workers : worker[w] # "dead"}

SessionInit ==
  /\ worker = [w \in Workers |-> "dead"] /\ asked = {}
  /\ sup = "top" /\ cur = NoWorker /\ client = NoWorker
  /\ stopEvt = FALSE /\ startedEvt = FALSE /\ joinedEvt = FALSE
  /\ authFailed = FALSE /\ mucJoined = FALSE /\ rx = "none"
  /\ slow = 0 /\ confirmed = {}
-------------------------------------------------------------------------------
(* The supervisor: run_forever and stop.                                   *)

\* Mutated form: the client is not asked.
StopUnasked ==
  /\ sup \in {"top", "error"}
  /\ stopEvt' = TRUE
  /\ sup' = IF sup = "top" THEN "join" ELSE "errorJoin"
  /\ UNCHANGED <<worker, asked, cur, client, startedEvt, joinedEvt, sharedVars, slow, confirmed>>

\* stop(), up to the join: the registered client is asked, whoever it is of.
\* From the top of the loop a worker is started next, after an exception the
\* supervisor backs off.
Stop ==
  /\ sup \in {"top", "error"}
  /\ stopEvt' = TRUE
  /\ asked' = asked \cup ({client} \cap Workers)
  /\ sup' = IF sup = "top" THEN "join" ELSE "errorJoin"
  /\ UNCHANGED <<worker, cur, client, startedEvt, joinedEvt, sharedVars, slow, confirmed>>

\* The join, of a thread that ends in time or of none.
Join ==
  /\ sup \in {"join", "errorJoin"}
  /\ cur \notin Alive
  /\ cur' = NoWorker
  /\ sup' = IF sup = "join" THEN "start" ELSE "backoff"
  /\ UNCHANGED <<worker, asked, client, eventVars, sharedVars, slow, confirmed>>

\* ... or not in time: one that was asked and is slow, or that nobody asked.
GiveUp ==
  /\ sup \in {"join", "errorJoin"}
  /\ cur \in Alive
  /\ \/ /\ cur \in asked \/ worker[cur] = "closing"
        /\ slow < MaxSlow /\ slow' = slow + 1
     \/ /\ cur \notin asked /\ worker[cur] # "closing"
        /\ UNCHANGED slow
  /\ cur' = NoWorker
  /\ sup' = IF sup = "join" THEN "start" ELSE "backoff"
  /\ UNCHANGED <<worker, asked, client, eventVars, sharedVars, confirmed>>

\* Mutated form: the confirmation of the last session is kept.
StartConfirmed(w) ==
  /\ sup = "start" /\ w \notin Alive
  /\ stopEvt' = FALSE /\ startedEvt' = FALSE /\ UNCHANGED joinedEvt
  /\ authFailed' = FALSE /\ mucJoined' = FALSE /\ rx' = "none"
  /\ worker' = [worker EXCEPT ![w] = "starting"]
  /\ asked' = asked \ {w} /\ confirmed' = confirmed \ {w}
  /\ cur' = w /\ sup' = "waitStart"
  /\ UNCHANGED <<client, slow>>

\* The events are cleared, what is shared is reset, and a worker starts.
Start(w) ==
  /\ sup = "start" /\ w \notin Alive
  /\ stopEvt' = FALSE /\ startedEvt' = FALSE /\ joinedEvt' = FALSE
  /\ authFailed' = FALSE /\ mucJoined' = FALSE /\ rx' = "none"
  /\ worker' = [worker EXCEPT ![w] = "starting"]
  /\ asked' = asked \ {w} /\ confirmed' = confirmed \ {w}
  /\ cur' = w /\ sup' = "waitStart"
  /\ UNCHANGED <<client, slow>>

\* A thread gets to its loop within the two seconds of the shortest wait.
Settled == \A w \in Workers : worker[w] # "starting"

\* The wait for the session, then for the room: each ends with its event or
\* with its time-out, 25 and 35 seconds.
WaitStart ==
  /\ sup = "waitStart"
  /\ startedEvt \/ Settled
  /\ sup' = IF startedEvt /\ ~authFailed THEN "waitJoin" ELSE "backoff"
  /\ UNCHANGED <<worker, asked, cur, client, eventVars, sharedVars, slow, confirmed>>

WaitJoin ==
  /\ sup = "waitJoin"
  /\ sup' = IF joinedEvt THEN "monitor" ELSE "backoff"
  /\ UNCHANGED <<worker, asked, cur, client, eventVars, sharedVars, slow, confirmed>>

BackOff ==
  /\ sup = "backoff" /\ Settled
  /\ sup' = "top"
  /\ UNCHANGED <<worker, asked, cur, client, eventVars, sharedVars, slow, confirmed>>

\* Mutated form: a session that fell silent is not noticed.
LostUnlessSilent == stopEvt \/ authFailed

\* What the monitor looks at every five seconds.  A session that never
\* received anything does not count as silent.
Lost == stopEvt \/ authFailed \/ (mucJoined /\ rx = "old")

Monitor ==
  /\ sup = "monitor" /\ Settled /\ Lost
  /\ sup' = "error"
  /\ UNCHANGED <<worker, asked, cur, client, eventVars, sharedVars, slow, confirmed>>
-------------------------------------------------------------------------------
(* A worker: _thread_main and the handlers of its XMPP client.             *)

\* The client is registered, and connects.
Register(w) ==
  /\ worker[w] = "starting"
  /\ worker' = [worker EXCEPT ![w] = "connecting"]
  /\ client' = w
  /\ UNCHANGED <<asked, sup, cur, eventVars, sharedVars, slow, confirmed>>

\* An exception, or a connect() that returns False.
Fail(w) ==
  /\ worker[w] \in {"starting"} \cup Running
  /\ startedEvt' = TRUE
  /\ worker' = [worker EXCEPT ![w] = "closing"]
  /\ UNCHANGED <<asked, sup, cur, client, stopEvt, joinedEvt, sharedVars, slow, confirmed>>

\* _on_failed_auth.
FailAuth(w) ==
  /\ worker[w] = "connecting"
  /\ authFailed' = TRUE /\ startedEvt' = TRUE
  /\ worker' = [worker EXCEPT ![w] = "closing"]
  /\ UNCHANGED <<asked, sup, cur, client, stopEvt, joinedEvt, mucJoined, rx, slow, confirmed>>

\* _on_session_start_impl: started, whether the room lets it in or not.
SessionStart(w) ==
  /\ worker[w] = "connecting"
  /\ startedEvt' = TRUE
  /\ worker' = [worker EXCEPT ![w] = "session"]
  /\ UNCHANGED <<asked, sup, cur, client, stopEvt, joinedEvt, sharedVars, slow, confirmed>>

\* Our own presence in the room.
Presence(w) ==
  /\ worker[w] = "session" /\ w \notin confirmed
  /\ confirmed' = confirmed \cup {w}
  /\ mucJoined' = TRUE /\ joinedEvt' = TRUE
  /\ UNCHANGED <<worker, asked, sup, cur, client, stopEvt, startedEvt, authFailed, rx, slow>>

\* _on_message from the room, the other way to be let in.
Message(w) ==
  /\ worker[w] = "session"
  /\ confirmed' = confirmed \cup {w}
  /\ rx' = "fresh" /\ mucJoined' = TRUE
  /\ joinedEvt' = (joinedEvt \/ ~mucJoined)
  /\ UNCHANGED <<worker, asked, sup, cur, client, stopEvt, startedEvt, authFailed, slow>>

\* The stream ends: the server's doing, or that of request_stop.
Disconnect(w) ==
  /\ worker[w] \in Running
  /\ worker' = [worker EXCEPT ![w] = "closing"]
  /\ UNCHANGED <<asked, sup, cur, client, eventVars, sharedVars, slow, confirmed>>

Obey(w) == w \in asked /\ Disconnect(w)

\* Mutated form: the end of a worker is not told.
EndSilently(w) ==
  /\ worker[w] = "closing"
  /\ worker' = [worker EXCEPT ![w] = "dead"]
  /\ client' = NoWorker
  /\ UNCHANGED <<asked, sup, cur, eventVars, sharedVars, slow, confirmed>>

\* The last lines of the thread: whatever client is registered goes, and the
\* stop event is set, whoever is supervised by then.
End(w) ==
  /\ worker[w] = "closing"
  /\ worker' = [worker EXCEPT ![w] = "dead"]
  /\ client' = NoWorker /\ stopEvt' = TRUE
  /\ UNCHANGED <<asked, sup, cur, startedEvt, joinedEvt, sharedVars, slow, confirmed>>

\* Time passes without a message.
Silence ==
  /\ rx = "fresh" /\ rx' = "old"
  /\ UNCHANGED <<worker, asked, sup, cur, client, eventVars, authFailed, mucJoined, slow, confirmed>>

Supervise == Stop \/ Join \/ GiveUp \/ (\E w \in Workers : Start(w))
             \/ WaitStart \/ WaitJoin \/ BackOff \/ Monitor

Work(w) == \/ Register(w) \/ Fail(w) \/ FailAuth(w) \/ SessionStart(w) \/ Presence(w)
           \/ Message(w) \/ Disconnect(w) \/ End(w)

SessionNext == Supervise \/ (\E w \in Workers : Work(w)) \/ Silence

SessionSpec == SessionInit /\ [][SessionNext]_sessionVars
-------------------------------------------------------------------------------
(* Properties                                                              *)

\* The variables have their types.
SessionTypeOK ==
  /\ worker \in [Workers -> {"dead", "starting", "connecting", "session", "closing"}]
  /\ asked \subseteq Workers /\ confirmed \subseteq Workers
  /\ sup \in {"top", "join", "start", "waitStart", "waitJoin", "monitor", "error",
              "errorJoin", "backoff"}
  /\ cur \in Workers \cup {NoWorker} /\ client \in Workers \cup {NoWorker}
  /\ \A e \in {stopEvt, startedEvt, joinedEvt, authFailed, mucJoined} : e \in BOOLEAN
  /\ rx \in {"none", "fresh", "old"} /\ slow \in 0 .. MaxSlow

\* The monitor cannot miss the end of the worker it supervises, whenever it
\* comes and whatever other workers do to the events.
DeathIsNoticed ==
  sup \in {"waitStart", "waitJoin", "monitor"} /\ worker[cur] = "dead" => stopEvt

\* As long as every worker exits in time, the supervisor monitors a session
\* only when that very session was let into the room, and never two at once.
SupervisedIsConfirmed ==
  slow = 0 /\ sup = "monitor" => cur \in confirmed /\ Alive \subseteq {cur}

\* A worker that was too slow leaves at most one more session behind at a
\* time: its end may take the supervision from its successor, which then is
\* left running in its place.
OrphansBounded == Cardinality(Alive \ {cur}) <= slow

SessionSafe == DeathIsNoticed /\ SupervisedIsConfirmed /\ OrphansBounded

\* A session that ended, or that fell silent for good, is replaced.
LostIsReplaced ==
  /\ (sup = "monitor" /\ worker[cur] = "dead") ~> (sup = "waitStart")
  /\ (sup = "monitor" /\ rx = "old") ~> (sup = "waitStart" \/ rx = "fresh")
===============================================================================
