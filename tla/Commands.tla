------------------------------- MODULE Commands -------------------------------
(***************************************************************************)
(* The store of API commands (api/commands.py, database/commands.py) and   *)
(* the HTTP handler that runs one (_execute in api/api.py).  A client      *)
(* names a command by an idempotency key: the first request with a key     *)
(* runs the command, later ones get what is known of it.  What a command   *)
(* does to the station is added by the module that composes the two.       *)
(*                                                                         *)
(* A key stands for a whole request; clients that reuse a key for another  *)
(* payload are turned away before anything changes, as are requests the    *)
(* API does not authorise.  Published events are left out.                 *)
(***************************************************************************)
EXTENDS Integers

CONSTANTS
  Keys,         \* idempotency keys
  None,         \* no record
  MaxDbFaults,  \* bound: failed statements
  MaxCrashes    \* bound: ends of the process

ASSUME NoRecordAssumption == None \notin {"pending", "running", "succeeded", "failed"}

VARIABLES
  known,     \* _commands_by_idempotency_key: the status of a key's record
  stored,    \* api_commands: the same
  calls,     \* the requests under way: what each key's first request does next
  ran,       \* history: how often the command of a key was carried out
  pruned,    \* history: the keys whose rows were pruned
  dbFaults,  \* failed statements so far
  crashes    \* ends of the process so far

commandVars == <<known, stored, calls, ran, pruned, dbFaults, crashes>>

Ended == {"succeeded", "failed"}
Status == {"pending", "running"} \cup Ended

CommandsInit ==
  /\ known = [k \in Keys |-> None] /\ stored = [k \in Keys |-> None]
  /\ calls = [k \in Keys |-> "idle"]
  /\ ran = [k \in Keys |-> 0] /\ pruned = {}
  /\ dbFaults = 0 /\ crashes = 0

\* _persist_record: a row is inserted, or updated when it is there.
Persist(k, status, insert, fails) ==
  /\ fails => dbFaults < MaxDbFaults
  /\ dbFaults' = dbFaults + (IF fails THEN 1 ELSE 0)
  /\ stored' = IF fails \/ (~insert /\ stored[k] = None) THEN stored
               ELSE [stored EXCEPT ![k] = status]

\* Mutated form: the repository is not asked for a key.
ExistingInMemory(k) == known[k]

\* The record of a key: from memory, else from the repository.
Existing(k) == IF known[k] # None THEN known[k] ELSE stored[k]

\* create_or_replay of a new key.  The record is kept in memory before it is
\* inserted, so it stays there when the insert raises and the request fails.
Accept(k, fails) ==
  /\ Existing(k) = None
  /\ known' = [known EXCEPT ![k] = "pending"]
  /\ Persist(k, "pending", TRUE, fails)
  /\ calls' = [calls EXCEPT ![k] = IF fails THEN "idle" ELSE "accepted"]
  /\ UNCHANGED <<ran, pruned, crashes>>

\* create_or_replay of a known key: the record is read into memory and its
\* number of replays written back.
Replay(k, fails) ==
  /\ Existing(k) # None
  /\ known' = [known EXCEPT ![k] = Existing(k)]
  /\ Persist(k, Existing(k), FALSE, fails)
  /\ UNCHANGED <<calls, ran, pruned, crashes>>

\* mark_running; the handler does not catch its failure.
MarkRunning(k, fails) ==
  /\ calls[k] = "accepted"
  /\ known' = [known EXCEPT ![k] = "running"]
  /\ Persist(k, "running", FALSE, fails)
  /\ calls' = [calls EXCEPT ![k] = IF fails THEN "idle" ELSE "running"]
  /\ UNCHANGED <<ran, pruned, crashes>>

\* The action of the command: done, or refused with a ControlError, or it
\* raises something else.
Execute(k, done) ==
  /\ calls[k] = "running"
  /\ calls' = [calls EXCEPT ![k] = IF done THEN "succeeded" ELSE "failed"]
  /\ ran' = [ran EXCEPT ![k] = IF done THEN @ + 1 ELSE @]
  /\ UNCHANGED <<known, stored, pruned, dbFaults, crashes>>

\* Mutated form: only a success is recorded.
FinishSuccess(k, fails) ==
  /\ calls[k] = "succeeded"
  /\ known' = [known EXCEPT ![k] = calls[k]]
  /\ Persist(k, calls[k], FALSE, fails)
  /\ calls' = [calls EXCEPT ![k] = "idle"]
  /\ UNCHANGED <<ran, pruned, crashes>>

\* mark_succeeded or mark_failed.
Finish(k, fails) ==
  /\ calls[k] \in Ended
  /\ known' = [known EXCEPT ![k] = calls[k]]
  /\ Persist(k, calls[k], FALSE, fails)
  /\ calls' = [calls EXCEPT ![k] = "idle"]
  /\ UNCHANGED <<ran, pruned, crashes>>

\* prune_terminal_before: rows that ended two weeks ago go, the records in
\* memory stay.
Prune(k) ==
  /\ stored[k] \in Ended
  /\ stored' = [stored EXCEPT ![k] = None]
  /\ pruned' = pruned \cup {k}
  /\ UNCHANGED <<known, calls, ran, dbFaults, crashes>>

\* The process ends, with the requests under way.
CommandsCrash ==
  /\ crashes < MaxCrashes
  /\ crashes' = crashes + 1
  /\ known' = [k \in Keys |-> None]
  /\ calls' = [k \in Keys |-> "idle"]
  /\ UNCHANGED <<stored, ran, pruned, dbFaults>>

\* A command is carried out once, whatever clients repeat, however statements
\* fail and whenever the process ends, as long as its row is kept.
RanOnce == \A k \in Keys \ pruned : ran[k] <= 1

\* A command that was accepted gets its outcome, as long as the process lives
\* and its statements work: no client is told "running" for ever.
AcceptedEnds ==
  \A k \in Keys :
    calls[k] = "accepted" ~> known[k] \in Ended \/ crashes > 0 \/ dbFaults > 0
===============================================================================
