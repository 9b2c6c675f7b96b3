------------------------------ MODULE StationFeed ------------------------------
(***************************************************************************)
(* The public feed of handled alerts (broadcast/station_feed_runtime.py,   *)
(* database/station_feed.py): what was aired is noted in memory and in a   *)
(* table, which is what the API shows.  A thread of its own keeps house,   *)
(* between any two steps of the event loop; failures of the table are      *)
(* swallowed; a restart reads the table.                                   *)
(*                                                                         *)
(* An entry is its time of expiry; headlines, links and areas are left     *)
(* out.  Housekeeping and the notes take no time.                          *)
(***************************************************************************)
EXTENDS Integers, FiniteSets, FiniteSetsExt

CONSTANTS
  Ids,       \* identifiers of entries: VTEC tracks, relays, tests
  Relays,    \* those of ERN relays
  Notes,     \* what may be noted: [by, ids, first, ends, lasts, dated]
  MaxItems,  \* max_items
  Grace,     \* grace_sec of housekeeping, in units
  LastTime,  \* bound of the clock
  MaxBreaks  \* bound: failed transactions and restarts

ASSUME FeedAssumption ==
  /\ IsFiniteSet(Ids) /\ Relays \subseteq Ids
  /\ \A n \in Notes : /\ n.by \in {"office", "relay", "local"}
                      /\ n.ids \subseteq Ids /\ n.first \in n.ids
                      /\ n.ends \in BOOLEAN /\ n.dated \in BOOLEAN
                      /\ n.lasts \in Nat \ {0}
  /\ MaxItems \in Nat \ {0} /\ Grace \in Nat

VARIABLES
  time,
  memory,   \* _STATION_FEED_STATE: of each identifier its expiry, or 0
  rows,     \* station_feed_alerts: the same
  undated,  \* the rows whose payload has no expiry
  write,    \* the transaction the event loop is about to run, or NoWrite
  hk,       \* the housekeeping thread: what it does next
  gone,     \* the identifiers it found expired, then those it removed
  breaks,   \* failed transactions and restarts so far
  aired,    \* history: of each identifier the expiry last noted, or 0
  ended,    \* history: the identifiers last noted as over
  raced     \* history: those noted anew while housekeeping removed the old

feedVars == <<time, memory, rows, undated, write, hk, gone, breaks, aired, ended, raced>>

Nothing == [i \in Ids |-> 0]
NoWrite == [op |-> "none", ids |-> {}, until |-> 0]
Present(f) == {i \in Ids : f[i] > 0}
Without(f, ids) == [i \in Ids |-> IF i \in ids THEN 0 ELSE f[i]]

\* The n entries that expire last; of equal ones, any.
Latest(f, n) ==
  {S \in SUBSET Present(f) :
     /\ Cardinality(S) = Min({n, Cardinality(Present(f))})
     /\ \A i \in S, j \in Present(f) \ S : f[i] >= f[j]}

FeedInit ==
  /\ time = 1
  /\ memory = Nothing /\ rows = Nothing /\ undated = {}
  /\ write = NoWrite /\ hk = "idle" /\ gone = {} /\ breaks = 0
  /\ aired = Nothing /\ ended = {} /\ raced = {}
-------------------------------------------------------------------------------
(* The event loop: what the runtimes note after an airing.                 *)

\* Mutated form: the table is asked to delete what memory knew.
RemoveKnown(ids) ==
  /\ memory' = Without(memory, ids)
  /\ write' = [op |-> "delete", ids |-> ids \cap Present(memory), until |-> 0]

\* _sf_remove_ids, up to the transaction.
Remove(ids) ==
  /\ memory' = Without(memory, ids)
  /\ write' = [op |-> "delete", ids |-> ids, until |-> 0]

\* _sf_emit: the entry of an alert, up to the transaction.
Emit(i, lasts, dated) ==
  /\ memory' = [memory EXCEPT ![i] = time + lasts]
  /\ write' = [op |-> "upsert", ids |-> {i}, until |-> time + lasts]
  /\ undated' = IF dated THEN undated \ {i} ELSE undated \cup {i}
  /\ aired' = [aired EXCEPT ![i] = time + lasts]
  /\ ended' = ended \ {i}
  /\ raced' = (raced \ {i}) \cup ({i} \cap gone)

\* note_nwws: one action that ends a track removes all tracks of the product;
\* else it goes by the first of them.
NoteTracks(n) ==
  IF ~n.ends THEN Emit(n.first, n.lasts, n.dated)
  ELSE /\ Remove(n.ids)
       /\ aired' = Without(aired, n.ids)
       /\ ended' = ended \cup n.ids /\ raced' = raced \ n.ids
       /\ UNCHANGED undated

\* Relays, tests and manual messages get an identifier of their own each time,
\* which here is one of which nothing is left.
Fresh(i) == memory[i] = 0 /\ rows[i] = 0 /\ i \notin gone

\* note_ern: without an expiry if the header is garbled.
NoteRelay(n) == Fresh(n.first) /\ Emit(n.first, n.lasts, n.dated)

\* note_required_test and note_manual.
NoteLocal(n) == Fresh(n.first) /\ Emit(n.first, n.lasts, TRUE)

\* A runtime notes what it aired, note_cap for alerts by CAP, which has tracks
\* as the products of the wire do.
Note(n) ==
  /\ write = NoWrite
  /\ CASE n.by = "office" -> NoteTracks(n)
       [] n.by = "relay"  -> NoteRelay(n)
       [] n.by = "local"  -> NoteLocal(n)
  /\ UNCHANGED <<time, rows, hk, gone, breaks>>

\* _sf_remove_ern_relays_matching: the authoritative alert covers relays that
\* memory knows.
RemoveRelays ==
  /\ write = NoWrite
  /\ \E ids \in SUBSET (Relays \cap Present(memory)) \ {{}} :
       Remove(ids) /\ aired' = Without(aired, ids) /\ ended' = ended \cup ids
  /\ UNCHANGED <<time, rows, undated, hk, gone, breaks, raced>>

\* A transaction fails; the caller logs it and goes on.
Break == breaks < MaxBreaks /\ breaks' = breaks + 1

\* upsert_alert or delete_alerts.
Write ==
  /\ write # NoWrite
  /\ \/ /\ rows' = [i \in Ids |-> IF i \in write.ids THEN write.until ELSE rows[i]]
        /\ UNCHANGED breaks
     \/ UNCHANGED rows /\ Break
  /\ write' = NoWrite
  /\ UNCHANGED <<time, memory, undated, hk, gone, aired, ended, raced>>
-------------------------------------------------------------------------------
(* The thread: _sf_station_feed_housekeeping_once.                         *)

\* _sf_prune looks for what has expired; an entry that comes while it looks
\* makes it raise, which ends this round.
Look ==
  /\ hk = "idle"
  /\ \/ /\ gone' = {i \in Present(memory) : memory[i] <= time}
        /\ hk' = "remove"
     \/ /\ write # NoWrite
        /\ UNCHANGED <<gone, hk>>
  /\ UNCHANGED <<time, memory, rows, undated, write, breaks, aired, ended, raced>>

\* What it found is removed, renewed or not, then what exceeds max_items.
Forget ==
  /\ hk = "remove"
  /\ LET left == Without(memory, gone)
     IN  \E kept \in Latest(left, MaxItems) :
           /\ memory' = Without(left, Ids \ kept)
           /\ gone' = (gone \cap Present(memory)) \cup (Present(left) \ kept)
           /\ aired' = Without(aired, Present(left) \ kept)
  /\ hk' = "delete"
  /\ UNCHANGED <<time, rows, undated, write, breaks, ended, raced>>

\* The rows of what was removed.
Delete ==
  /\ hk = "delete"
  /\ \/ rows' = Without(rows, gone) /\ UNCHANGED breaks
     \/ UNCHANGED rows /\ Break
  /\ hk' = "prune" /\ gone' = {}
  /\ UNCHANGED <<time, memory, undated, write, aired, ended, raced>>

\* Mutated form: what is not in memory is not pruned.
KeptForgotten == {i \in Present(rows) : rows[i] >= time - Grace \/ i \notin Present(memory)}

\* prune_expired: rows stay until their grace is over.
Kept == {i \in Present(rows) : rows[i] >= time - Grace}

\* _sf_repo_housekeep: prune_expired, then trim_to_max.
Prune ==
  /\ hk = "prune"
  /\ \/ /\ \E kept \in Latest(Without(rows, Ids \ Kept), MaxItems) :
             /\ rows' = Without(rows, Ids \ kept)
             /\ aired' = Without(aired, Kept \ kept)
        /\ UNCHANGED breaks
     \/ UNCHANGED <<rows, aired>> /\ Break
  /\ hk' = "idle"
  /\ UNCHANGED <<time, memory, undated, write, gone, ended, raced>>

Thread == Look \/ Forget \/ Delete \/ Prune
-------------------------------------------------------------------------------
\* The process ends and another hydrates its memory from the table; entries
\* whose payload tells no expiry are passed over.
Restart ==
  /\ Break
  /\ \E S \in Latest(Without(rows, {i \in Ids : rows[i] < time}), MaxItems) :
       memory' = Without(rows, (Ids \ S) \cup undated \cup {i \in Ids : rows[i] <= time})
  /\ write' = NoWrite /\ hk' = "idle" /\ gone' = {}
  /\ UNCHANGED <<time, rows, undated, aired, ended, raced>>

\* Between two rounds of the thread, when nothing is under way.
FeedTick ==
  /\ time < LastTime
  /\ write = NoWrite /\ hk = "idle"
  /\ time' = time + 1
  /\ UNCHANGED <<memory, rows, undated, write, hk, gone, breaks, aired, ended, raced>>

FeedNext == \/ \E n \in Notes : Note(n)
            \/ RemoveRelays \/ Write \/ Thread \/ Restart \/ FeedTick

FeedSpec == FeedInit /\ [][FeedNext]_feedVars
-------------------------------------------------------------------------------
(* Properties                                                              *)

\* get_public_handled_alerts: what the API may show now.
Showable == {i \in Ids : rows[i] >= time}

\* The public feed shows every alert that was aired and is not over, for all
\* that housekeeping does at the same time; only an alert that is renewed at
\* the very moment its old entry is cleaned up may go missing.
LiveIsShown ==
  breaks = 0 /\ write = NoWrite /\ hk = "idle" =>
    \A i \in Ids \ raced : aired[i] > time => i \in Showable

\* An alert whose end was noted is not shown any more, and neither a late row
\* nor memory brings it back.
EndedIsNotShown ==
  breaks = 0 /\ write = NoWrite => ended \cap (Showable \cup Present(memory)) = {}

FeedFollowsAir == LiveIsShown /\ EndedIsNotShown

\* What has expired leaves the table, even a row that memory lost, that no
\* entry expires, or whose deletion failed.
ExpiredLeaves ==
  \A i \in Ids : (rows[i] > 0 /\ rows[i] < time - Grace)
                   ~> (rows[i] = 0 \/ rows[i] >= time - Grace)
===============================================================================
