----------------------------- MODULE CapLedger -----------------------------
(***************************************************************************)
(* The persistent "seen" ledger of the CAP pollers: alerts/cap_ledger.py,  *)
(* the table it writes (database/alerts.py) and the poll loops of          *)
(* alerts/cap_nws.py and alerts/ipaws_cap.py.                              *)
(*                                                                         *)
(* Each poller owns a ledger object, loaded when it is first asked and     *)
(* saved as a whole: the table is emptied and refilled from the poller's   *)
(* own entries.  All the ledgers share that one table; each has a JSON     *)
(* file of its own, written when the database refuses and read when the    *)
(* table is empty.                                                         *)
(*                                                                         *)
(* Once the feed is fetched a poll runs without an await, from the first   *)
(* look at the ledger to the save: it is one step, and a process killed in *)
(* the middle of it aired nothing of it.                                   *)
(***************************************************************************)
EXTENDS Integers, FiniteSets, Functions

CONSTANTS
    Pollers,       \* the CAP sources of the station
    Alerts,        \* alerts a feed may offer, a new `sent` making a new one
    MaxAge,        \* max_age_days: entries older than that are dropped
    OfferTime,     \* bound: how long an alert stays in the feeds
    QueueMax,      \* maxsize of an output queue
    MaxSeenKeys,   \* size beyond which the in-memory set of a poller is cleared
    MaxLives,      \* bound: starts of the process
    MaxTime,       \* bound: units of time
    StoreFails     \* the database or the file system may refuse

ASSUME SourcesAssumption == IsFiniteSet(Pollers) /\ IsFiniteSet(Alerts)
ASSUME BoundsAssumption == /\ MaxAge \in Nat /\ OfferTime \in Nat
                           /\ QueueMax \in Nat /\ MaxSeenKeys \in Nat
                           /\ MaxLives \in Nat /\ MaxTime \in Nat
ASSUME StoreAssumption == StoreFails \in BOOLEAN

VARIABLES
    feed,      \* when the alerts offered now were published
    past,      \* the alerts withdrawn from the feeds
    table,     \* cap_seen_ledger: when each key was marked
    files,     \* the JSON file of each poller
    loaded,    \* CapLedger._loaded, per poller
    mem,       \* CapLedger._seen, per poller
    seenKeys,  \* _seen_keys, per poller
    queue,     \* out_queue, per poller
    offered,   \* history: what a poller tried to queue, in any life
    taken,     \* how often an alert was handled, per poller, in this life
    before,    \* the same, in earlier lives
    life,      \* starts of the process
    clock

vars == <<feed, past, table, files, loaded, mem, seenKeys, queue, offered, taken, before, life, clock>>

(* _dedupe_key: the source's prefix, the identifier and `sent`. *)
Key(p, a) == <<p, a>>

Keys == {Key(p, a) : p \in Pollers, a \in Alerts}

Ledgers == UNION {[D -> 0 .. MaxTime] : D \in SUBSET Keys}

NoEntries == [k \in {} |-> 0]

TypeOK ==
    /\ DOMAIN feed \subseteq Alerts /\ \A a \in DOMAIN feed : feed[a] \in 0 .. clock
    /\ past \subseteq Alerts \ DOMAIN feed
    /\ table \in Ledgers
    /\ files \in [Pollers -> Ledgers]
    /\ loaded \in [Pollers -> BOOLEAN]
    /\ mem \in [Pollers -> Ledgers]
    /\ seenKeys \in [Pollers -> SUBSET Keys]
    /\ queue \in [Pollers -> SUBSET Alerts]
    /\ \A p \in Pollers : Cardinality(queue[p]) <= QueueMax
    /\ offered \in [Pollers -> SUBSET Alerts]
    /\ taken \in [Pollers -> [Alerts -> Nat]]
    /\ before \in [Pollers -> [Alerts -> Nat]]
    /\ life \in 1 .. MaxLives
    /\ clock \in 0 .. MaxTime

-----------------------------------------------------------------------------
(* The ledger *)

(* Mutated form: an entry goes when it reaches the maximal age. *)
CleanedEarly(e) == Restrict(e, {k \in DOMAIN e : e[k] > clock - MaxAge})

(* cleanup *)
Cleaned(e) == Restrict(e, {k \in DOMAIN e : e[k] >= clock - MaxAge})

(* What a read of the table gives; a failure reads as nothing.             *)
Rows(reads) == IF reads THEN table ELSE NoEntries

(* _load: the rows of the table, or else of the file.                      *)
Loaded(p, reads) ==
    IF loaded[p] THEN mem[p]
    ELSE Cleaned(IF Rows(reads) # NoEntries THEN Rows(reads) ELSE files[p])

(* _load moves the entries it found in the file to the table.              *)
Imported(p, reads, imports) ==
    IF ~loaded[p] /\ Rows(reads) = NoEntries /\ files[p] # NoEntries /\ imports
    THEN files[p] ELSE table

(* mark *)
Marked(e, ks) == [k \in DOMAIN e \cup ks |-> IF k \in ks THEN clock ELSE e[k]]

-----------------------------------------------------------------------------
Init ==
    /\ feed = [a \in {} |-> 0] /\ past = {}
    /\ table = NoEntries
    /\ files = [p \in Pollers |-> NoEntries]
    /\ loaded = [p \in Pollers |-> FALSE]
    /\ mem = [p \in Pollers |-> NoEntries]
    /\ seenKeys = [p \in Pollers |-> {}]
    /\ queue = [p \in Pollers |-> {}]
    /\ offered = [p \in Pollers |-> {}]
    /\ taken = [p \in Pollers |-> [a \in Alerts |-> 0]]
    /\ before = [p \in Pollers |-> [a \in Alerts |-> 0]]
    /\ life = 1
    /\ clock = 0

Publish(a) ==
    /\ a \notin DOMAIN feed \cup past
    /\ feed' = [b \in DOMAIN feed \cup {a} |-> IF b = a THEN clock ELSE feed[b]]
    /\ UNCHANGED <<past, table, files, loaded, mem, seenKeys, queue, offered, taken, before, life, clock>>

Withdraw(a) ==
    /\ a \in DOMAIN feed
    /\ feed' = Restrict(feed, DOMAIN feed \ {a})
    /\ past' = past \cup {a}
    /\ UNCHANGED <<table, files, loaded, mem, seenKeys, queue, offered, taken, before, life, clock>>

Outcomes == IF StoreFails THEN BOOLEAN ELSE {TRUE}

(* Mutated form: only the in-memory set is asked. *)
UnseenUnlessCached(p, known, s) == {a \in s : Key(p, a) \notin seenKeys[p]}

Unseen(p, known, s) == {a \in s : Key(p, a) \notin seenKeys[p] \cup DOMAIN known}

(* put_nowait: what the queue takes; the rest is dropped, but marked.      *)
Fitting(p, new, fit) ==
    /\ fit \subseteq new
    /\ Cardinality(queue[p] \cup fit) <= QueueMax
    /\ fit = new \/ Cardinality(queue[p] \cup fit) = QueueMax

(* flush, when something was marked: the table is replaced, or else the    *)
(* file, or else nothing.                                                  *)
Flush(p, entries, rows, saves, spills) ==
    IF saves THEN table' = entries /\ UNCHANGED files
    ELSE /\ table' = rows
         /\ files' = IF spills THEN [files EXCEPT ![p] = entries] ELSE files

(* A poll whose fetch gives the alerts s.                                  *)
Poll(p, s) ==
    /\ \E reads, imports, saves, spills \in Outcomes, fit \in SUBSET s :
         LET asked == \E a \in s : Key(p, a) \notin seenKeys[p]
             known == IF asked THEN Loaded(p, reads) ELSE mem[p]
             rows == IF asked THEN Imported(p, reads, imports) ELSE table
             new == Unseen(p, known, s)
             keys == seenKeys[p] \cup {Key(p, a) : a \in s}
             entries == Cleaned(Marked(known, {Key(p, a) : a \in new}))
         IN  /\ Fitting(p, new, fit)
             /\ queue' = [queue EXCEPT ![p] = @ \cup fit]
             /\ offered' = [offered EXCEPT ![p] = @ \cup new]
             /\ loaded' = [loaded EXCEPT ![p] = @ \/ asked]
             /\ seenKeys' = [seenKeys EXCEPT ![p] = IF Cardinality(keys) > MaxSeenKeys THEN {} ELSE keys]
             /\ IF new # {}
                THEN /\ mem' = [mem EXCEPT ![p] = entries]
                     /\ Flush(p, entries, rows, saves, spills)
                ELSE /\ mem' = [mem EXCEPT ![p] = known]
                     /\ table' = rows
                     /\ UNCHANGED files
    /\ UNCHANGED <<feed, past, taken, before, life, clock>>

(* The alert is taken from the queue and handled.                          *)
Consume(p, a) ==
    /\ a \in queue[p]
    /\ queue' = [queue EXCEPT ![p] = @ \ {a}]
    /\ taken' = [taken EXCEPT ![p][a] = @ + 1]
    /\ UNCHANGED <<feed, past, table, files, loaded, mem, seenKeys, offered, before, life, clock>>

(* The process dies and starts again: what is not stored is lost.          *)
Restart ==
    /\ life < MaxLives
    /\ life' = life + 1
    /\ loaded' = [p \in Pollers |-> FALSE]
    /\ mem' = [p \in Pollers |-> NoEntries]
    /\ seenKeys' = [p \in Pollers |-> {}]
    /\ queue' = [p \in Pollers |-> {}]
    /\ before' = [p \in Pollers |-> [a \in Alerts |-> before[p][a] + taken[p][a]]]
    /\ taken' = [p \in Pollers |-> [a \in Alerts |-> 0]]
    /\ UNCHANGED <<feed, past, table, files, offered, clock>>

(* No alert is offered for longer than OfferTime.                          *)
Tick ==
    /\ clock < MaxTime
    /\ \A a \in DOMAIN feed : clock - feed[a] < OfferTime
    /\ clock' = clock + 1
    /\ UNCHANGED <<feed, past, table, files, loaded, mem, seenKeys, queue, offered, taken, before, life>>

Next ==
    \/ \E a \in Alerts : Publish(a) \/ Withdraw(a)
    \/ \E p \in Pollers, s \in SUBSET DOMAIN feed : Poll(p, s)
    \/ \E p \in Pollers, a \in Alerts : Consume(p, a)
    \/ Restart
    \/ Tick

Spec == Init /\ [][Next]_vars

-----------------------------------------------------------------------------
(* Properties *)

(* Within a life of the process an alert is handled once per source, even  *)
(* when the stores refuse, the in-memory set was cleared, the other poller *)
(* rewrote the table, or the feed offered it again and again.              *)
NoRepeatInLife == \A p \in Pollers, a \in Alerts : taken[p][a] <= 1

(* Over all the lives of the process an alert is handled once per source   *)
(* (cap_ledger.py: "to prevent CAP restart spam").                         *)
NoRestartSpam == \A p \in Pollers, a \in Alerts : before[p][a] + taken[p][a] <= 1

(* What a poller holds for seen it tried to queue itself, in this life or  *)
(* an earlier one: no alert is skipped for being known from elsewhere, the *)
(* rows of the other source in the shared table or an old file.            *)
SeenWasOffered ==
    \A p \in Pollers, a \in Alerts :
        Key(p, a) \in seenKeys[p] \cup DOMAIN mem[p] => a \in offered[p]

(* The marks of a poller are its own: they keep it from repeating an alert *)
(* in one life, and never hide an alert it has not offered.                *)
MarksAreOwn == NoRepeatInLife /\ SeenWasOffered

=============================================================================
