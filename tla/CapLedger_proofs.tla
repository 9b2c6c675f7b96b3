--------------------------- MODULE CapLedger_proofs ---------------------------
(***************************************************************************)
(* Proofs about CapLedger, for any sources, alerts, sizes and failures.    *)
(*                                                                         *)
(* The argument: every mark, wherever it is kept, is of a source and an    *)
(* alert it tried to queue (MarkOfOffered), since keys carry the source.   *)
(* And an alert that a source has queued or handled in this life stays in  *)
(* its marks while the feeds offer it (HandledIsMarked), since an entry is *)
(* not older than the alert's publication is; so it is not new again.      *)
(* This needs the feeds to offer nothing for longer than entries are kept. *)
(***************************************************************************)
EXTENDS CapLedger, TLAPS

(* The entries e are of sources and alerts that were offered.              *)
Sound(e) ==
    \A k \in DOMAIN e :
        /\ e[k] \in Int
        /\ \E p \in Pollers : \E a \in offered[p] : k = Key(p, a)

TypeInv ==
    /\ feed \in [DOMAIN feed -> Int] /\ DOMAIN feed \subseteq Alerts
    /\ past \cap DOMAIN feed = {}
    /\ clock \in Int
    /\ queue \in [Pollers -> SUBSET Alerts]
    /\ offered \in [Pollers -> SUBSET Alerts]
    /\ taken \in [Pollers -> [Alerts -> Nat]]
    /\ loaded \in [Pollers -> BOOLEAN]
    /\ mem = [p \in Pollers |-> mem[p]]
    /\ files = [p \in Pollers |-> files[p]]
    /\ seenKeys = [p \in Pollers |-> seenKeys[p]]

OfferedInTime == \A a \in DOMAIN feed : feed[a] <= clock /\ clock - feed[a] <= OfferTime

MarkOfOffered ==
    /\ Sound(table)
    /\ \A p \in Pollers :
        /\ Sound(files[p]) /\ Sound(mem[p])
        /\ \A k \in seenKeys[p] : \E q \in Pollers : \E a \in offered[q] : k = Key(q, a)

(* The entries e keep the alert from being new while it is offered.        *)
Lasts(e, p, a) == Key(p, a) \in DOMAIN e /\ e[Key(p, a)] >= feed[a]

Handled(p, a) == a \in queue[p] \/ taken[p][a] > 0

HandledIsMarked ==
    \A p \in Pollers, a \in Alerts :
        /\ Handled(p, a) => loaded[p] /\ (a \in past \cup DOMAIN feed)
        /\ Handled(p, a) /\ a \in DOMAIN feed => Lasts(mem[p], p, a)

HandledOnce ==
    \A p \in Pollers, a \in Alerts :
        taken[p][a] <= 1 /\ (a \in queue[p] => taken[p][a] = 0)

Inv == TypeInv /\ OfferedInTime /\ MarkOfOffered /\ HandledIsMarked /\ HandledOnce

-----------------------------------------------------------------------------
(* Operators *)

LEMMA KeysApart ==
    \A p, q, a, b : Key(p, a) = Key(q, b) => p = q /\ a = b
PROOF
  BY DEF Key

LEMMA CleanedEntries ==
    ASSUME NEW e
    PROVE  /\ DOMAIN Cleaned(e) = {k \in DOMAIN e : e[k] >= clock - MaxAge}
           /\ \A k \in DOMAIN Cleaned(e) : Cleaned(e)[k] = e[k]
PROOF
  BY DEF Cleaned, Restrict

LEMMA MarkedEntries ==
    ASSUME NEW e, NEW ks
    PROVE  /\ DOMAIN Marked(e, ks) = DOMAIN e \cup ks
           /\ \A k \in DOMAIN Marked(e, ks) : Marked(e, ks)[k] = IF k \in ks THEN clock ELSE e[k]
PROOF
  BY DEF Marked

LEMMA CleanedSound ==
    ASSUME NEW e, Sound(e)
    PROVE  Sound(Cleaned(e))
PROOF
  BY CleanedEntries DEF Sound

LEMMA NoEntriesSound == Sound(NoEntries)
PROOF
  BY DEF Sound, NoEntries

(* What a poll knows is sound, whatever it could read.                     *)
LEMMA LoadedSound ==
    ASSUME MarkOfOffered, NEW p \in Pollers, NEW reads, NEW imports
    PROVE  Sound(Loaded(p, reads)) /\ Sound(Imported(p, reads, imports))
PROOF
<1>1. Sound(Rows(reads))
  BY NoEntriesSound DEF Rows, MarkOfOffered
<1>2. Sound(IF Rows(reads) # NoEntries THEN Rows(reads) ELSE files[p])
  BY <1>1 DEF MarkOfOffered
<1>3. Sound(Loaded(p, reads))
  BY <1>2, CleanedSound DEF Loaded, MarkOfOffered
<1>4. Sound(Imported(p, reads, imports))
  BY DEF Imported, MarkOfOffered
<1>5. QED
  BY <1>3, <1>4

(* What is marked is not older than the alert's publication, so it stays   *)
(* through the cleaning while the alert is offered.                        *)
LEMMA EntriesLast ==
    ASSUME TypeInv, OfferedInTime, OfferTime <= MaxAge, NEW p, NEW a \in DOMAIN feed,
           NEW e, Sound(e), NEW new, a \in new \/ Lasts(e, p, a)
    PROVE  Lasts(Cleaned(Marked(e, {Key(p, b) : b \in new})), p, a)
PROOF
<1>. USE BoundsAssumption
<1>. DEFINE k == Key(p, a)
            ks == {Key(p, b) : b \in new}
            marked == Marked(e, ks)
<1>1. k \in ks \/ (k \in DOMAIN e /\ e[k] >= feed[a])
  BY DEF Lasts
<1>2. DOMAIN marked = DOMAIN e \cup ks
      /\ \A j \in DOMAIN marked : marked[j] = IF j \in ks THEN clock ELSE e[j]
  BY MarkedEntries
<1>. HIDE DEF marked, ks
<1>3. k \in DOMAIN marked /\ marked[k] = IF k \in ks THEN clock ELSE e[k]
  BY <1>1, <1>2
<1>4. feed[a] \in Int /\ clock \in Int /\ feed[a] <= clock /\ clock - feed[a] <= OfferTime
  BY DEF TypeInv, OfferedInTime
<1>5. k \notin ks => e[k] \in Int
  BY <1>1 DEF Sound
<1>6. marked[k] >= feed[a] /\ marked[k] >= clock - MaxAge
  BY <1>1, <1>3, <1>4, <1>5
<1>7. /\ DOMAIN Cleaned(marked) = {j \in DOMAIN marked : marked[j] >= clock - MaxAge}
      /\ \A j \in DOMAIN Cleaned(marked) : Cleaned(marked)[j] = marked[j]
  BY CleanedEntries
<1>8. Lasts(Cleaned(marked), p, a)
  BY <1>3, <1>6, <1>7 DEF Lasts
<1>9. QED
  BY <1>8 DEF marked, ks

-----------------------------------------------------------------------------
(* Polls.  What one makes of the source's marks, given what it knows, what *)
(* is new to it and what the queue takes of that.                          *)
LEMMA PollStep ==
    ASSUME Inv, OfferTime <= MaxAge, NEW p \in Pollers, NEW s \in SUBSET DOMAIN feed, Poll(p, s)
    PROVE  Inv'
PROOF
<1>. USE BoundsAssumption DEF Inv
<1>. DEFINE Asked == \E a \in s : Key(p, a) \notin seenKeys[p]
            Known(reads) == IF Asked THEN Loaded(p, reads) ELSE mem[p]
            RowsNow(reads, imports) == IF Asked THEN Imported(p, reads, imports) ELSE table
            New(reads) == Unseen(p, Known(reads), s)
            Entries(reads) == Cleaned(Marked(Known(reads), {Key(p, a) : a \in New(reads)}))
<1>1. PICK reads \in Outcomes, imports \in Outcomes, saves \in Outcomes, spills \in Outcomes,
           fit \in SUBSET s :
         /\ Fitting(p, New(reads), fit)
         /\ queue' = [queue EXCEPT ![p] = queue[p] \cup fit]
         /\ offered' = [offered EXCEPT ![p] = offered[p] \cup New(reads)]
         /\ loaded' = [loaded EXCEPT ![p] = loaded[p] \/ Asked]
         /\ seenKeys' = [seenKeys EXCEPT ![p] =
                IF Cardinality(seenKeys[p] \cup {Key(p, a) : a \in s}) > MaxSeenKeys
                THEN {} ELSE seenKeys[p] \cup {Key(p, a) : a \in s}]
         /\ IF New(reads) # {}
            THEN /\ mem' = [mem EXCEPT ![p] = Entries(reads)]
                 /\ Flush(p, Entries(reads), RowsNow(reads, imports), saves, spills)
            ELSE /\ mem' = [mem EXCEPT ![p] = Known(reads)]
                 /\ table' = RowsNow(reads, imports)
                 /\ UNCHANGED files
  BY DEF Poll
<1>2. UNCHANGED <<feed, past, taken, before, life, clock>>
  BY DEF Poll
<1>. DEFINE known == Known(reads)
            new == New(reads)
            newKeys == {Key(p, a) : a \in new}
            entries == Entries(reads)
            rows == RowsNow(reads, imports)
<1>3. Sound(known) /\ Sound(rows)
  BY LoadedSound DEF MarkOfOffered
<1>4. new = {a \in s : Key(p, a) \notin seenKeys[p] \cup DOMAIN known}
  BY DEF Unseen
<1>5. ~Asked => new = {} /\ known = mem[p]
  BY <1>4
<1>6. loaded[p] => known = mem[p]
  BY DEF Loaded
<1>7. entries = Cleaned(Marked(known, newKeys))
  OBVIOUS
<1>8. fit \subseteq new
  BY <1>1 DEF Fitting
<1>9. /\ mem'[p] = (IF new # {} THEN entries ELSE known)
      /\ \A q \in Pollers \ {p} : mem'[q] = mem[q]
      /\ mem' = [q \in Pollers |-> mem'[q]]
  BY <1>1 DEF TypeInv
<1>10. /\ table' \in {entries, rows}
       /\ entries = table' => new # {} \/ entries = rows
       /\ \A q \in Pollers : files'[q] = files[q] \/ (new # {} /\ files'[q] = entries)
       /\ files' = [q \in Pollers |-> files'[q]]
  BY <1>1 DEF Flush, TypeInv
<1>11. /\ offered'[p] = offered[p] \cup new
       /\ \A q \in Pollers \ {p} : offered'[q] = offered[q]
       /\ offered' \in [Pollers -> SUBSET Alerts]
  BY <1>1, <1>4 DEF TypeInv
<1>12. /\ queue'[p] = queue[p] \cup fit
       /\ \A q \in Pollers \ {p} : queue'[q] = queue[q]
       /\ queue' \in [Pollers -> SUBSET Alerts]
  BY <1>1 DEF TypeInv
<1>13. /\ loaded'[p] = (loaded[p] \/ Asked)
       /\ \A q \in Pollers \ {p} : loaded'[q] = loaded[q]
       /\ loaded' \in [Pollers -> BOOLEAN]
  BY <1>1 DEF TypeInv
<1>14. /\ \A k \in seenKeys'[p] : k \in seenKeys[p] \/ \E a \in s : k = Key(p, a)
       /\ \A q \in Pollers \ {p} : seenKeys'[q] = seenKeys[q]
       /\ seenKeys' = [q \in Pollers |-> seenKeys'[q]]
  BY <1>1 DEF TypeInv
<1>15. s \subseteq Alerts /\ fit \subseteq Alerts /\ new \subseteq Alerts
  BY <1>4 DEF TypeInv
<1>. HIDE DEF known, new, entries, rows, Asked, newKeys
<1>16. TypeInv'
  BY <1>2, <1>9, <1>10, <1>11, <1>12, <1>13, <1>14 DEF TypeInv
<1>17. OfferedInTime'
  BY <1>2 DEF OfferedInTime
<1>18. \A q \in Pollers : offered[q] \subseteq offered'[q]
  BY <1>11
<1>19. \A e : Sound(e) => Sound(e)'
  BY <1>18 DEF Sound
<1>20. MarkOfOffered'
  <2>1. \A k \in DOMAIN entries : entries[k] \in Int /\ \E q \in Pollers : \E a \in offered'[q] : k = Key(q, a)
    <3>. SUFFICES ASSUME NEW k \in DOMAIN entries
                  PROVE  entries[k] \in Int /\ \E q \in Pollers : \E a \in offered'[q] : k = Key(q, a)
      OBVIOUS
    <3>. DEFINE marked == Marked(known, newKeys)
    <3>0. DOMAIN marked = DOMAIN known \cup newKeys
          /\ \A j \in DOMAIN marked : marked[j] = IF j \in newKeys THEN clock ELSE known[j]
      BY MarkedEntries
    <3>. HIDE DEF marked
    <3>5. DOMAIN Cleaned(marked) \subseteq DOMAIN marked
          /\ \A j \in DOMAIN Cleaned(marked) : Cleaned(marked)[j] = marked[j]
      BY CleanedEntries
    <3>6. entries = Cleaned(marked)
      BY <1>7 DEF marked
    <3>1. k \in DOMAIN known \cup newKeys /\ entries[k] = IF k \in newKeys THEN clock ELSE known[k]
      BY <3>0, <3>5, <3>6
    <3>2. CASE k \in newKeys
      BY <3>1, <3>2, <1>11 DEF newKeys, TypeInv
    <3>3. CASE k \notin newKeys
      BY <3>1, <3>3, <1>3, <1>18 DEF Sound
    <3>4. QED
      BY <3>2, <3>3
  <2>2. (\A k \in DOMAIN rows : rows[k] \in Int /\ \E q \in Pollers : \E a \in offered'[q] : k = Key(q, a))
        /\ \A k \in DOMAIN known : known[k] \in Int /\ \E q \in Pollers : \E a \in offered'[q] : k = Key(q, a)
    BY <1>3, <1>18 DEF Sound
  <2>3. Sound(table)'
    BY <1>10, <2>1, <2>2 DEF Sound
  <2>4. ASSUME NEW q \in Pollers PROVE Sound(files[q])' /\ Sound(mem[q])'
    BY <1>9, <1>10, <1>18, <2>1, <2>2 DEF Sound, MarkOfOffered
  <2>5. ASSUME NEW q \in Pollers, NEW k \in seenKeys'[q]
        PROVE  \E r \in Pollers : \E a \in offered'[r] : k = Key(r, a)
    <3>1. CASE k \in seenKeys[q]
      BY <3>1, <1>18 DEF MarkOfOffered
    <3>2. CASE k \notin seenKeys[q]
      <4>1. q = p
        BY <1>14, <2>5, <3>2
      <4>2. PICK a \in s : k = Key(p, a)
        BY <1>14, <2>5, <3>2, <4>1
      <4>3. CASE a \in new
        BY <1>11, <4>2, <4>3
      <4>4. CASE a \notin new
        <5>1. k \in DOMAIN known
          BY <1>4, <3>2, <4>1, <4>2, <4>4
        <5>2. QED
          BY <2>2, <5>1
      <4>5. QED
        BY <4>3, <4>4
    <3>3. QED
      BY <3>1, <3>2
  <2>6. QED
    BY <2>3, <2>4, <2>5 DEF MarkOfOffered
<1>21. ASSUME NEW a \in Alerts, Handled(p, a), a \in DOMAIN feed
       PROVE  a \notin new /\ Lasts(known, p, a)
  <2>1. Lasts(known, p, a)
    BY <1>6, <1>21 DEF HandledIsMarked
  <2>2. QED
    BY <1>4, <2>1 DEF Lasts
<1>22. ASSUME NEW a \in DOMAIN feed, a \in new \/ Lasts(known, p, a)
       PROVE  Lasts(mem'[p], p, a)
  <2>1. CASE new = {}
    BY <1>9, <1>22, <2>1
  <2>2. CASE new # {}
    BY <1>3, <1>7, <1>9, <1>22, <2>2, EntriesLast DEF newKeys
  <2>3. QED
    BY <2>1, <2>2
<1>23. new \subseteq DOMAIN feed
  BY <1>4
<1>24. HandledIsMarked'
  <2>. SUFFICES ASSUME NEW q \in Pollers, NEW a \in Alerts, Handled(q, a)'
                PROVE  /\ loaded'[q] /\ (a \in past \cup DOMAIN feed)
                       /\ a \in DOMAIN feed => Lasts(mem'[q], q, a)
    BY <1>2 DEF HandledIsMarked, Handled, Lasts
  <2>1. CASE q # p
    BY <1>2, <1>9, <1>12, <1>13, <2>1 DEF HandledIsMarked, Handled, Lasts
  <2>2. CASE q = p /\ Handled(p, a)
    BY <1>13, <1>21, <1>22, <2>2 DEF HandledIsMarked
  <2>3. CASE q = p /\ ~Handled(p, a)
    <3>1. a \in new
      BY <1>2, <1>8, <1>12, <2>3 DEF Handled
    <3>2. loaded'[p]
      BY <1>5, <1>13, <3>1
    <3>3. QED
      BY <1>22, <1>23, <2>3, <3>1, <3>2
  <2>4. QED
    BY <2>1, <2>2, <2>3
<1>25. HandledOnce'
  <2>. SUFFICES ASSUME NEW q \in Pollers, NEW a \in Alerts
                PROVE  taken[q][a] <= 1 /\ (a \in queue'[q] => taken[q][a] = 0)
    BY <1>2 DEF HandledOnce
  <2>1. CASE a \in queue[q] \/ a \notin queue'[q]
    BY <2>1 DEF HandledOnce
  <2>2. CASE a \notin queue[q] /\ a \in queue'[q]
    <3>1. q = p /\ a \in new
      BY <1>8, <1>12, <2>2
    <3>2. ~Handled(p, a)
      BY <1>21, <1>23, <3>1
    <3>3. QED
      BY <3>1, <3>2 DEF Handled, HandledOnce, TypeInv
  <2>3. QED
    BY <2>1, <2>2
<1>26. QED
  BY <1>16, <1>17, <1>20, <1>24, <1>25

-----------------------------------------------------------------------------
(* The other steps. *)

LEMMA PublishStep ==
    ASSUME Inv, NEW a \in Alerts, Publish(a)
    PROVE  Inv'
PROOF
<1>. USE BoundsAssumption DEF Inv
<1>1. /\ a \notin DOMAIN feed \cup past
      /\ feed' = [b \in DOMAIN feed \cup {a} |-> IF b = a THEN clock ELSE feed[b]]
      /\ UNCHANGED <<past, table, files, loaded, mem, seenKeys, queue, offered, taken, clock>>
  BY DEF Publish
<1>2. DOMAIN feed' = DOMAIN feed \cup {a} /\ feed'[a] = clock
      /\ \A b \in DOMAIN feed : feed'[b] = feed[b]
  BY <1>1
<1>3. TypeInv'
  BY <1>1, <1>2 DEF TypeInv
<1>4. OfferedInTime'
  BY <1>1, <1>2 DEF OfferedInTime, TypeInv
<1>5. MarkOfOffered'
  BY <1>1 DEF MarkOfOffered, Sound
<1>6. HandledIsMarked'
  BY <1>1, <1>2 DEF HandledIsMarked, Handled, Lasts
<1>7. HandledOnce'
  BY <1>1 DEF HandledOnce
<1>8. QED
  BY <1>3, <1>4, <1>5, <1>6, <1>7

LEMMA WithdrawStep ==
    ASSUME Inv, NEW a \in Alerts, Withdraw(a)
    PROVE  Inv'
PROOF
<1>. USE BoundsAssumption DEF Inv
<1>1. /\ a \in DOMAIN feed
      /\ feed' = [b \in DOMAIN feed \ {a} |-> feed[b]]
      /\ past' = past \cup {a}
      /\ UNCHANGED <<table, files, loaded, mem, seenKeys, queue, offered, taken, clock>>
  BY DEF Withdraw, Restrict
<1>2. DOMAIN feed' = DOMAIN feed \ {a} /\ \A b \in DOMAIN feed' : feed'[b] = feed[b]
  BY <1>1
<1>3. TypeInv'
  BY <1>1, <1>2 DEF TypeInv
<1>4. OfferedInTime'
  BY <1>1, <1>2 DEF OfferedInTime, TypeInv
<1>5. MarkOfOffered'
  BY <1>1 DEF MarkOfOffered, Sound
<1>6. HandledIsMarked'
  BY <1>1, <1>2 DEF HandledIsMarked, Handled, Lasts
<1>7. HandledOnce'
  BY <1>1 DEF HandledOnce
<1>8. QED
  BY <1>3, <1>4, <1>5, <1>6, <1>7

LEMMA ConsumeStep ==
    ASSUME Inv, NEW p \in Pollers, NEW a \in Alerts, Consume(p, a)
    PROVE  Inv'
PROOF
<1>. USE BoundsAssumption DEF Inv
<1>1. /\ a \in queue[p]
      /\ queue' = [queue EXCEPT ![p] = queue[p] \ {a}]
      /\ taken' = [taken EXCEPT ![p][a] = taken[p][a] + 1]
      /\ UNCHANGED <<feed, past, table, files, loaded, mem, seenKeys, offered, clock>>
  BY DEF Consume
<1>2. /\ queue' \in [Pollers -> SUBSET Alerts]
      /\ \A q \in Pollers, b \in Alerts : b \in queue'[q] <=> b \in queue[q] /\ ~(q = p /\ b = a)
  BY <1>1 DEF TypeInv
<1>3. /\ taken' \in [Pollers -> [Alerts -> Nat]]
      /\ taken'[p][a] = taken[p][a] + 1
      /\ \A q \in Pollers, b \in Alerts : ~(q = p /\ b = a) => taken'[q][b] = taken[q][b]
  BY <1>1 DEF TypeInv
<1>4. TypeInv'
  BY <1>1, <1>2, <1>3 DEF TypeInv
<1>5. OfferedInTime'
  BY <1>1 DEF OfferedInTime
<1>6. MarkOfOffered'
  BY <1>1 DEF MarkOfOffered, Sound
<1>7. ASSUME NEW q \in Pollers, NEW b \in Alerts, Handled(q, b)' PROVE Handled(q, b)
  BY <1>1, <1>2, <1>3, <1>7 DEF Handled
<1>8. HandledIsMarked'
  BY <1>1, <1>7 DEF HandledIsMarked, Lasts
<1>9. HandledOnce'
  BY <1>1, <1>2, <1>3 DEF HandledOnce, TypeInv
<1>10. QED
  BY <1>4, <1>5, <1>6, <1>8, <1>9

LEMMA RestartStep ==
    ASSUME Inv, Restart
    PROVE  Inv'
PROOF
<1>. USE BoundsAssumption DEF Inv
<1>1. /\ loaded' = [p \in Pollers |-> FALSE] /\ mem' = [p \in Pollers |-> NoEntries]
      /\ seenKeys' = [p \in Pollers |-> {}] /\ queue' = [p \in Pollers |-> {}]
      /\ taken' = [p \in Pollers |-> [a \in Alerts |-> 0]]
      /\ UNCHANGED <<feed, past, table, files, offered, clock>>
  BY DEF Restart
<1>2. TypeInv'
  BY <1>1 DEF TypeInv
<1>3. OfferedInTime'
  BY <1>1 DEF OfferedInTime
<1>4. MarkOfOffered'
  BY <1>1, NoEntriesSound DEF MarkOfOffered, Sound
<1>5. HandledIsMarked' /\ HandledOnce'
  BY <1>1 DEF HandledIsMarked, HandledOnce, Handled, Lasts
<1>6. QED
  BY <1>2, <1>3, <1>4, <1>5

LEMMA TickStep ==
    ASSUME Inv, Tick
    PROVE  Inv'
PROOF
<1>. USE BoundsAssumption DEF Inv
<1>1. /\ \A a \in DOMAIN feed : clock - feed[a] < OfferTime
      /\ clock' = clock + 1
      /\ UNCHANGED <<feed, past, table, files, loaded, mem, seenKeys, queue, offered, taken>>
  BY DEF Tick
<1>2. TypeInv'
  BY <1>1 DEF TypeInv
<1>3. OfferedInTime'
  <2>1. ASSUME NEW a \in DOMAIN feed
        PROVE  feed[a] <= clock + 1 /\ clock + 1 - feed[a] <= OfferTime
    <3>1. feed[a] \in Int /\ clock \in Int /\ OfferTime \in Int
      BY DEF TypeInv
    <3>2. QED
      BY <1>1, <3>1 DEF OfferedInTime
  <2>2. feed' = feed /\ clock' = clock + 1 /\ clock \in Int /\ \A a \in DOMAIN feed : feed[a] \in Int
    BY <1>1 DEF TypeInv
  <2>3. \A a \in DOMAIN feed : feed[a] <= clock' /\ clock' - feed[a] <= OfferTime
    BY <2>1, <2>2
  <2>4. QED
    BY <2>2, <2>3 DEF OfferedInTime
<1>4. MarkOfOffered' /\ HandledIsMarked' /\ HandledOnce'
  BY <1>1 DEF MarkOfOffered, Sound, HandledIsMarked, Handled, Lasts, HandledOnce
<1>5. QED
  BY <1>2, <1>3, <1>4

LEMMA Initially == Init => Inv
PROOF
<1>. SUFFICES ASSUME Init PROVE Inv
  OBVIOUS
<1>1. TypeInv
  BY DEF Init, TypeInv
<1>2. OfferedInTime
  BY DEF Init, OfferedInTime
<1>3. MarkOfOffered
  BY NoEntriesSound DEF Init, MarkOfOffered
<1>4. HandledIsMarked /\ HandledOnce
  BY DEF Init, HandledIsMarked, HandledOnce, Handled, Lasts
<1>5. QED
  BY <1>1, <1>2, <1>3, <1>4 DEF Inv

LEMMA Inductive ==
    ASSUME OfferTime <= MaxAge
    PROVE  Inv /\ [Next]_vars => Inv'
PROOF
<1>. SUFFICES ASSUME Inv, [Next]_vars PROVE Inv'
  OBVIOUS
<1>1. ASSUME NEW a \in Alerts, Publish(a) \/ Withdraw(a) PROVE Inv'
  BY <1>1, PublishStep, WithdrawStep
<1>2. ASSUME NEW p \in Pollers, NEW s \in SUBSET DOMAIN feed, Poll(p, s) PROVE Inv'
  BY <1>2, PollStep
<1>3. ASSUME NEW p \in Pollers, NEW a \in Alerts, Consume(p, a) PROVE Inv'
  BY <1>3, ConsumeStep
<1>4. CASE Restart
  BY <1>4, RestartStep
<1>5. CASE Tick
  BY <1>5, TickStep
<1>6. CASE UNCHANGED vars
  BY <1>6 DEF vars, Inv, TypeInv, OfferedInTime, MarkOfOffered, Sound, HandledIsMarked, Handled, Lasts, HandledOnce
<1>7. QED
  BY <1>1, <1>2, <1>3, <1>4, <1>5, <1>6 DEF Next

(* Any number of sources over one table, stores that fail at will, full    *)
(* queues, cleared caches and restarts: in one life no alert is handled    *)
(* twice by a source, and no mark hides one that the source never offered, *)
(* if entries are kept for as long as the feeds offer an alert.            *)
THEOREM OwnMarks == OfferTime <= MaxAge => (Spec => []MarksAreOwn)
PROOF
<1>. SUFFICES ASSUME OfferTime <= MaxAge PROVE Spec => []MarksAreOwn
  OBVIOUS
<1>1. Inv => MarksAreOwn
  <2>. SUFFICES ASSUME Inv PROVE MarksAreOwn
    OBVIOUS
  <2>1. NoRepeatInLife
    BY DEF Inv, HandledOnce, NoRepeatInLife
  <2>2. SeenWasOffered
    <3>. SUFFICES ASSUME NEW p \in Pollers, NEW a \in Alerts,
                         Key(p, a) \in seenKeys[p] \cup DOMAIN mem[p]
                  PROVE  a \in offered[p]
      BY DEF SeenWasOffered
    <3>1. PICK q \in Pollers : \E b \in offered[q] : Key(p, a) = Key(q, b)
      BY DEF Inv, MarkOfOffered, Sound
    <3>2. PICK b \in offered[q] : Key(p, a) = Key(q, b)
      BY <3>1
    <3>3. p = q /\ a = b
      BY <3>2, KeysApart
    <3>4. QED
      BY <3>2, <3>3
  <2>3. QED
    BY <2>1, <2>2 DEF MarksAreOwn
<1>2. Inv /\ [Next]_vars => Inv'
  BY Inductive
<1>3. QED
  BY <1>1, <1>2, Initially, PTL DEF Spec

-----------------------------------------------------------------------------
(* One source and stores that work: what was handled in any life is in the *)
(* table for as long as it is offered (HandledIsStored), so the next life  *)
(* finds it there.  A second source would replace the rows.                *)

OneSourceAssumption == OfferTime <= MaxAge /\ StoreFails = FALSE /\ \A p, q \in Pollers : p = q

EverHandled(p, a) == Handled(p, a) \/ before[p][a] > 0

HandledIsStored ==
    \A p \in Pollers, a \in Alerts :
        EverHandled(p, a) =>
            /\ a \in past \cup DOMAIN feed
            /\ a \in DOMAIN feed => Lasts(table, p, a) /\ (loaded[p] => Lasts(mem[p], p, a))

HandledNeverAgain ==
    \A p \in Pollers, a \in Alerts :
        /\ before[p][a] + taken[p][a] <= 1
        /\ a \in queue[p] => before[p][a] + taken[p][a] = 0

LivesInv == /\ Inv /\ before \in [Pollers -> [Alerts -> Nat]]
            /\ HandledIsStored /\ HandledNeverAgain

LEMMA LivesPollStep ==
    ASSUME LivesInv, OneSourceAssumption,
           NEW p \in Pollers, NEW s \in SUBSET DOMAIN feed, Poll(p, s)
    PROVE  LivesInv'
PROOF
<1>. USE BoundsAssumption DEF LivesInv, OneSourceAssumption
<1>. DEFINE Asked == \E a \in s : Key(p, a) \notin seenKeys[p]
            known == IF Asked THEN Loaded(p, TRUE) ELSE mem[p]
            rows == IF Asked THEN Imported(p, TRUE, TRUE) ELSE table
            new == Unseen(p, known, s)
            entries == Cleaned(Marked(known, {Key(p, a) : a \in new}))
<1>1. Outcomes = {TRUE}
  BY DEF Outcomes
<1>2. PICK fit \in SUBSET s :
         /\ Fitting(p, new, fit)
         /\ queue' = [queue EXCEPT ![p] = queue[p] \cup fit]
         /\ loaded' = [loaded EXCEPT ![p] = loaded[p] \/ Asked]
         /\ IF new # {}
            THEN mem' = [mem EXCEPT ![p] = entries] /\ Flush(p, entries, rows, TRUE, TRUE)
            ELSE mem' = [mem EXCEPT ![p] = known] /\ table' = rows
  BY <1>1, ZenonT(30) DEF Poll
<1>3. UNCHANGED <<feed, past, taken, before>>
  BY DEF Poll
<1>4. Inv'
  BY PollStep
<1>5. new = {a \in s : Key(p, a) \notin seenKeys[p] \cup DOMAIN known}
  BY DEF Unseen
<1>6. fit \subseteq new /\ new \subseteq DOMAIN feed /\ new \subseteq Alerts /\ (new # {} => Asked)
  BY <1>2, <1>5 DEF Fitting, Inv, TypeInv
<1>7. mem'[p] = (IF new # {} THEN entries ELSE known) /\ table' = (IF new # {} THEN entries ELSE rows)
  BY <1>2 DEF Flush, Inv, TypeInv
<1>8. loaded'[p] = (loaded[p] \/ Asked) /\ queue'[p] = queue[p] \cup fit
  BY <1>2 DEF Inv, TypeInv
<1>9. Sound(known)
  BY LoadedSound DEF Inv, MarkOfOffered
<1>10. entries = Cleaned(Marked(known, {Key(p, a) : a \in new}))
  OBVIOUS
<1>. HIDE DEF entries, new
<1>11. ASSUME NEW a \in DOMAIN feed, Lasts(table, p, a), loaded[p] => Lasts(mem[p], p, a)
       PROVE  rows = table /\ (loaded[p] \/ Asked => Lasts(known, p, a))
  <2>1. table # NoEntries
    BY <1>11 DEF Lasts, NoEntries
  <2>2. rows = table
    BY <2>1 DEF Imported, Rows
  <2>3. CASE loaded[p]
    BY <1>11, <2>2, <2>3 DEF Loaded
  <2>4. CASE ~loaded[p] /\ Asked
    <3>1. known = Cleaned(table)
      BY <2>1, <2>4 DEF Loaded, Rows
    <3>2. /\ DOMAIN Cleaned(table) = {j \in DOMAIN table : table[j] >= clock - MaxAge}
          /\ \A j \in DOMAIN Cleaned(table) : Cleaned(table)[j] = table[j]
      BY CleanedEntries
    <3>3. /\ feed[a] \in Int /\ clock \in Int /\ clock - feed[a] <= OfferTime
          /\ table[Key(p, a)] \in Int
      BY <1>11 DEF Inv, TypeInv, OfferedInTime, MarkOfOffered, Sound, Lasts
    <3>4. table[Key(p, a)] >= clock - MaxAge
      BY <1>11, <3>3 DEF Lasts
    <3>5. QED
      BY <1>11, <2>2, <3>1, <3>2, <3>4 DEF Lasts
  <2>5. QED
    BY <2>2, <2>3, <2>4
<1>12. ASSUME NEW a \in DOMAIN feed, a \in new \/ (Asked /\ Lasts(known, p, a))
       PROVE  Lasts(entries, p, a)
  BY <1>9, <1>10, <1>12, EntriesLast DEF Inv
<1>. HIDE DEF rows, known
<1>13. ASSUME NEW a \in Alerts, EverHandled(p, a), a \in DOMAIN feed
       PROVE  a \notin new /\ Lasts(table, p, a)' /\ (loaded'[p] => Lasts(mem[p], p, a)')
  <2>1. rows = table /\ (loaded[p] \/ Asked => Lasts(known, p, a)) /\ Lasts(table, p, a)
    BY <1>11, <1>13 DEF HandledIsStored
  <2>2. a \notin new
    BY <1>5, <1>6, <2>1 DEF Lasts
  <2>3. CASE new = {}
    BY <1>3, <1>7, <1>8, <2>1, <2>2, <2>3 DEF Lasts
  <2>4. CASE new # {}
    BY <1>3, <1>6, <1>7, <1>12, <1>13, <2>1, <2>2, <2>4 DEF Lasts
  <2>5. QED
    BY <2>3, <2>4
<1>14. ASSUME NEW a \in new
       PROVE  Lasts(table, p, a)' /\ Lasts(mem[p], p, a)'
  BY <1>3, <1>6, <1>7, <1>12, <1>14 DEF Lasts
<1>15. HandledIsStored'
  <2>. SUFFICES ASSUME NEW a \in Alerts, EverHandled(p, a)'
                PROVE  /\ a \in past \cup DOMAIN feed
                       /\ a \in DOMAIN feed =>
                            Lasts(table, p, a)' /\ (loaded'[p] => Lasts(mem[p], p, a)')
    BY <1>3 DEF HandledIsStored
  <2>1. CASE EverHandled(p, a)
    BY <1>13, <2>1 DEF HandledIsStored
  <2>2. CASE ~EverHandled(p, a)
    <3>1. a \in new
      BY <1>3, <1>6, <1>8, <2>2 DEF EverHandled, Handled
    <3>2. QED
      BY <1>6, <1>14, <3>1
  <2>3. QED
    BY <2>1, <2>2
<1>16. HandledNeverAgain'
  <2>. SUFFICES ASSUME NEW a \in Alerts
                PROVE  /\ before[p][a] + taken[p][a] <= 1
                       /\ a \in queue'[p] => before[p][a] + taken[p][a] = 0
    BY <1>3 DEF HandledNeverAgain
  <2>1. CASE a \in queue[p] \/ a \notin queue'[p]
    BY <2>1 DEF HandledNeverAgain
  <2>2. CASE a \notin queue[p] /\ a \in queue'[p]
    <3>1. a \in new
      BY <1>6, <1>8, <2>2
    <3>2. ~EverHandled(p, a)
      BY <1>6, <1>13, <3>1
    <3>3. taken[p][a] \in Nat /\ before[p][a] \in Nat
      BY DEF Inv, TypeInv
    <3>4. QED
      BY <3>2, <3>3 DEF EverHandled, Handled
  <2>3. QED
    BY <2>1, <2>2
<1>17. QED
  BY <1>3, <1>4, <1>15, <1>16

LEMMA LivesConsumeStep ==
    ASSUME LivesInv, NEW p \in Pollers, NEW a \in Alerts, Consume(p, a)
    PROVE  LivesInv'
PROOF
<1>. USE DEF LivesInv
<1>1. /\ a \in queue[p]
      /\ queue' = [queue EXCEPT ![p] = queue[p] \ {a}]
      /\ taken' = [taken EXCEPT ![p][a] = taken[p][a] + 1]
      /\ UNCHANGED <<feed, past, table, loaded, mem, before>>
  BY DEF Consume
<1>2. \A q \in Pollers, b \in Alerts : b \in queue'[q] <=> b \in queue[q] /\ ~(q = p /\ b = a)
  BY <1>1 DEF Inv, TypeInv
<1>3. /\ taken'[p][a] = taken[p][a] + 1
      /\ \A q \in Pollers, b \in Alerts : ~(q = p /\ b = a) => taken'[q][b] = taken[q][b]
  BY <1>1 DEF Inv, TypeInv
<1>4. ASSUME NEW q \in Pollers, NEW b \in Alerts, EverHandled(q, b)' PROVE EverHandled(q, b)
  BY <1>1, <1>2, <1>3, <1>4 DEF EverHandled, Handled
<1>5. HandledIsStored'
  BY <1>1, <1>4 DEF HandledIsStored, Lasts
<1>6. HandledNeverAgain'
  BY <1>1, <1>2, <1>3 DEF HandledNeverAgain, Inv, TypeInv
<1>7. QED
  BY <1>1, <1>5, <1>6, ConsumeStep

LEMMA LivesRestartStep ==
    ASSUME LivesInv, Restart
    PROVE  LivesInv'
PROOF
<1>. USE DEF LivesInv
<1>1. /\ loaded' = [p \in Pollers |-> FALSE] /\ queue' = [p \in Pollers |-> {}]
      /\ before' = [p \in Pollers |-> [a \in Alerts |-> before[p][a] + taken[p][a]]]
      /\ taken' = [p \in Pollers |-> [a \in Alerts |-> 0]]
      /\ UNCHANGED <<feed, past, table>>
  BY DEF Restart
<1>2. \A p \in Pollers, a \in Alerts : taken[p][a] \in Nat /\ before[p][a] \in Nat
  BY DEF Inv, TypeInv
<1>3. before' \in [Pollers -> [Alerts -> Nat]]
  BY <1>1, <1>2
<1>4. ASSUME NEW p \in Pollers, NEW a \in Alerts, EverHandled(p, a)' PROVE EverHandled(p, a)
  BY <1>1, <1>2, <1>4 DEF EverHandled, Handled
<1>5. HandledIsStored'
  BY <1>1, <1>4 DEF HandledIsStored, Lasts
<1>6. HandledNeverAgain'
  BY <1>1, <1>2 DEF HandledNeverAgain
<1>7. QED
  BY <1>3, <1>5, <1>6, RestartStep

(* The feeds and the clock.                                                *)
LEMMA LivesFeedStep ==
    ASSUME LivesInv, Inv', OneSourceAssumption,
           (\E a \in Alerts : Publish(a) \/ Withdraw(a)) \/ Tick \/ UNCHANGED vars
    PROVE  LivesInv'
PROOF
<1>. USE DEF LivesInv
<1>1. UNCHANGED <<table, loaded, mem, queue, taken, before>>
  BY DEF Publish, Withdraw, Tick, vars
<1>2. /\ past \cup DOMAIN feed \subseteq past' \cup DOMAIN feed'
      /\ \A a \in past \cup DOMAIN feed : a \in DOMAIN feed' => a \in DOMAIN feed /\ feed'[a] = feed[a]
  <2>1. ASSUME NEW a \in Alerts, Publish(a)
        PROVE  /\ past \cup DOMAIN feed \subseteq past' \cup DOMAIN feed'
               /\ \A b \in past \cup DOMAIN feed : b \in DOMAIN feed' => b \in DOMAIN feed /\ feed'[b] = feed[b]
    BY <2>1 DEF Publish
  <2>2. ASSUME NEW a \in Alerts, Withdraw(a)
        PROVE  /\ past \cup DOMAIN feed \subseteq past' \cup DOMAIN feed'
               /\ \A b \in past \cup DOMAIN feed : b \in DOMAIN feed' => b \in DOMAIN feed /\ feed'[b] = feed[b]
    BY <2>2 DEF Withdraw, Restrict
  <2>3. CASE Tick \/ UNCHANGED vars
    BY <2>3 DEF Tick, vars, Inv, TypeInv
  <2>4. QED
    BY <2>1, <2>2, <2>3
<1>3. HandledIsStored'
  BY <1>1, <1>2 DEF HandledIsStored, EverHandled, Handled, Lasts
<1>4. HandledNeverAgain'
  BY <1>1 DEF HandledNeverAgain
<1>5. QED
  BY <1>1, <1>3, <1>4

(* A single source whose stores work handles an alert once over all the    *)
(* lives of the process, whenever it is killed, if entries are kept for as *)
(* long as the feed offers an alert.                                       *)
THEOREM OncePerAlert == OneSourceAssumption => (Spec => []NoRestartSpam)
PROOF
<1>. SUFFICES ASSUME OneSourceAssumption PROVE Spec => []NoRestartSpam
  OBVIOUS
<1>1. Init => LivesInv
  <2>. SUFFICES ASSUME Init PROVE LivesInv
    OBVIOUS
  <2>1. HandledIsStored /\ HandledNeverAgain
    BY DEF Init, HandledIsStored, HandledNeverAgain, EverHandled, Handled
  <2>2. QED
    BY <2>1, Initially DEF Init, LivesInv
<1>2. LivesInv /\ [Next]_vars => LivesInv'
  <2>. SUFFICES ASSUME LivesInv, [Next]_vars PROVE LivesInv'
    OBVIOUS
  <2>1. Inv'
    BY Inductive DEF LivesInv, OneSourceAssumption
  <2>2. ASSUME NEW p \in Pollers, NEW s \in SUBSET DOMAIN feed, Poll(p, s) PROVE LivesInv'
    BY <2>2, LivesPollStep
  <2>3. ASSUME NEW p \in Pollers, NEW a \in Alerts, Consume(p, a) PROVE LivesInv'
    BY <2>3, LivesConsumeStep
  <2>4. CASE Restart
    BY <2>4, LivesRestartStep
  <2>5. CASE (\E a \in Alerts : Publish(a) \/ Withdraw(a)) \/ Tick \/ UNCHANGED vars
    BY <2>1, <2>5, LivesFeedStep
  <2>6. QED
    BY <2>2, <2>3, <2>4, <2>5 DEF Next
<1>3. LivesInv => NoRestartSpam
  BY DEF LivesInv, HandledNeverAgain, NoRestartSpam
<1>4. QED
  BY <1>1, <1>2, <1>3, PTL DEF Spec

=============================================================================
