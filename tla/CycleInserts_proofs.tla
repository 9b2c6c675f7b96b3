-------------------------- MODULE CycleInserts_proofs --------------------------
(***************************************************************************)
(* Proofs about the cycle inserts, for any operators' inserts, NOW         *)
(* products and zones.                                                     *)
(*                                                                         *)
(* Zones.  Only the worker writes rows of NOW products.  While one is      *)
(* rendered its zones are free but for the row it will become (ZonesFree): *)
(* that was made so before the await, and nothing else activates a row.    *)
(*                                                                         *)
(* Airings.  Each push of an operator's insert is in its row or was not    *)
(* marked (Counted), and what a rotation still has to push has airings     *)
(* left (PendingHasLeft).  A push after the end of a row takes the row off *)
(* the list, which it enters again when its text is put on air anew        *)
(* (LateIsOver).                                                           *)
(*                                                                         *)
(* Audio.  What was rendered is there until it is published (RenderedIs-   *)
(* There); what a pass that could not read the rows may delete is counted  *)
(* until it is rendered again.                                             *)
(***************************************************************************)
EXTENDS CycleInserts, FiniteSetTheorems, SequenceTheorems, WellFoundedInduction, TLAPS

Job(products) == [what : products, api : BOOLEAN, ready : BOOLEAN]
Entry(products) == [what : products, api : BOOLEAN]

(* TypeOK, and what is queued, polled or rendered was issued.              *)
Typed ==
  /\ TypeOK
  /\ nowQ \in Seq(Entry(issued))
  /\ work \in Job(issued) \cup {Idle}
  /\ refs \in Seq(issued) /\ IsFiniteSet(issued)

ZonesFree ==
  work # Idle =>
    \A i \in Endless : i # IdOf[work.what] /\ row[i].status = "active" =>
      Zones[row[i].what] \cap Zones[work.what] = {}

ScopeInv == OneNowPerZone /\ ZonesFree

Counted ==
  \A i \in Ops : /\ aired[i] = row[i].count + unmarked[i]
                 /\ row[i].count <= MaxAirings[i]

PendingHasLeft ==
  \A i \in pending : /\ row[i].status # "none"
                     /\ i \in Ops => row[i].count < MaxAirings[i]

(* ... and what may still be pushed was not pushed after an end.           *)
LateIsOver ==
  \A i \in Ids : i \in pending \/ (row[i].status = "active" /\ ~Over(i)) => late[i] = 0

AiringInv == Counted /\ PendingHasLeft /\ EndedAirsOnceMore /\ LateIsOver

RenderedIsThere ==
  work # Idle /\ work.ready => audio[IdOf[work.what]] # NoItem

AudioInv == AudioKept /\ RenderedIsThere
-------------------------------------------------------------------------------
(* What the statements make of a row                                       *)

(* The rows say what they said, and none was activated.                    *)
Settles(next) ==
  \A i \in Ids : /\ next[i].what = row[i].what
                 /\ next[i].status = "active" => row[i].status = "active"

LEMMA FreshIsRow ==
  ASSUME NEW item \in Items
  PROVE  /\ FreshRow(item) \in Row
         /\ FreshRow(item).status = "active" /\ FreshRow(item).what = item
         /\ FreshRow(item).count = 0
BY RowAssumption DEF FreshRow, Row, Statuses

LEMMA CancelRow ==
  ASSUME NEW r \in Row
  PROVE  /\ CancelInsert(r) \in Row /\ CancelInsert(r).what = r.what
         /\ CancelInsert(r).count = r.count
         /\ CancelInsert(r).status # "active"
         /\ CancelInsert(r).status = "none" <=> r.status = "none"
BY DEF CancelInsert, Row, Statuses

LEMMA MarkRow ==
  ASSUME NEW i \in Ids, NEW r \in Row, NEW n \in Nat
  PROVE  /\ MarkAired(i, r, n) \in Row /\ MarkAired(i, r, n).what = r.what
         /\ MarkAired(i, r, n).status = "active" => r.status = "active"
         /\ MarkAired(i, r, n).status = "none" <=> r.status = "none"
         /\ i \notin Endless /\ r.status # "none" => MarkAired(i, r, n).count = r.count + 1
<1> DEFINE next == [r EXCEPT !.count = IF i \in Endless THEN 1 ELSE @ + 1, !.last = n]
<1>1. /\ next \in Row /\ next.what = r.what /\ next.status = r.status
      /\ i \notin Endless => next.count = r.count + 1
  <2>1. PICK c \in Nat : next = [r EXCEPT !.count = c, !.last = n]
                          /\ (i \notin Endless => c = r.count + 1)
    <3>1. r.count \in Nat
      BY DEF Row
    <3> DEFINE c == IF i \in Endless THEN 1 ELSE r.count + 1
    <3>2. next = [r EXCEPT !.count = c, !.last = n]
      OBVIOUS
    <3>3. c \in Nat /\ (i \notin Endless => c = r.count + 1)
      BY <3>1
    <3> HIDE DEF next, c
    <3> QED BY <3>2, <3>3
  <2> HIDE DEF next
  <2>2. n \in Int \cup {Never}
    OBVIOUS
  <2> QED BY <2>1, <2>2 DEF Row
<1> HIDE DEF next
<1>2. /\ [next EXCEPT !.status = "completed"] \in Row
      /\ [next EXCEPT !.status = "completed"].status = "completed"
      /\ [next EXCEPT !.status = "completed"].what = next.what
      /\ [next EXCEPT !.status = "completed"].count = next.count
  BY <1>1 DEF Row, Statuses
<1>3. MarkAired(i, r, n) = IF r.status = "none" THEN r
                           ELSE IF Exhausted(i, next) THEN [next EXCEPT !.status = "completed"]
                           ELSE next
  BY DEF MarkAired, next
<1> QED BY <1>1, <1>2, <1>3

LEMMA CancelAllRows ==
  ASSUME TypeOK, NEW ids
  PROVE  /\ CancelAll(ids) \in [Ids -> Row] /\ Settles(CancelAll(ids))
         /\ \A i \in Ids : /\ CancelAll(ids)[i].count = row[i].count
                           /\ CancelAll(ids)[i].status = "none" <=> row[i].status = "none"
                           /\ i \in ids => CancelAll(ids)[i].status # "active"
                           /\ i \notin ids => CancelAll(ids)[i] = row[i]
<1>1. \A i \in Ids : row[i] \in Row
  BY DEF TypeOK
<1>2. \A i \in Ids : /\ CancelInsert(row[i]) \in Row
                     /\ CancelInsert(row[i]).what = row[i].what
                     /\ CancelInsert(row[i]).count = row[i].count
                     /\ CancelInsert(row[i]).status # "active"
                     /\ CancelInsert(row[i]).status = "none" <=> row[i].status = "none"
  BY <1>1, CancelRow
<1> QED BY <1>1, <1>2 DEF CancelAll, Settles

LEMMA ExpireAllRows ==
  ASSUME TypeOK, NEW next, next = [i \in Ids |-> ExpireDue(row[i], Over(i))]
  PROVE  /\ next \in [Ids -> Row] /\ Settles(next)
         /\ \A i \in Ids : /\ next[i].count = row[i].count
                           /\ next[i].status = "none" <=> row[i].status = "none"
<1>1. ASSUME NEW i \in Ids
      PROVE  /\ next[i] \in Row /\ next[i].what = row[i].what /\ next[i].count = row[i].count
             /\ next[i].status = "active" => row[i].status = "active"
             /\ next[i].status = "none" <=> row[i].status = "none"
  <2>1. row[i] \in Row /\ next[i] = ExpireDue(row[i], Over(i))
    BY DEF TypeOK
  <2>2. CASE Over(i)
    BY <2>1, <2>2 DEF ExpireDue, Row, Statuses
  <2>3. CASE ~Over(i)
    BY <2>1, <2>3 DEF ExpireDue
  <2> QED BY <2>2, <2>3
<1> QED BY <1>1 DEF Settles
-------------------------------------------------------------------------------
(* What the queue and the poll hold                                        *)

LEMMA Shifted ==
  ASSUME NEW S, NEW list \in Seq(S), list # <<>>
  PROVE  Head(list) \in S /\ Tail(list) \in Seq(S) /\ Len(Tail(list)) = Len(list) - 1
BY HeadTailProperties

LEMMA LeastIndex ==
  ASSUME NEW T \in SUBSET Nat, T # {}
  PROVE  Min(T) \in T
<1>1. PICK x \in T : \A y \in T : ~ (<<y, x>> \in OpToRel(<, Nat))
  BY NatLessThanWellFounded, WFMin
<1>2. ASSUME NEW y \in T PROVE x =< y
  <2>1. x \in Nat /\ y \in Nat
    OBVIOUS
  <2>2. ~ (y < x)
    BY <1>1, <2>1 DEF OpToRel
  <2> QED BY <2>1, <2>2
<1> QED BY <1>2 DEF Min

LEMMA UnknownRest ==
  ASSUME NEW S, NEW list \in Seq(S)
  PROVE  FromUnknown(list) \in Seq(S)
<1> DEFINE unknown == {n \in DOMAIN list : ~Known(list[n])}
<1>1. CASE unknown = {}
  BY <1>1 DEF FromUnknown
<1>2. CASE unknown # {}
  <2>1. unknown \in SUBSET Nat /\ DOMAIN list = 1 .. Len(list) /\ Len(list) \in Nat
    BY LenProperties
  <2>2. Min(unknown) \in unknown
    BY <1>2, <2>1, LeastIndex
  <2>3. Min(unknown) \in 1 .. Len(list)
    BY <2>1, <2>2
  <2>4. \A n \in Min(unknown) .. Len(list) : list[n] \in S
    BY <2>1, <2>3, ElementOfSeq
  <2>5. SubSeq(list, Min(unknown), Len(list)) \in Seq(S)
    BY <2>1, <2>3, <2>4, SubSeqProperties
  <2> QED BY <1>2, <2>5 DEF FromUnknown
<1> QED BY <1>1, <1>2

LEMMA SubmitKeeps ==
  ASSUME NEW S, NEW p \in S, NEW isApi \in BOOLEAN, QueueMax \in Nat,
         nowQ \in Seq(Entry(S)), Len(nowQ) <= QueueMax, Submit(p, isApi)
  PROVE  nowQ' \in Seq(Entry(S)) /\ Len(nowQ') <= QueueMax
<1>1. [what |-> p, api |-> isApi] \in Entry(S)
  BY DEF Entry
<1> DEFINE entry == [what |-> p, api |-> isApi]
<1>2. /\ Append(nowQ, entry) \in Seq(Entry(S))
      /\ Len(Append(nowQ, entry)) = Len(nowQ) + 1 /\ Len(nowQ) \in Nat
  BY <1>1, AppendProperties, LenProperties
<1> QED BY <1>2 DEF Submit

LEMMA OfMore ==
  ASSUME NEW S, NEW T, S \subseteq T
  PROVE  /\ Seq(Entry(S)) \subseteq Seq(Entry(T)) /\ Seq(S) \subseteq Seq(T)
         /\ Job(S) \subseteq Job(T)
<1>1. Entry(S) \subseteq Entry(T) /\ Job(S) \subseteq Job(T)
  BY DEF Entry, Job
<1> QED BY <1>1, SeqMonotonic
-------------------------------------------------------------------------------
(* Types                                                                   *)

LEMMA TypedInit == Init => Typed
<1> SUFFICES ASSUME Init PROVE Typed
  OBVIOUS
<1>1. NoRow \in Row
  BY RowAssumption DEF NoRow, Row, Statuses
<1>2. <<>> \in Seq(Entry(issued)) /\ <<>> \in Seq(issued) /\ Len(<<>>) = 0
      /\ <<>> \in Seq([what : Products, api : BOOLEAN]) /\ <<>> \in Seq(Products)
  BY EmptySeq
<1>3. IsFiniteSet(issued)
  BY FS_EmptySet DEF Init
<1> QED BY <1>1, <1>2, <1>3, BoundsAssumption DEF Init, Typed, TypeOK, NoUpload

(* An upsert keeps the types.                                              *)
LEMMA PutOnAirTyped ==
  ASSUME TypeOK, NEW i \in Ids, NEW item \in Items, PutOnAir(row, i, item)
  PROVE  /\ row' \in [Ids -> Row] /\ aired' \in [Ids -> Nat]
         /\ unmarked' \in [Ids -> Nat] /\ late' \in [Ids -> Nat] /\ lost' \subseteq Products
BY FreshIsRow DEF PutOnAir, TypeOK

(* What lies outside the queues, and the queues.                           *)
RowsTyped ==
  /\ row \in [Ids -> Row] /\ audio \in [Ids -> Items \cup {NoItem}]
  /\ past \subseteq Items \cup {"upload"}
  /\ rendering \subseteq Ops /\ upload \in [wav : BOOLEAN, row : BOOLEAN, json : BOOLEAN]
  /\ rotation \in 0 .. MaxRotations /\ pending \subseteq Ids
  /\ faults \in 0 .. MaxFaults /\ restarts \in 0 .. MaxRestarts
  /\ aired \in [Ids -> Nat] /\ unmarked \in [Ids -> Nat] /\ late \in [Ids -> Nat]
  /\ lost \subseteq Products /\ exposed \subseteq Ids

QueuesTyped ==
  /\ issued \subseteq Products /\ heard \subseteq issued /\ seen \subseteq issued
  /\ nowQ \in Seq(Entry(issued)) /\ Len(nowQ) <= QueueMax
  /\ work \in Job(issued) \cup {Idle}
  /\ refs \in Seq(issued) /\ IsFiniteSet(issued)

LEMMA TypedParts == Typed <=> RowsTyped /\ QueuesTyped
<1>1. QueuesTyped => /\ nowQ \in Seq([what : Products, api : BOOLEAN])
                     /\ refs \in Seq(Products)
                     /\ work \in [what : Products, api : BOOLEAN, ready : BOOLEAN] \cup {Idle}
  <2> SUFFICES ASSUME QueuesTyped PROVE nowQ \in Seq(Entry(Products)) /\ refs \in Seq(Products)
                                        /\ work \in Job(Products) \cup {Idle}
    BY DEF Entry, Job
  <2> QED BY OfMore DEF QueuesTyped
<1> QED BY <1>1 DEF Typed, TypeOK, RowsTyped, QueuesTyped

LEMMA InsertFacts ==
  /\ Ops \subseteq Ids /\ Ops \subseteq Items /\ Products \subseteq Items
  /\ Endless \subseteq Ids /\ Ops \cap Endless = {}
  /\ \A p \in Products : IdOf[p] \in Endless
  /\ NoItem \notin Items
BY InsertAssumption, RowAssumption

(* The head of the worker's queue.                                         *)
LEMMA HeadOfQueue ==
  ASSUME Typed, nowQ # <<>>
  PROVE  /\ Head(nowQ).what \in issued /\ Head(nowQ).what \in Products
         /\ Head(nowQ).api \in BOOLEAN
         /\ Tail(nowQ) \in Seq(Entry(issued)) /\ Len(Tail(nowQ)) <= QueueMax
<1>1. Head(nowQ) \in Entry(issued) /\ Tail(nowQ) \in Seq(Entry(issued))
      /\ Len(Tail(nowQ)) = Len(nowQ) - 1 /\ Len(nowQ) \in Nat
  BY Shifted, LenProperties DEF Typed
<1> QED BY <1>1, BoundsAssumption DEF Typed, TypeOK, Entry

LEMMA WorkInHand ==
  ASSUME Typed, work # Idle
  PROVE  /\ work.what \in issued /\ work.what \in Products /\ work.api \in BOOLEAN
         /\ IdOf[work.what] \in Endless /\ IdOf[work.what] \in Ids
         /\ work.ready \in BOOLEAN /\ work \in Job(issued)
BY InsertFacts DEF Typed, TypeOK, Job

LEMMA RowsTypedStep ==
  ASSUME Typed, [Next]_vars
  PROVE  RowsTyped'
<1> USE DEF rows, api, nows, cycle, bounds, told
<1>0. TypeOK /\ RowsTyped
  BY TypedParts DEF Typed
<1>1. ASSUME NEW i \in Ops, BeginTextInsert(i) PROVE RowsTyped'
  BY <1>0, <1>1 DEF BeginTextInsert, RowsTyped
<1>2. ASSUME NEW i \in Ops, CreateAudioInsert(i) PROVE RowsTyped'
  <2>1. i \in Ids /\ i \in Items
    BY InsertFacts
  <2>2. row' \in [Ids -> Row] /\ aired' \in [Ids -> Nat] /\ unmarked' \in [Ids -> Nat]
        /\ late' \in [Ids -> Nat] /\ lost' \subseteq Products
    BY <1>0, <1>2, <2>1, PutOnAirTyped DEF CreateAudioInsert
  <2> QED BY <1>0, <1>2, <2>1, <2>2 DEF CreateAudioInsert, RowsTyped, WriteAudio, LoadUpload
<1>3. ASSUME NEW i \in Ops, NEW f \in BOOLEAN, FinishTextInsert(i, f) PROVE RowsTyped'
  <2>1. i \in Ids /\ i \in Items
    BY InsertFacts
  <2>2. row' \in [Ids -> Row] /\ aired' \in [Ids -> Nat] /\ unmarked' \in [Ids -> Nat]
        /\ late' \in [Ids -> Nat] /\ lost' \subseteq Products
    BY <1>0, <1>3, <2>1, PutOnAirTyped DEF FinishTextInsert, RowsTyped
  <2>3. faults' \in 0 .. MaxFaults
    BY <1>0, <1>3, BoundsAssumption DEF FinishTextInsert, Fails, RowsTyped
  <2> QED BY <1>0, <1>3, <2>1, <2>2, <2>3 DEF FinishTextInsert, RowsTyped, WriteAudio
<1>4. ASSUME NEW f \in BOOLEAN, StageUpload(f) \/ PollNext(f) PROVE RowsTyped'
  <2>1. Fails(f)
    BY <1>4 DEF StageUpload, PollNext
  <2>2. faults' \in 0 .. MaxFaults
    BY <1>0, <2>1, BoundsAssumption DEF Fails, RowsTyped
  <2>3. CASE StageUpload(f)
    BY <1>0, <2>2, <2>3 DEF StageUpload, RowsTyped
  <2>4. CASE PollNext(f)
    BY <1>0, <2>2, <2>4 DEF PollNext, RowsTyped
  <2> QED BY <1>4, <2>3, <2>4
<1>5. ASSUME NEW i \in Ids, Cancel(i) \/ SkipInsert(i) PROVE RowsTyped'
  BY <1>0, <1>5, CancelAllRows DEF Cancel, SkipInsert, RowsTyped
<1>6. ASSUME NEW i \in Ids, NEW o \in {"pushed", "unmarked", "failed"}, PushInsert(i, o)
      PROVE RowsTyped'
  <2>1. rotation \in Nat
    BY <1>0 DEF RowsTyped
  <2>2. row' \in [Ids -> Row]
    BY <1>0, <1>6, <2>1, MarkRow DEF PushInsert, RowsTyped
  <2>3. faults' \in 0 .. MaxFaults
    BY <1>0, <1>6, BoundsAssumption DEF PushInsert, Fails, RowsTyped
  <2>4. aired' \in [Ids -> Nat] /\ unmarked' \in [Ids -> Nat] /\ late' \in [Ids -> Nat]
    BY <1>0, <1>6 DEF PushInsert, RowsTyped
  <2> QED BY <1>0, <1>6, <2>2, <2>3, <2>4 DEF PushInsert, RowsTyped
<1>7. ASSUME NEW p \in Products, Issue(p) \/ Deliver(p) PROVE RowsTyped'
  BY <1>0, <1>7 DEF Issue, Deliver, RowsTyped
<1>8. ASSUME NEW area \in {"mapped", "unmapped", "elsewhere"}, Refuse(area) PROVE RowsTyped'
  <2>1. Head(nowQ).what \in Products
    BY <1>8, HeadOfQueue DEF Refuse
  <2>2. row' \in [Ids -> Row]
    BY <1>0, <1>8, CancelAllRows DEF Refuse, RowsTyped, CancelOverlapping
  <2>3. faults' \in 0 .. MaxFaults
    BY <1>0, <1>8, BoundsAssumption DEF Refuse, Fails, RowsTyped
  <2>4. lost' \subseteq Products
    BY <1>0, <1>8, <2>1 DEF Refuse, RowsTyped
  <2> QED BY <1>0, <1>8, <2>2, <2>3, <2>4 DEF Refuse, RowsTyped
<1>9. CASE Reaffirm
  <2>1. Head(nowQ).what \in Products
    BY <1>9, HeadOfQueue DEF Reaffirm
  <2> DEFINE i == IdOf[Head(nowQ).what]
  <2>2. i \in Ids /\ KeptRow(row[i]) \in Row
    <3>1. i \in Ids
      BY <2>1, InsertFacts
    <3> HIDE DEF i
    <3>2. row[i] \in Row
      BY <1>0, <3>1 DEF RowsTyped
    <3> QED BY <3>1, <3>2 DEF KeptRow, Row, Statuses
  <2>3. CancelOverlapping(Head(nowQ).what, {i}) \in [Ids -> Row]
    BY <1>0, CancelAllRows DEF CancelOverlapping
  <2>4. row' \in [Ids -> Row]
    BY <1>9, <2>2, <2>3 DEF Reaffirm
  <2> QED BY <1>0, <1>9, <2>4 DEF Reaffirm, RowsTyped
<1>10. CASE BeginNow
  <2>1. row' \in [Ids -> Row]
    BY <1>0, <1>10, CancelAllRows DEF BeginNow, CancelOverlapping
  <2> QED BY <1>0, <1>10, <2>1 DEF BeginNow, RowsTyped
<1>11. CASE RenderNow
  <2>1. work.what \in Items /\ IdOf[work.what] \in Ids
    BY <1>11, WorkInHand, InsertFacts DEF RenderNow
  <2> QED BY <1>0, <1>11, <2>1 DEF RenderNow, RowsTyped, WriteAudio
<1>12. CASE FailNow
  BY <1>0, <1>12, BoundsAssumption DEF FailNow, Fails, RowsTyped
<1>13. CASE PublishNow
  <2>1. work.what \in Items /\ IdOf[work.what] \in Ids
    BY <1>13, WorkInHand, InsertFacts DEF PublishNow
  <2>2. row' \in [Ids -> Row] /\ aired' \in [Ids -> Nat] /\ unmarked' \in [Ids -> Nat]
        /\ late' \in [Ids -> Nat] /\ lost' \subseteq Products
    BY <1>0, <1>13, <2>1, PutOnAirTyped DEF PublishNow
  <2> QED BY <1>0, <1>13, <2>2 DEF PublishNow, RowsTyped
<1>14. ASSUME NEW focus \in BOOLEAN, Rebuild(focus) PROVE RowsTyped'
  <2>1. row' \in [Ids -> Row]
    BY <1>0, <1>14, ExpireAllRows DEF Rebuild
  <2>2. rotation' \in 0 .. MaxRotations /\ pending' \subseteq Ids
    BY <1>0, <1>14, BoundsAssumption DEF Rebuild, DueNow, RowsTyped
  <2> QED BY <1>0, <1>14, <2>1, <2>2 DEF Rebuild, RowsTyped
<1>15. CASE ListInserts
  BY <1>0, <1>15, ExpireAllRows DEF ListInserts, RowsTyped
<1>16. CASE Poll \/ ResetRotation
  BY <1>0, <1>16 DEF Poll, ResetRotation, RowsTyped
<1>17. ASSUME NEW item \in Items \cup {"upload"}, Expire(item) PROVE RowsTyped'
  BY <1>0, <1>17 DEF Expire, RowsTyped
<1>18. ASSUME NEW aged \in SUBSET Ids, NEW unread \in SUBSET AgedAndProtected(aged),
              Housekeep(aged, unread)
       PROVE RowsTyped'
  <2>1. audio' \in [Ids -> Items \cup {NoItem}]
    BY <1>0, <1>18 DEF Housekeep, CleanedAudio, RowsTyped
  <2>2. upload' \in [wav : BOOLEAN, row : BOOLEAN, json : BOOLEAN]
    BY <1>0, <1>18 DEF Housekeep, PrunedUpload, NoUpload, RowsTyped
  <2>3. exposed' \subseteq Ids /\ faults' \in 0 .. MaxFaults
    BY <1>0, <1>18, BoundsAssumption DEF Housekeep, Fails, RowsTyped
  <2> QED BY <1>0, <1>18, <2>1, <2>2, <2>3 DEF Housekeep, RowsTyped
<1>19. CASE Restart
  BY <1>0, <1>19, BoundsAssumption DEF Restart, RowsTyped
<1>20. CASE UNCHANGED vars
  BY <1>0, <1>20 DEF vars, RowsTyped
<1> QED BY <1>1, <1>2, <1>3, <1>4, <1>5, <1>6, <1>7, <1>8, <1>9, <1>10, <1>11, <1>12,
           <1>13, <1>14, <1>15, <1>16, <1>17, <1>18, <1>19, <1>20 DEF Next

LEMMA QueuesTypedStep ==
  ASSUME Typed, [Next]_vars
  PROVE  QueuesTyped'
<1> USE DEF rows, api, nows, cycle, bounds, told
<1>0. TypeOK /\ QueuesTyped
  BY TypedParts DEF Typed
<1>1. CASE UNCHANGED nows
  BY <1>0, <1>1 DEF QueuesTyped
<1>2. ASSUME NEW p \in Products, Issue(p) PROVE QueuesTyped'
  <2>1. /\ issued \subseteq issued' /\ issued' \subseteq Products /\ IsFiniteSet(issued')
        /\ UNCHANGED <<heard, nowQ, work, seen, refs>>
    BY <1>0, <1>2, FS_AddElement DEF Issue, QueuesTyped
  <2>2. /\ nowQ \in Seq(Entry(issued')) /\ refs \in Seq(issued')
        /\ work \in Job(issued') \cup {Idle}
    BY <1>0, <2>1, OfMore DEF QueuesTyped
  <2> QED BY <1>0, <2>1, <2>2 DEF QueuesTyped
<1>3. ASSUME NEW p \in Products, Deliver(p) PROVE QueuesTyped'
  <2>1. nowQ' \in Seq(Entry(issued)) /\ Len(nowQ') <= QueueMax
    BY <1>0, <1>3, SubmitKeeps, BoundsAssumption DEF Deliver, QueuesTyped
  <2> QED BY <1>0, <1>3, <2>1 DEF Deliver, QueuesTyped
<1>4. CASE Poll
  <2>1. PICK list \in NewestFirst : refs' = FromUnknown(list)
    BY <1>4 DEF Poll
  <2>2. Cardinality(issued) \in Nat
    BY <1>0, FS_CardinalityType DEF QueuesTyped
  <2>3. list \in Seq(issued)
    BY <2>1, <2>2, IsASeq DEF NewestFirst
  <2>4. refs' \in Seq(issued)
    BY <2>1, <2>3, UnknownRest
  <2> QED BY <1>0, <1>4, <2>4 DEF Poll, QueuesTyped
<1>5. ASSUME NEW f \in BOOLEAN, PollNext(f) PROVE QueuesTyped'
  <2>1. refs # <<>> /\ refs \in Seq(issued)
    BY <1>0, <1>5 DEF PollNext, QueuesTyped
  <2>2. Head(refs) \in issued /\ Tail(refs) \in Seq(issued)
    BY <2>1, Shifted
  <2>3. refs' \in Seq(issued)
    BY <1>5, <2>2, UnknownRest DEF PollNext
  <2>4. nowQ' \in Seq(Entry(issued)) /\ Len(nowQ') <= QueueMax
    <3>1. CASE UNCHANGED nowQ
      BY <1>0, <3>1 DEF QueuesTyped
    <3>2. CASE Submit(Head(refs), TRUE)
      BY <1>0, <2>2, <3>2, SubmitKeeps, BoundsAssumption DEF QueuesTyped
    <3> QED BY <1>5, <3>1, <3>2 DEF PollNext
  <2> QED BY <1>0, <1>5, <2>3, <2>4 DEF PollNext, QueuesTyped
<1>6. CASE (\E area \in {"mapped", "unmapped", "elsewhere"} : Refuse(area)) \/ Reaffirm
  <2>1. nowQ # <<>> /\ nowQ' = Tail(nowQ) /\ UNCHANGED <<issued, heard, refs>>
        /\ Handled(Head(nowQ).what, Head(nowQ).api)
    BY <1>6 DEF Refuse, Reaffirm
  <2> QED BY <1>0, <2>1, HeadOfQueue DEF Handled, QueuesTyped
<1>7. CASE BeginNow
  <2>1. nowQ # <<>> /\ nowQ' = Tail(nowQ) /\ UNCHANGED <<issued, heard, seen, refs>>
        /\ work' = [what |-> Head(nowQ).what, api |-> Head(nowQ).api, ready |-> FALSE]
    BY <1>7 DEF BeginNow
  <2>2. work' \in Job(issued)
    BY <2>1, HeadOfQueue DEF Job
  <2> QED BY <1>0, <2>1, <2>2, HeadOfQueue DEF QueuesTyped
<1>8. CASE RenderNow
  <2>1. work' = [work EXCEPT !.ready = TRUE] /\ work \in Job(issued)
    BY <1>8, WorkInHand DEF RenderNow
  <2>2. work' \in Job(issued)
    BY <2>1 DEF Job
  <2> QED BY <1>0, <1>8, <2>2 DEF RenderNow, QueuesTyped
<1>9. CASE FailNow \/ PublishNow
  BY <1>0, <1>9, WorkInHand DEF FailNow, PublishNow, Handled, QueuesTyped
<1>10. CASE Restart
  BY <1>0, <1>10, EmptySeq, BoundsAssumption DEF Restart, QueuesTyped
<1>11. CASE UNCHANGED vars
  BY <1>1, <1>11 DEF vars
<1>12. ASSUME NEW i \in Ops, BeginTextInsert(i) \/ CreateAudioInsert(i)
                             \/ \E f \in BOOLEAN : FinishTextInsert(i, f)
       PROVE UNCHANGED nows
  BY <1>12 DEF BeginTextInsert, CreateAudioInsert, FinishTextInsert
<1>13. ASSUME NEW i \in Ids, Cancel(i) \/ SkipInsert(i)
                             \/ \E o \in {"pushed", "unmarked", "failed"} : PushInsert(i, o)
       PROVE UNCHANGED nows
  BY <1>13 DEF Cancel, SkipInsert, PushInsert
<1>14. ASSUME \/ \E f \in BOOLEAN : StageUpload(f)
              \/ \E focus \in BOOLEAN : Rebuild(focus)
              \/ ListInserts \/ ResetRotation
              \/ \E item \in Items \cup {"upload"} : Expire(item)
              \/ \E aged \in SUBSET Ids : \E unread \in SUBSET AgedAndProtected(aged) :
                   Housekeep(aged, unread)
       PROVE UNCHANGED nows
  BY <1>14 DEF StageUpload, Rebuild, ListInserts, ResetRotation, Expire, Housekeep
<1> QED BY <1>1, <1>2, <1>3, <1>4, <1>5, <1>6, <1>7, <1>8, <1>9, <1>10, <1>11, <1>12,
           <1>13, <1>14 DEF Next

(* The rows, files, queues and histories keep their types, what is queued  *)
(* or rendered was issued, and what was seen too: TypeOK is an invariant   *)
(* of the inserts (inserts.py, now_runtime.py, conductor.py).              *)
THEOREM Types == Spec => []TypeOK
<1>1. Typed /\ [Next]_vars => Typed'
  BY RowsTypedStep, QueuesTypedStep, TypedParts, PTL
<1>2. Typed => TypeOK
  BY DEF Typed
<1> QED BY TypedInit, <1>1, <1>2, PTL DEF Spec
-------------------------------------------------------------------------------
(* One NOW insert per zone                                                 *)

(* No NOW row is activated, and the worker keeps its product or ends it.   *)
NowRowsSettle ==
  /\ \A i \in Endless : /\ row'[i].what = row[i].what
                        /\ row'[i].status = "active" => row[i].status = "active"
  /\ work' # Idle => work # Idle /\ work'.what = work.what

LEMMA NowRowSteps ==
  ASSUME Typed, [Next]_vars
  PROVE  NowRowsSettle \/ Reaffirm \/ BeginNow \/ PublishNow
<1> USE DEF rows, api, nows, cycle, bounds, told
<1>0. TypeOK /\ row \in [Ids -> Row] /\ Endless \subseteq Ids
  BY InsertFacts DEF Typed, TypeOK
<1>1. ASSUME UNCHANGED <<row, work>> PROVE NowRowsSettle
  BY <1>1 DEF NowRowsSettle
<1>2. ASSUME Settles(row'), UNCHANGED work PROVE NowRowsSettle
  BY <1>0, <1>2 DEF NowRowsSettle, Settles
<1>3. ASSUME NEW i \in Ops, NEW item, PutOnAir(row, i, item), UNCHANGED work
      PROVE NowRowsSettle
  BY <1>0, <1>3, InsertFacts DEF PutOnAir, NowRowsSettle
<1>4. ASSUME NEW i \in Ops, \/ BeginTextInsert(i) \/ CreateAudioInsert(i)
                            \/ \E f \in BOOLEAN : FinishTextInsert(i, f)
      PROVE NowRowsSettle
  BY <1>1, <1>3, <1>4 DEF BeginTextInsert, CreateAudioInsert, FinishTextInsert
<1>5. ASSUME \/ \E f \in BOOLEAN : StageUpload(f) \/ PollNext(f)
             \/ \E i \in Ids : SkipInsert(i)
             \/ \E p \in Products : Issue(p) \/ Deliver(p)
             \/ Poll \/ ResetRotation
             \/ \E item \in Items \cup {"upload"} : Expire(item)
             \/ \E aged \in SUBSET Ids : \E unread \in SUBSET AgedAndProtected(aged) :
                   Housekeep(aged, unread)
             \/ UNCHANGED vars
      PROVE NowRowsSettle
  BY <1>1, <1>5 DEF StageUpload, PollNext, SkipInsert, Issue, Deliver, Poll, ResetRotation,
                    Expire, Housekeep, vars
<1>6. ASSUME NEW i \in Ids, Cancel(i) PROVE NowRowsSettle
  BY <1>0, <1>2, <1>6, CancelAllRows DEF Cancel
<1>7. CASE ListInserts
  BY <1>0, <1>2, <1>7, ExpireAllRows DEF ListInserts
<1>8. ASSUME NEW focus \in BOOLEAN, Rebuild(focus) PROVE NowRowsSettle
  BY <1>0, <1>2, <1>8, ExpireAllRows DEF Rebuild
<1>9. ASSUME NEW i \in Ids, NEW o \in {"pushed", "unmarked", "failed"}, PushInsert(i, o)
      PROVE NowRowsSettle
  <2>1. rotation \in Nat
    BY <1>0 DEF TypeOK
  <2>2. Settles(row')
    BY <1>0, <1>9, <2>1, MarkRow DEF PushInsert, Settles
  <2> QED BY <1>2, <1>9, <2>2 DEF PushInsert
<1>10. ASSUME NEW area \in {"mapped", "unmapped", "elsewhere"}, Refuse(area)
       PROVE NowRowsSettle
  <2>1. work' = Idle
    BY <1>10 DEF Refuse, Handled
  <2>2. Settles(row')
    BY <1>0, <1>10, CancelAllRows DEF Refuse, CancelOverlapping, Settles
  <2> QED BY <1>0, <2>1, <2>2 DEF NowRowsSettle, Settles
<1>11. CASE RenderNow
  <2>1. work \in Job(issued) /\ work' = [work EXCEPT !.ready = TRUE]
    BY <1>11, WorkInHand DEF RenderNow
  <2>2. work'.what = work.what
    BY <2>1 DEF Job
  <2> QED BY <1>11, <2>2 DEF RenderNow, NowRowsSettle
<1>12. CASE FailNow \/ Restart
  BY <1>12 DEF FailNow, Restart, NowRowsSettle
<1> QED BY <1>4, <1>5, <1>6, <1>7, <1>8, <1>9, <1>10, <1>11, <1>12 DEF Next

LEMMA ScopeInit == Init => ScopeInv
BY InsertFacts DEF Init, ScopeInv, OneNowPerZone, ZonesFree, NoRow

(* What _cancel_overlapping leaves of the rows: those whose zones are      *)
(* elsewhere, and the one to keep.                                         *)
LEMMA LeavesZones ==
  ASSUME Typed, NEW p \in Products, NEW keep
  PROVE  /\ CancelOverlapping(p, keep) \in [Ids -> Row]
         /\ \A i \in Endless :
              CancelOverlapping(p, keep)[i].what = row[i].what
         /\ \A i \in Endless : CancelOverlapping(p, keep)[i].status = "active" =>
              /\ row[i].status = "active"
              /\ i \notin keep => Zones[row[i].what] \cap Zones[p] = {}
<1>1. TypeOK /\ Endless \subseteq Ids
  BY InsertFacts DEF Typed
<1>2. /\ CancelOverlapping(p, keep) \in [Ids -> Row]
      /\ Settles(CancelOverlapping(p, keep))
      /\ \A i \in Ids : i \in Overlapping(p) \ keep =>
           CancelOverlapping(p, keep)[i].status # "active"
  BY <1>1, CancelAllRows DEF CancelOverlapping
<1> QED BY <1>1, <1>2 DEF Settles, Overlapping

LEMMA ScopeStep ==
  ASSUME Typed, ScopeInv, [Next]_vars
  PROVE  ScopeInv'
<1>0. /\ row \in [Ids -> Row] /\ Endless \subseteq Ids
      /\ \A p \in Products : IdOf[p] \in Endless
  BY InsertFacts DEF Typed, TypeOK
<1>1. CASE NowRowsSettle
  <2>1. OneNowPerZone'
    BY <1>1 DEF NowRowsSettle, ScopeInv, OneNowPerZone
  <2>2. ZonesFree'
    BY <1>1 DEF NowRowsSettle, ScopeInv, ZonesFree
  <2> QED BY <2>1, <2>2 DEF ScopeInv
<1>2. CASE Reaffirm
  <2> DEFINE p == Head(nowQ).what
             i == IdOf[p]
  <2>1. p \in Products /\ i \in Endless /\ i \in Ids
    BY <1>0, <1>2, HeadOfQueue DEF Reaffirm
  <2>2. /\ row' = [CancelOverlapping(p, {i}) EXCEPT ![i] = KeptRow(row[i])]
        /\ row[i].what = p /\ work' = Idle
    BY <1>2 DEF Reaffirm, SameContent, Handled
  <2>3. KeptRow(row[i]).what = p
    BY <1>0, <2>1, <2>2 DEF KeptRow, Row
  <2>4. row'[i].what = p /\ \A j \in Endless : j # i => row'[j] = CancelOverlapping(p, {i})[j]
    BY <1>0, <2>1, <2>2, <2>3, LeavesZones
  <2>5. \A j \in Endless : j # i /\ row'[j].status = "active" =>
          /\ row[j].status = "active" /\ row'[j].what = row[j].what
          /\ Zones[row'[j].what] \cap Zones[p] = {}
    BY <2>1, <2>4, LeavesZones
  <2>6. OneNowPerZone'
    BY <2>4, <2>5 DEF ScopeInv, OneNowPerZone
  <2> QED BY <2>2, <2>6 DEF ScopeInv, ZonesFree
<1>3. CASE BeginNow
  <2> DEFINE p == Head(nowQ).what
             i == IdOf[p]
  <2>1. p \in Products /\ i \in Endless
    BY <1>0, <1>3, HeadOfQueue DEF BeginNow
  <2>2. row' = CancelOverlapping(p, {i}) /\ work'.what = p
    BY <1>3 DEF BeginNow
  <2>3. \A j \in Endless : /\ row'[j].what = row[j].what
                           /\ row'[j].status = "active" =>
                                /\ row[j].status = "active"
                                /\ j # i => Zones[row[j].what] \cap Zones[p] = {}
    BY <2>1, <2>2, LeavesZones
  <2> HIDE DEF p, i
  <2>4. OneNowPerZone'
    BY <2>3 DEF ScopeInv, OneNowPerZone
  <2>5. ZonesFree'
    BY <2>2, <2>3 DEF ZonesFree, i
  <2> QED BY <2>4, <2>5 DEF ScopeInv
<1>4. CASE PublishNow
  <2> DEFINE p == work.what
             i == IdOf[p]
  <2>1. work # Idle /\ p \in Products /\ i \in Endless /\ i \in Ids
    BY <1>4, WorkInHand DEF PublishNow
  <2>2. row' = [row EXCEPT ![i] = FreshRow(p)] /\ work' = Idle
    BY <1>4 DEF PublishNow, PutOnAir, Handled
  <2>3. row'[i].what = p /\ \A j \in Endless : j # i => row'[j] = row[j]
    BY <1>0, <2>1, <2>2 DEF FreshRow
  <2>4. \A j \in Endless : j # i /\ row'[j].status = "active" =>
          Zones[row[j].what] \cap Zones[p] = {}
    BY <2>1, <2>3 DEF ScopeInv, ZonesFree
  <2>5. OneNowPerZone'
    BY <2>3, <2>4 DEF ScopeInv, OneNowPerZone
  <2> QED BY <2>2, <2>5 DEF ScopeInv, ZonesFree
<1> QED BY <1>1, <1>2, <1>3, <1>4, NowRowSteps

(* No two NOW inserts on the air speak for the same zone, whatever is      *)
(* issued, late, polled twice, cancelled, refused or fails while one is    *)
(* rendered (now_runtime.py), for any products and zones.                  *)
THEOREM OnePerZone == Spec => []OneNowPerZone
<1>1. Typed /\ [Next]_vars => Typed'
  BY RowsTypedStep, QueuesTypedStep, TypedParts, PTL
<1>2. Typed /\ ScopeInv /\ [Next]_vars => ScopeInv'
  BY ScopeStep
<1>3. ScopeInv => OneNowPerZone
  BY DEF ScopeInv
<1> QED BY TypedInit, ScopeInit, <1>1, <1>2, <1>3, PTL DEF Spec
-------------------------------------------------------------------------------
(* Airings and audio                                                       *)

LEMMA AiringInit == Init => AiringInv
<1> SUFFICES ASSUME Init PROVE AiringInv
  OBVIOUS
<1>1. \A i \in Ops : i \in Ids /\ MaxAirings[i] \in Nat
  BY RowAssumption, InsertFacts
<1>2. Counted
  <2> SUFFICES ASSUME NEW i \in Ops
               PROVE  aired[i] = row[i].count + unmarked[i] /\ row[i].count <= MaxAirings[i]
    BY DEF Counted
  <2>1. aired[i] = 0 /\ unmarked[i] = 0 /\ row[i] = NoRow
    BY <1>1 DEF Init
  <2>2. row[i].count = 0
    BY <2>1 DEF NoRow
  <2> QED BY <1>1, <2>1, <2>2
<1> QED BY <1>2 DEF Init, AiringInv, PendingHasLeft, EndedAirsOnceMore, LateIsOver

(* No insert is put on air, listed or pushed.                              *)
AiringsSettle ==
  /\ Settles(row')
  /\ \A i \in Ids : /\ row'[i].count = row[i].count
                    /\ row'[i].status = "none" <=> row[i].status = "none"
  /\ past \subseteq past' /\ pending' \subseteq pending
  /\ UNCHANGED <<aired, unmarked, late>>

LEMMA AiringSteps ==
  ASSUME Typed, [Next]_vars
  PROVE  \/ AiringsSettle \/ PublishNow \/ Reaffirm
         \/ \E i \in Ops : CreateAudioInsert(i) \/ \E f \in BOOLEAN : FinishTextInsert(i, f)
         \/ \E focus \in BOOLEAN : Rebuild(focus)
         \/ \E i \in Ids, o \in {"pushed", "unmarked", "failed"} : PushInsert(i, o)
<1> USE DEF rows, api, nows, cycle, bounds, told
<1>0. TypeOK
  BY DEF Typed
<1>1. ASSUME UNCHANGED row, past \subseteq past', pending' \subseteq pending,
             UNCHANGED <<aired, unmarked, late>>
      PROVE AiringsSettle
  BY <1>1 DEF AiringsSettle, Settles
<1>2. ASSUME NEW i \in Ops, BeginTextInsert(i) PROVE AiringsSettle
  BY <1>1, <1>2 DEF BeginTextInsert
<1>3. ASSUME \/ \E f \in BOOLEAN : StageUpload(f) \/ PollNext(f)
             \/ \E i \in Ids : SkipInsert(i)
             \/ \E p \in Products : Issue(p) \/ Deliver(p)
             \/ Poll \/ ResetRotation \/ RenderNow \/ FailNow \/ Restart
             \/ \E item \in Items \cup {"upload"} : Expire(item)
             \/ \E aged \in SUBSET Ids : \E unread \in SUBSET AgedAndProtected(aged) :
                   Housekeep(aged, unread)
             \/ UNCHANGED vars
      PROVE AiringsSettle
  BY <1>1, <1>3 DEF StageUpload, PollNext, SkipInsert, Issue, Deliver, Poll, ResetRotation,
                    RenderNow, FailNow, Restart, Expire, Housekeep, vars
<1>4. ASSUME NEW ids, row' = CancelAll(ids), UNCHANGED <<past, pending, aired, unmarked, late>>
      PROVE AiringsSettle
  BY <1>0, <1>4, CancelAllRows DEF AiringsSettle
<1>5. ASSUME \/ \E i \in Ids : Cancel(i)
             \/ \E area \in {"mapped", "unmapped", "elsewhere"} : Refuse(area)
             \/ BeginNow
      PROVE AiringsSettle
  BY <1>1, <1>4, <1>5 DEF Cancel, Refuse, BeginNow, CancelOverlapping
<1>6. CASE ListInserts
  BY <1>0, <1>6, ExpireAllRows DEF ListInserts, AiringsSettle
<1> QED BY <1>2, <1>3, <1>5, <1>6 DEF Next

(* An upsert starts the airings of an insert anew.                         *)
LEMMA AiringPut ==
  ASSUME TypeOK, AiringInv, NEW i \in Ids, NEW item \in Items, PutOnAir(row, i, item),
         UNCHANGED <<past, pending>>
  PROVE  AiringInv'
<1>1. /\ \A j \in Ids \ {i} : /\ row'[j] = row[j] /\ aired'[j] = aired[j]
                              /\ unmarked'[j] = unmarked[j] /\ late'[j] = late[j]
      /\ row'[i] = FreshRow(item) /\ aired'[i] = 0 /\ unmarked'[i] = 0 /\ late'[i] = 0
  BY DEF PutOnAir, TypeOK
<1>2. row'[i].count = 0 /\ row'[i].status = "active"
  BY <1>1, FreshIsRow
<1>3. \A j \in Ops : j \in Ids /\ MaxAirings[j] \in Nat \ {0}
  BY RowAssumption, InsertFacts
<1>4. Counted'
  BY <1>1, <1>2, <1>3 DEF AiringInv, Counted
<1>5. pending \subseteq Ids
  BY DEF TypeOK
<1>6. PendingHasLeft'
  BY <1>1, <1>2, <1>3, <1>5 DEF AiringInv, PendingHasLeft
<1>7. EndedAirsOnceMore'
  BY <1>1 DEF AiringInv, EndedAirsOnceMore
<1>8. LateIsOver'
  BY <1>1 DEF AiringInv, LateIsOver, Over
<1> QED BY <1>4, <1>6, <1>7, <1>8 DEF AiringInv

LEMMA AiringStep ==
  ASSUME Typed, AiringInv, [Next]_vars
  PROVE  AiringInv'
<1> USE DEF rows, api, nows, cycle, bounds, told
<1>0. /\ TypeOK /\ row \in [Ids -> Row] /\ Ops \subseteq Ids /\ pending \subseteq Ids
      /\ late \in [Ids -> Nat] /\ aired \in [Ids -> Nat] /\ unmarked \in [Ids -> Nat]
      /\ \A i \in Ops : i \notin Endless /\ MaxAirings[i] \in Nat \ {0}
      /\ \A i \in Ids : row[i].count \in Nat
  BY InsertFacts, RowAssumption DEF Typed, TypeOK, Row
<1>1. CASE AiringsSettle
  <2>1. Counted' /\ PendingHasLeft' /\ EndedAirsOnceMore'
    BY <1>0, <1>1 DEF AiringsSettle, AiringInv, Counted, PendingHasLeft, EndedAirsOnceMore
  <2>2. LateIsOver'
    BY <1>1 DEF AiringsSettle, Settles, AiringInv, LateIsOver, Over
  <2> QED BY <2>1, <2>2 DEF AiringInv
<1>2. ASSUME NEW i \in Ops, CreateAudioInsert(i) PROVE AiringInv'
  BY <1>0, <1>2, InsertFacts, AiringPut DEF CreateAudioInsert
<1>3. ASSUME NEW i \in Ops, NEW f \in BOOLEAN, FinishTextInsert(i, f) PROVE AiringInv'
  <2>1. CASE f
    <3>1. AiringsSettle
      BY <1>3, <2>1 DEF FinishTextInsert, AiringsSettle, Settles
    <3> QED BY <1>1, <3>1
  <2>2. CASE ~f
    BY <1>0, <1>3, <2>2, InsertFacts, AiringPut DEF FinishTextInsert
  <2> QED BY <2>1, <2>2
<1>4. CASE PublishNow
  BY <1>0, <1>4, WorkInHand, InsertFacts, AiringPut DEF PublishNow
<1>5. CASE Reaffirm
  <2> DEFINE p == Head(nowQ).what
             i == IdOf[p]
             left == CancelOverlapping(p, {i})
  <2>1. i \in Ids
    BY <1>5, HeadOfQueue, InsertFacts DEF Reaffirm
  <2>2. /\ row' = [left EXCEPT ![i] = KeptRow(row[i])] /\ late' = [late EXCEPT ![i] = 0]
        /\ UNCHANGED <<past, pending, aired, unmarked>>
    BY <1>5 DEF Reaffirm
  <2>3. /\ left \in [Ids -> Row]
        /\ \A j \in Ids : /\ left[j].what = row[j].what /\ left[j].count = row[j].count
                          /\ left[j].status = "active" => row[j].status = "active"
                          /\ left[j].status = "none" <=> row[j].status = "none"
    BY <1>0, CancelAllRows DEF CancelOverlapping, Settles
  <2>4. KeptRow(row[i]).count = row[i].count /\ KeptRow(row[i]).status = "active"
    BY <1>0, <2>1 DEF KeptRow, Row
  <2> HIDE DEF left, i
  <2>5. /\ \A j \in Ids : row'[j].count = row[j].count
        /\ \A j \in Ids : row'[j].status = "none" => row[j].status = "none"
        /\ \A j \in Ids \ {i} : /\ row'[j].what = row[j].what /\ late'[j] = late[j]
                                /\ row'[j].status = "active" => row[j].status = "active"
        /\ late'[i] = 0
    BY <1>0, <2>1, <2>2, <2>3, <2>4
  <2>6. Counted' /\ PendingHasLeft' /\ EndedAirsOnceMore'
    BY <1>0, <2>2, <2>5 DEF AiringInv, Counted, PendingHasLeft, EndedAirsOnceMore
  <2>7. LateIsOver'
    BY <2>2, <2>5 DEF AiringInv, LateIsOver, Over
  <2> QED BY <2>6, <2>7 DEF AiringInv
<1>6. ASSUME NEW focus \in BOOLEAN, Rebuild(focus) PROVE AiringInv'
  <2>1. /\ Settles(row')
        /\ \A i \in Ids : /\ row'[i].count = row[i].count
                          /\ row'[i].status = "none" <=> row[i].status = "none"
        /\ UNCHANGED <<past, aired, unmarked, late>>
    BY <1>0, <1>6, ExpireAllRows DEF Rebuild
  <2>2. \A i \in pending' : /\ i \in Ids /\ row[i].status = "active" /\ ~Over(i)
                            /\ ~Exhausted(i, row[i])
    BY <1>6 DEF Rebuild, DueNow, Due
  <2>3. Counted' /\ EndedAirsOnceMore'
    BY <1>0, <2>1 DEF AiringInv, Counted, EndedAirsOnceMore
  <2>4. PendingHasLeft'
    BY <1>0, <2>1, <2>2 DEF PendingHasLeft, Exhausted
  <2>5. LateIsOver'
    BY <2>1, <2>2 DEF AiringInv, LateIsOver, Over, Settles
  <2> QED BY <2>3, <2>4, <2>5 DEF AiringInv
<1>7. ASSUME NEW i \in Ids, NEW o \in {"pushed", "unmarked", "failed"}, PushInsert(i, o)
      PROVE AiringInv'
  <2>1. rotation \in Nat
    BY <1>0 DEF TypeOK
  <2>2. i \in pending /\ pending' = pending \ {i} /\ past' = past
    BY <1>7 DEF PushInsert
  <2>3. row[i].status # "none" /\ (i \in Ops => row[i].count < MaxAirings[i]) /\ late[i] = 0
    BY <2>2 DEF AiringInv, PendingHasLeft, LateIsOver
  <2>4. /\ \A j \in Ids \ {i} : row'[j] = row[j]
        /\ row'[i].what = row[i].what
        /\ row'[i].status = "active" => row[i].status = "active"
        /\ i \in Ops => row'[i].count = IF o = "pushed" THEN row[i].count + 1 ELSE row[i].count
    <3>1. row \in [Ids -> Row] /\ row[i] \in Row
      BY <1>0 DEF TypeOK
    <3>2. CASE o = "pushed"
      <4>1. row' = [row EXCEPT ![i] = MarkAired(i, row[i], rotation)]
        BY <1>7, <3>2 DEF PushInsert
      <4>2. row'[i] = MarkAired(i, row[i], rotation) /\ \A j \in Ids \ {i} : row'[j] = row[j]
        BY <3>1, <4>1
      <4>3. i \in Ops => i \notin Endless
        BY InsertFacts
      <4> QED BY <2>1, <2>3, <3>1, <3>2, <4>2, <4>3, MarkRow
    <3>3. CASE o # "pushed"
      <4>1. row' = row
        BY <1>7, <3>3 DEF PushInsert
      <4> QED BY <3>3, <4>1
    <3> QED BY <3>2, <3>3
  <2>5. \A j \in Ids \ {i} : /\ aired'[j] = aired[j] /\ unmarked'[j] = unmarked[j]
                             /\ late'[j] = late[j]
    BY <1>0, <1>7 DEF PushInsert
  <2>6. i \in Ops => /\ aired'[i] = IF o = "failed" THEN aired[i] ELSE aired[i] + 1
                     /\ unmarked'[i] = IF o = "unmarked" THEN unmarked[i] + 1 ELSE unmarked[i]
    BY <1>0, <1>7 DEF PushInsert
  <2>7. /\ late'[i] \in {0, 1}
        /\ row[i].status = "active" /\ ~Over(i) => late'[i] = 0
    BY <1>0, <1>7, <2>3 DEF PushInsert
  <2>8. Counted'
    BY <1>0, <2>3, <2>4, <2>5, <2>6 DEF AiringInv, Counted
  <2>9. PendingHasLeft'
    BY <1>0, <2>2, <2>4 DEF AiringInv, PendingHasLeft
  <2>10. EndedAirsOnceMore'
    BY <2>5, <2>7 DEF AiringInv, EndedAirsOnceMore
  <2>11. LateIsOver'
    BY <2>2, <2>4, <2>5, <2>7 DEF AiringInv, LateIsOver, Over
  <2> QED BY <2>8, <2>9, <2>10, <2>11 DEF AiringInv
<1> QED BY <1>1, <1>2, <1>3, <1>4, <1>5, <1>6, <1>7, AiringSteps

(* What was asked of an insert bounds how often it is heard: max_airings   *)
(* and the pushes that could not be marked, and one push after its end,    *)
(* however often rotations start anew, the process restarts, or the row is *)
(* cancelled, replaced and revived (inserts.py, conductor.py).             *)
THEOREM HeardAsAsked == Spec => []AirsAsAsked
<1>1. Typed /\ [Next]_vars => Typed'
  BY RowsTypedStep, QueuesTypedStep, TypedParts, PTL
<1>2. Typed /\ AiringInv /\ [Next]_vars => AiringInv'
  BY AiringStep
<1>3. ASSUME Typed, AiringInv PROVE AirsAsAsked
  <2>1. \A i \in Ops : /\ row[i].count \in Nat /\ unmarked[i] \in Nat /\ MaxAirings[i] \in Nat
    BY <1>3, InsertFacts, RowAssumption DEF Typed, TypeOK, Row
  <2>2. NeverOverAired
    BY <1>3, <2>1 DEF AiringInv, Counted, NeverOverAired
  <2> QED BY <1>3, <2>2 DEF AiringInv, AirsAsAsked
<1> QED BY TypedInit, AiringInit, <1>1, <1>2, <1>3, PTL DEF Spec

LEMMA AudioInit == Init => AudioInv
BY DEF Init, AudioInv, AudioKept, RenderedIsThere, NoRow, NoUpload

LEMMA AudioStep ==
  ASSUME Typed, AudioInv, [Next]_vars
  PROVE  AudioInv'
<1> USE DEF rows, api, nows, cycle, bounds, told
<1>0. /\ TypeOK /\ row \in [Ids -> Row] /\ Ops \subseteq Ids /\ Ops \subseteq Items
      /\ NoItem \notin Items /\ Products \subseteq Items
      /\ audio \in [Ids -> Items \cup {NoItem}]
      /\ upload \in [wav : BOOLEAN, row : BOOLEAN, json : BOOLEAN]
  BY InsertFacts DEF Typed, TypeOK
<1>1. ASSUME AiringsSettle, UNCHANGED <<audio, upload, exposed>>,
             work' = work \/ work' = Idle \/ work'.ready = FALSE
      PROVE AudioInv'
  <2>1. AudioKept'
    BY <1>1 DEF AiringsSettle, Settles, AudioInv, AudioKept, Over
  <2>2. RenderedIsThere'
    BY <1>1 DEF AudioInv, RenderedIsThere
  <2> QED BY <2>1, <2>2 DEF AudioInv
<1>2. ASSUME NEW i \in Ids, NEW item \in Items, PutOnAir(row, i, item),
             audio'[i] # NoItem, \A j \in Ids : audio[j] # NoItem => audio'[j] # NoItem,
             UNCHANGED past, work' = work \/ work' = Idle,
             upload' = upload \/ (upload'.wav /\ upload'.row),
             exposed' = exposed \/ exposed' = exposed \ {i}
      PROVE AudioInv'
  <2>1. \A j \in Ids \ {i} : row'[j] = row[j]
    BY <1>0, <1>2 DEF PutOnAir
  <2>2. AudioKept'
    BY <1>2, <2>1 DEF AudioInv, AudioKept, Over
  <2>3. work # Idle => IdOf[work.what] \in Ids
    BY WorkInHand
  <2>4. RenderedIsThere'
    BY <1>2, <2>3 DEF AudioInv, RenderedIsThere
  <2> QED BY <2>2, <2>4 DEF AudioInv
<1>3. ASSUME NEW i \in Ops, CreateAudioInsert(i) PROVE AudioInv'
  <2>1. PutOnAir(row, i, i) /\ audio' = [audio EXCEPT ![i] = i]
        /\ UNCHANGED <<past, work>> /\ upload'.wav /\ upload'.row
        /\ exposed' = exposed \ {i}
    BY <1>0, <1>3 DEF CreateAudioInsert, WriteAudio, LoadUpload
  <2>2. audio'[i] # NoItem /\ \A j \in Ids : audio[j] # NoItem => audio'[j] # NoItem
    BY <1>0, <2>1
  <2> QED BY <1>0, <1>2, <2>1, <2>2
<1>4. ASSUME NEW i \in Ops, NEW f \in BOOLEAN, FinishTextInsert(i, f) PROVE AudioInv'
  <2>1. CASE f
    <3>1. AiringsSettle /\ UNCHANGED <<audio, upload, work, exposed>>
      BY <1>4, <2>1 DEF FinishTextInsert, AiringsSettle, Settles
    <3> QED BY <1>1, <3>1
  <2>2. CASE ~f
    <3>1. PutOnAir(row, i, i) /\ audio' = [audio EXCEPT ![i] = i]
          /\ UNCHANGED <<past, work, upload>> /\ exposed' = exposed \ {i}
      BY <1>4, <2>2 DEF FinishTextInsert, WriteAudio
    <3>2. audio'[i] # NoItem /\ \A j \in Ids : audio[j] # NoItem => audio'[j] # NoItem
      BY <1>0, <3>1
    <3> QED BY <1>0, <1>2, <3>1, <3>2
  <2> QED BY <2>1, <2>2
<1>5. CASE PublishNow
  <2>1. /\ PutOnAir(row, IdOf[work.what], work.what) /\ work' = Idle
        /\ UNCHANGED <<audio, past, upload, exposed>>
        /\ IdOf[work.what] \in Ids /\ work.what \in Items
        /\ audio[IdOf[work.what]] # NoItem
    BY <1>0, <1>5, WorkInHand DEF PublishNow, Handled, AudioInv, RenderedIsThere
  <2> QED BY <1>2, <2>1
<1>6. CASE Reaffirm
  <2> DEFINE p == Head(nowQ).what
             i == IdOf[p]
             left == CancelOverlapping(p, {i})
  <2>1. i \in Ids /\ audio[i] # NoItem
    BY <1>0, <1>6, HeadOfQueue, InsertFacts DEF Reaffirm, SameContent
  <2>2. /\ row' = [left EXCEPT ![i] = KeptRow(row[i])] /\ work' = Idle
        /\ UNCHANGED <<past, audio, upload, exposed>>
    BY <1>6 DEF Reaffirm, Handled
  <2>3. /\ left \in [Ids -> Row]
        /\ \A j \in Ids : /\ left[j].what = row[j].what
                          /\ left[j].status = "active" => row[j].status = "active"
    BY <1>0, CancelAllRows DEF CancelOverlapping, Settles
  <2> HIDE DEF left, i
  <2>4. \A j \in Ids \ {i} : row'[j] = left[j]
    BY <2>2, <2>3
  <2>5. AudioKept'
    BY <2>1, <2>2, <2>3, <2>4 DEF AudioInv, AudioKept, Over
  <2> QED BY <2>2, <2>5 DEF AudioInv, RenderedIsThere
<1>7. ASSUME NEW focus \in BOOLEAN, Rebuild(focus) PROVE AudioInv'
  <2>1. Settles(row') /\ UNCHANGED <<audio, past, upload, work, exposed>>
    BY <1>0, <1>7, ExpireAllRows DEF Rebuild
  <2> QED BY <2>1 DEF Settles, AudioInv, AudioKept, RenderedIsThere, Over
<1>8. ASSUME NEW i \in Ids, NEW o \in {"pushed", "unmarked", "failed"}, PushInsert(i, o)
      PROVE AudioInv'
  <2>1. rotation \in Nat
    BY <1>0 DEF TypeOK
  <2>2. Settles(row') /\ UNCHANGED <<audio, past, upload, work, exposed>>
    BY <1>0, <1>8, <2>1, MarkRow DEF PushInsert, Settles
  <2> QED BY <2>2 DEF Settles, AudioInv, AudioKept, RenderedIsThere, Over
<1>9. CASE AiringsSettle
  <2>1. ASSUME NEW f \in BOOLEAN, StageUpload(f) PROVE AudioInv'
    BY <2>1 DEF StageUpload, AudioInv, AudioKept, RenderedIsThere, Over
  <2>2. CASE RenderNow
    <3> DEFINE i == IdOf[work.what]
    <3>1. i \in Ids /\ work.what \in Items /\ work \in Job(issued)
      BY <1>0, <2>2, WorkInHand DEF RenderNow
    <3>2. /\ audio' = [audio EXCEPT ![i] = work.what] /\ work' = [work EXCEPT !.ready = TRUE]
          /\ UNCHANGED <<row, past, upload>> /\ exposed' = exposed \ {i}
      BY <2>2 DEF RenderNow, WriteAudio
    <3>3. audio'[i] # NoItem /\ work'.what = work.what
          /\ \A j \in Ids : audio[j] # NoItem => audio'[j] # NoItem
      BY <1>0, <3>1, <3>2 DEF Job
    <3>4. AudioKept'
      BY <3>2, <3>3 DEF AudioInv, AudioKept, Over
    <3> QED BY <3>3, <3>4 DEF AudioInv, RenderedIsThere
  <2>3. ASSUME NEW aged \in SUBSET Ids, NEW unread \in SUBSET AgedAndProtected(aged),
               Housekeep(aged, unread)
        PROVE AudioInv'
    <3>1. UNCHANGED <<row, past, work>> /\ upload' = PrunedUpload
          /\ exposed' = exposed \cup (aged \cap unread)
          /\ \A i \in Ids : audio'[i] = IF i \in aged /\ (~Protected(i) \/ i \in unread) THEN NoItem
                                        ELSE audio[i]
      BY <2>3 DEF Housekeep, CleanedAudio
    <3>2. work # Idle /\ work.ready => IdOf[work.what] \in Ids \ aged
      BY <2>3, WorkInHand DEF Housekeep
    <3>3. upload' # NoUpload /\ "upload" \notin past => upload'.wav /\ (upload'.row \/ upload'.json)
      BY <1>0, <3>1 DEF PrunedUpload, KeepsUpload, AudioInv, AudioKept, NoUpload
    <3>4. AudioKept'
      BY <3>1, <3>3 DEF AudioInv, AudioKept, Protected, Over
    <3>5. RenderedIsThere'
      BY <3>1, <3>2 DEF AudioInv, RenderedIsThere
    <3> QED BY <3>4, <3>5 DEF AudioInv
  <2>4. ASSUME \/ \E i \in Ops : BeginTextInsert(i)
               \/ \E f \in BOOLEAN : PollNext(f)
               \/ \E i \in Ids : Cancel(i) \/ SkipInsert(i)
               \/ \E p \in Products : Issue(p) \/ Deliver(p)
               \/ \E area \in {"mapped", "unmapped", "elsewhere"} : Refuse(area)
               \/ ListInserts \/ Poll \/ BeginNow \/ FailNow \/ ResetRotation \/ Restart
               \/ \E item \in Items \cup {"upload"} : Expire(item)
               \/ UNCHANGED vars
        PROVE AudioInv'
    <3>1. UNCHANGED <<audio, upload, exposed>> /\ (work' = work \/ work' = Idle \/ work'.ready = FALSE)
      <4>1. CASE \/ \E i \in Ops : BeginTextInsert(i)
                 \/ \E f \in BOOLEAN : PollNext(f)
                 \/ \E i \in Ids : Cancel(i) \/ SkipInsert(i)
        BY <4>1 DEF BeginTextInsert, PollNext, Cancel, SkipInsert
      <4>2. CASE \/ \E p \in Products : Issue(p) \/ Deliver(p)
                 \/ ListInserts \/ Poll \/ ResetRotation
                 \/ \E item \in Items \cup {"upload"} : Expire(item)
                 \/ UNCHANGED vars
        BY <4>2 DEF Issue, Deliver, ListInserts, Poll, ResetRotation, Expire, vars
      <4>3. CASE \/ \E area \in {"mapped", "unmapped", "elsewhere"} : Refuse(area)
                 \/ FailNow \/ Restart
        BY <4>3 DEF Refuse, Handled, FailNow, Restart
      <4>4. CASE BeginNow
        <5>1. work' = [what |-> Head(nowQ).what, api |-> Head(nowQ).api, ready |-> FALSE]
          BY <4>4 DEF BeginNow
        <5>2. work'.ready = FALSE
          BY <5>1
        <5> QED BY <4>4, <5>2 DEF BeginNow
      <4> QED BY <2>4, <4>1, <4>2, <4>3, <4>4
    <3> QED BY <1>1, <1>9, <3>1
  <2> QED BY <1>3, <1>4, <1>5, <1>6, <1>7, <1>8, <2>1, <2>2, <2>3, <2>4 DEF Next
<1> QED BY <1>3, <1>4, <1>5, <1>6, <1>7, <1>8, <1>9, AiringSteps

(* What is to be played is there: whatever the housekeeper's passes fall   *)
(* between, a rendering, an upload kept in a file or a revived row, no     *)
(* audio is deleted that may still be used, but for what had aged when a   *)
(* pass failed to read its row (housekeeping.py).                          *)
THEOREM NothingDeleted == Spec => []AudioKept
<1>1. Typed /\ [Next]_vars => Typed'
  BY RowsTypedStep, QueuesTypedStep, TypedParts, PTL
<1>2. Typed /\ AudioInv /\ [Next]_vars => AudioInv'
  BY AudioStep
<1>3. AudioInv => AudioKept
  BY DEF AudioInv
<1> QED BY TypedInit, AudioInit, <1>1, <1>2, <1>3, PTL DEF Spec
===============================================================================
