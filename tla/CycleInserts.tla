----------------------------- MODULE CycleInserts -----------------------------
(***************************************************************************)
(* Cycle inserts: operators create and cancel them over the API            *)
(* (control.py), the NOW worker makes them of short-term forecasts         *)
(* (broadcast/now_runtime.py), the conductor lists the due ones when it    *)
(* builds a rotation and pushes them later from that list                  *)
(* (broadcast/conductor.py), and the housekeeper deletes audio that no row *)
(* protects (database/housekeeping.py).  All run on one event loop; a      *)
(* rendering is awaited, so everything else may happen meanwhile.          *)
(*                                                                         *)
(* NOW products arrive by NWWS-OI, perhaps late or never, and by a poll of *)
(* the api.weather.gov index, newest first.  An id of the API is seen once *)
(* its product was processed without an exception.                         *)
(*                                                                         *)
(* Left out: the limit of three inserts per placement, the disk quota of   *)
(* the housekeeper, and files without a row after a crash (they are        *)
(* deleted with age).                                                      *)
(***************************************************************************)
EXTENDS InsertRows, FiniteSets, Sequences, FiniteSetsExt

CONSTANTS
  Ops,          \* operators' inserts, each its own id and text
  OfUpload,     \* those made of an uploaded file; the others are synthesised
  Products,     \* NOW products, whose ids are in Endless
  IdOf,         \* the insert_id of a product: a digest of its office and zones
  Zones,        \* the UGC zones of a product
  Issued,       \* the order in which the office issued the products
  InArea,       \* the products with a SAME location in the service area
  Missed,       \* the products that NWWS-OI never delivers
  Offers,       \* bound: the sets of items of which one comes up in a behaviour
  Idle,         \* the NOW worker waits for work
  QueueMax,     \* maxsize of the worker's queue
  MaxRotations, \* bound: rotations of one life of the process
  MaxFaults,    \* bound: failed lookups, renderings, writes and pushes
  MaxRestarts   \* bound: restarts

ASSUME InsertAssumption ==
  /\ Ops \subseteq Ids \ Endless /\ OfUpload \subseteq Ops
  /\ Items = Ops \cup Products
  /\ IdOf \in [Products -> Endless]
  /\ \A p, q \in Products : IdOf[p] = IdOf[q] <=> Zones[p] = Zones[q]
  /\ \A p, q \in Products : Issued[p] = Issued[q] => p = q
  /\ InArea \subseteq Products /\ Missed \subseteq Products /\ Idle \notin Products
  /\ Offers \subseteq SUBSET Items

ASSUME BoundsAssumption ==
  /\ QueueMax \in Nat /\ MaxRotations \in Nat
  /\ MaxFaults \in Nat /\ MaxRestarts \in Nat

VARIABLES
  offered,    \* the items that come up
  row,        \* cycle_inserts
  audio,      \* the wav file of an id: the text it says, or NoItem
  past,       \* the items whose expires_at has passed
  rendering,  \* operators' inserts whose text is being synthesised
  upload,     \* the staged upload: its wav and where its metadata is
  issued,     \* the products issued so far
  heard,      \* the products NWWS-OI delivered
  nowQ,       \* _queue: [what, api]
  work,       \* the NOW product being rendered: [what, api, ready], or Idle
  seen,       \* _seen_api_product_ids
  refs,       \* the references the running poll has still to look at
  rotation,   \* _rotation_count
  pending,    \* the inserts of this rotation still to push (_insert_cache)
  faults,     \* faults so far
  restarts,   \* restarts so far
  aired,      \* history: pushes of an id since its text was put on air
  unmarked,   \* history: those whose mark_aired failed
  late,       \* history: pushes of an id since its row ended
  lost,       \* history: the products refused for a failed lookup
  exposed     \* history: inserts whose audio a pass deleted that could not
              \* read their rows

rows   == <<row, audio, past>>
api    == <<rendering, upload>>
nows   == <<issued, heard, nowQ, work, seen, refs>>
cycle  == <<rotation, pending>>
bounds == <<faults, restarts, offered>>
told   == <<aired, unmarked, late, lost, exposed>>
vars   == <<rows, api, nows, cycle, bounds, told>>

NoUpload == [wav |-> FALSE, row |-> FALSE, json |-> FALSE]

Init ==
  /\ row = [i \in Ids |-> NoRow] /\ audio = [i \in Ids |-> NoItem]
  /\ past = {} /\ rendering = {} /\ upload = NoUpload
  /\ issued = {} /\ heard = {} /\ nowQ = <<>> /\ work = Idle
  /\ seen = {} /\ refs = <<>>
  /\ rotation = 0 /\ pending = {}
  /\ faults = 0 /\ restarts = 0 /\ offered \in Offers
  /\ aired = [i \in Ids |-> 0] /\ unmarked = [i \in Ids |-> 0]
  /\ late = [i \in Ids |-> 0] /\ lost = {} /\ exposed = {}

\* The outcome of a call that may fail.
Fails(failed) == /\ failed => faults < MaxFaults
                 /\ faults' = faults + (IF failed THEN 1 ELSE 0)
                 /\ UNCHANGED offered

Over(i) == row[i].what \in past

\* The rows after cancel_insert of every id of a set.
CancelAll(ids) == [i \in Ids |-> IF i \in ids THEN CancelInsert(row[i]) ELSE row[i]]

\* An upsert of what is to be said from now on: the file exists, and the
\* airings are those of the new row.
PutOnAir(r, i, item) ==
  /\ row' = [r EXCEPT ![i] = FreshRow(item)]
  /\ aired' = [aired EXCEPT ![i] = 0]
  /\ unmarked' = [unmarked EXCEPT ![i] = 0]
  /\ late' = [late EXCEPT ![i] = 0]
  /\ UNCHANGED lost

WriteAudio(i, item) ==
  /\ audio' = [audio EXCEPT ![i] = item]
  /\ exposed' = exposed \ {i}
-------------------------------------------------------------------------------
(* Operators: control.py, behind the commands of the HTTP API.             *)

\* create_text_insert up to the await of the rendering.
BeginTextInsert(i) ==
  /\ i \in Ops \ OfUpload /\ i \in offered /\ row[i] = NoRow /\ i \notin rendering
  /\ i \notin past
  /\ rendering' = rendering \cup {i}
  /\ UNCHANGED <<rows, upload, nows, cycle, bounds, told>>

\* ... and from there, when it may have expired meanwhile.
FinishTextInsert(i, failed) ==
  /\ i \in rendering
  /\ rendering' = rendering \ {i}
  /\ Fails(failed)
  /\ IF failed THEN UNCHANGED <<row, audio, told>>
               ELSE PutOnAir(row, i, i) /\ WriteAudio(i, i)
  /\ UNCHANGED <<past, upload, nows, cycle, restarts>>

\* stage_wav_upload: metadata goes to a file where the repository fails.
StageUpload(failed) ==
  /\ OfUpload \cap offered # {} /\ upload = NoUpload /\ "upload" \notin past
  /\ Fails(failed)
  /\ upload' = [wav |-> TRUE, row |-> ~failed, json |-> failed]
  /\ UNCHANGED <<rows, rendering, nows, cycle, restarts, told>>

\* _load_audio_asset: metadata found in a file goes back to the repository.
LoadUpload ==
  /\ upload.wav /\ (upload.row \/ upload.json) /\ "upload" \notin past
  /\ upload' = [upload EXCEPT !.row = TRUE]

\* create_audio_insert copies the file; there is no await.
CreateAudioInsert(i) ==
  /\ i \in OfUpload /\ i \in offered /\ row[i] = NoRow /\ i \notin past
  /\ LoadUpload
  /\ PutOnAir(row, i, i) /\ WriteAudio(i, i)
  /\ UNCHANGED <<past, rendering, nows, cycle, bounds>>

\* cancel_insert, of any id that has an active row.
Cancel(i) ==
  /\ row[i].status = "active"
  /\ row' = CancelAll({i})
  /\ UNCHANGED <<audio, past, api, nows, cycle, bounds, told>>

\* list_inserts and get_insert expire first.
ListInserts ==
  /\ row' = [i \in Ids |-> ExpireDue(row[i], Over(i))]
  /\ row' # row
  /\ UNCHANGED <<audio, past, api, nows, cycle, bounds, told>>
-------------------------------------------------------------------------------
(* NOW products: broadcast/now_runtime.py.                                 *)

Queued == {nowQ[n].what : n \in {m \in DOMAIN nowQ : nowQ[m].api}}
            \cup (IF work # Idle /\ work.api THEN {work.what} ELSE {})

Issue(p) ==
  /\ p \in offered \ issued
  /\ \A q \in Products : q \in offered /\ Issued[q] < Issued[p] => q \in issued
  /\ issued' = issued \cup {p}
  /\ UNCHANGED <<rows, api, heard, nowQ, work, seen, refs, cycle, bounds, told>>

\* A full queue drops the product.
Submit(p, isApi) ==
  nowQ' = IF Len(nowQ) < QueueMax THEN Append(nowQ, [what |-> p, api |-> isApi]) ELSE nowQ

\* NWWS-OI delivers a product: once, at any time after it was issued.
Deliver(p) ==
  /\ p \in issued \ (heard \cup Missed)
  /\ heard' = heard \cup {p}
  /\ Submit(p, FALSE)
  /\ UNCHANGED <<rows, api, issued, work, seen, refs, cycle, bounds, told>>

\* The index of the API: what was issued, newest first.
NewestFirst ==
  {list \in [1 .. Cardinality(issued) -> issued] :
     \A m, n \in DOMAIN list : m < n => Issued[list[m]] > Issued[list[n]]}

Known(p) == p \in seen \cup Queued

FromUnknown(list) ==
  LET unknown == {n \in DOMAIN list : ~Known(list[n])}
  IN  IF unknown = {} THEN <<>> ELSE SubSeq(list, Min(unknown), Len(list))

\* backfill_recent_once, from the product index to the first reference whose
\* product it fetches ...
Poll ==
  /\ refs = <<>>
  /\ \E list \in NewestFirst : refs' = FromUnknown(list)
  /\ refs' # <<>>
  /\ UNCHANGED <<rows, api, issued, heard, nowQ, work, seen, cycle, bounds, told>>

\* ... and from a fetched product to the next fetch.
PollNext(failed) ==
  /\ refs # <<>>
  /\ Fails(failed)
  /\ IF Known(Head(refs)) \/ failed THEN UNCHANGED nowQ ELSE Submit(Head(refs), TRUE)
  /\ refs' = FromUnknown(Tail(refs))
  /\ UNCHANGED <<rows, api, issued, heard, work, seen, cycle, restarts, told>>

\* The active NOW inserts that share a zone with a product.  The office, which
\* is compared too, is left out: a zone belongs to one.
Overlapping(p) ==
  {i \in Endless : /\ row[i].status = "active"
                   /\ Zones[row[i].what] \cap Zones[p] # {}}

NewerOverlapExists(p) ==
  \E i \in Overlapping(p) : Issued[row[i].what] > Issued[p]

\* Mutated form: only inserts of exactly these zones are replaced.
CancelOverlappingSameScope(p, keep) ==
  CancelAll({i \in Overlapping(p) : Zones[row[i].what] = Zones[p]} \ keep)

\* _cancel_overlapping; keep: the insert the product itself becomes.
CancelOverlapping(p, keep) == CancelAll(Overlapping(p) \ keep)

\* The worker has dealt with an item.
Handled(p, isApi) ==
  /\ work' = Idle
  /\ seen' = IF isApi THEN seen \cup {p} ELSE seen

\* Mutated form: the file of an unchanged text is not looked for.
SameContentUnchecked(p) == row[IdOf[p]].what = p

SameContent(p) == row[IdOf[p]].what = p /\ audio[IdOf[p]] # NoItem

\* handle of a product that is not spoken.  Where it applies is looked up
\* first: when that fails it is unmapped, and when it fails for a part of its
\* zones the rest may lie elsewhere.  One that is current but not for here
\* ends the inserts it overlaps.
Refuse(area) ==
  /\ nowQ # <<>> /\ work = Idle
  /\ LET p == Head(nowQ).what
     IN  /\ Fails(area # "mapped")
         /\ lost' = IF area # "mapped" /\ ~NewerOverlapExists(p) THEN lost \cup {p} ELSE lost
         /\ \/ area = "unmapped" /\ UNCHANGED row
            \/ area # "unmapped" /\ NewerOverlapExists(p) /\ UNCHANGED row
            \/ /\ area # "unmapped" /\ ~NewerOverlapExists(p)
               /\ area = "elsewhere" \/ p \notin InArea \/ p \in past
               /\ row' = CancelOverlapping(p, {})
         /\ Handled(p, Head(nowQ).api)
  /\ nowQ' = Tail(nowQ)
  /\ UNCHANGED <<audio, past, api, issued, heard, refs, cycle, restarts, aired, unmarked, late, exposed>>

Speaks(p) == ~NewerOverlapExists(p) /\ p \in InArea /\ p \notin past

\* handle of a text that is on file: no rendering, hence no await.
Reaffirm ==
  /\ nowQ # <<>> /\ work = Idle
  /\ LET p == Head(nowQ).what
         i == IdOf[p]
     IN  /\ Speaks(p) /\ SameContent(p)
         /\ row' = [CancelOverlapping(p, {i}) EXCEPT ![i] = KeptRow(row[i])]
         /\ late' = [late EXCEPT ![i] = 0]
         /\ Handled(p, Head(nowQ).api)
  /\ nowQ' = Tail(nowQ)
  /\ UNCHANGED <<audio, past, api, issued, heard, refs, cycle, bounds, aired, unmarked, lost, exposed>>

\* handle of a new text, up to the await of the rendering.
BeginNow ==
  /\ nowQ # <<>> /\ work = Idle
  /\ LET p == Head(nowQ).what
     IN  /\ Speaks(p) /\ ~SameContent(p)
         /\ row' = CancelOverlapping(p, {IdOf[p]})
         /\ work' = [what |-> p, api |-> Head(nowQ).api, ready |-> FALSE]
  /\ nowQ' = Tail(nowQ)
  /\ UNCHANGED <<audio, past, api, issued, heard, seen, refs, cycle, bounds, told>>

\* render_segment_wav replaces the file under the insert that still runs.
RenderNow ==
  /\ work # Idle /\ ~work.ready
  /\ WriteAudio(IdOf[work.what], work.what)
  /\ work' = [work EXCEPT !.ready = TRUE]
  /\ UNCHANGED <<row, past, api, issued, heard, nowQ, seen, refs, cycle, bounds>>
  /\ UNCHANGED <<aired, unmarked, late, lost>>

\* Mutated form: an id is seen although its product failed.
FailNowSeen ==
  /\ work # Idle /\ Fails(TRUE)
  /\ Handled(work.what, work.api)
  /\ UNCHANGED <<rows, api, issued, heard, nowQ, refs, cycle, restarts, told>>

\* The rendering, or later the upsert, raises: not seen, so the API's copy
\* is tried again.
FailNow ==
  /\ work # Idle /\ Fails(TRUE)
  /\ work' = Idle
  /\ UNCHANGED <<rows, api, issued, heard, nowQ, seen, refs, cycle, restarts, told>>

\* handle from the rendered text on: whatever became of the row meanwhile,
\* it is active now.
PublishNow ==
  /\ work # Idle /\ work.ready
  /\ PutOnAir(row, IdOf[work.what], work.what)
  /\ Handled(work.what, work.api)
  /\ UNCHANGED <<audio, past, api, issued, heard, nowQ, refs, cycle, bounds, exposed>>
-------------------------------------------------------------------------------
(* The conductor: broadcast/conductor.py.                                  *)

DueNow(r, focus) == {i \in Ids : Due(i, row[i], r, focus, Over(i))}

\* _rebuild_cycle_order at the start of a rotation: list_due expires, then
\* lists what alert focus does not defer; the items are kept for the whole
\* rotation.
Rebuild(focus) ==
  /\ pending = {} /\ rotation < MaxRotations
  /\ rotation' = rotation + 1
  /\ row' = [i \in Ids |-> ExpireDue(row[i], Over(i))]
  /\ pending' = DueNow(rotation + 1, focus)
  /\ UNCHANGED <<audio, past, api, nows, bounds, told>>

\* _push_scheduled_insert of a kept item; how it goes:
\*   "pushed" and marked, "unmarked" when mark_aired raises, or "failed".
PushInsert(i, outcome) ==
  /\ i \in pending
  /\ pending' = pending \ {i}
  /\ audio[i] # NoItem
  /\ Fails(outcome # "pushed")
  /\ row' = IF outcome = "pushed" THEN [row EXCEPT ![i] = MarkAired(i, @, rotation)] ELSE row
  /\ UNCHANGED <<lost, exposed>>
  /\ IF outcome = "failed" THEN UNCHANGED <<aired, unmarked, late>>
     ELSE /\ aired' = [aired EXCEPT ![i] = IF i \in Endless THEN @ ELSE @ + 1]
          /\ unmarked' = [unmarked EXCEPT ![i] = IF outcome = "unmarked" THEN @ + 1 ELSE @]
          /\ late' = [late EXCEPT ![i] = IF row[i].status = "active" /\ ~Over(i) THEN @ ELSE @ + 1]
  /\ UNCHANGED <<audio, past, api, nows, rotation, restarts>>

\* ... when its file is gone by then.
SkipInsert(i) ==
  /\ i \in pending /\ audio[i] = NoItem
  /\ pending' = pending \ {i}
  /\ UNCHANGED <<rows, api, nows, rotation, bounds, told>>

\* notify_flush of a change of the active alerts: the rotation starts anew.
ResetRotation ==
  /\ pending # {}
  /\ pending' = {}
  /\ UNCHANGED <<rows, api, nows, rotation, bounds, told>>
-------------------------------------------------------------------------------
(* Time, the housekeeper and restarts.                                     *)

Expire(item) ==
  /\ item \notin past
  /\ item = "upload" => upload # NoUpload
  /\ item \in Items => item \in offered
  /\ item \in Products => item \in issued
  /\ past' = past \cup {item}
  /\ UNCHANGED <<row, audio, api, nows, cycle, bounds, told>>

\* _protected_audio_paths, of inserts.
Protected(i) == row[i].status = "active" /\ ~Over(i)

\* Of uploads: live rows protect the wav, a file of metadata does so while
\* the row of its upload is missing.
KeepsUpload == "upload" \notin past /\ (upload.row \/ upload.json)

\* _cleanup_generated_audio, when the files of aged are past the retention and
\* _protected_audio_paths did not get the rows of unread: a failed read is
\* logged, and the pass goes on with the paths it has.
CleanedAudio(aged, unread) ==
  [i \in Ids |-> IF i \in aged /\ (~Protected(i) \/ i \in unread) THEN NoItem ELSE audio[i]]

\* _prune_audio_assets and what is left in the directory: rows and files of
\* an expired upload go, and metadata in a file once a row has it.
PrunedUpload == IF KeepsUpload THEN [upload EXCEPT !.json = @ /\ ~upload.row] ELSE NoUpload

\* run_once: one pass, without an await.  Any files may have aged past the
\* retention, but the one in the worker's hands: it was just written.
Housekeep(aged, unread) ==
  /\ work # Idle /\ work.ready => IdOf[work.what] \notin aged
  /\ Fails(unread # {})
  /\ audio' = CleanedAudio(aged, unread)
  /\ exposed' = exposed \cup (aged \cap unread)
  /\ upload' = PrunedUpload
  /\ <<audio', upload'>> # <<audio, upload>>
  /\ UNCHANGED <<row, past, rendering, nows, cycle, restarts, aired, unmarked, late, lost>>

AgedAndProtected(aged) == {i \in aged : Protected(i)}

\* A crash or a stop, and the start of the next process: what SQLite and the
\* disk hold remains; the rotations are counted from zero.
Restart ==
  /\ restarts < MaxRestarts
  /\ restarts' = restarts + 1
  /\ rendering' = {} /\ nowQ' = <<>> /\ work' = Idle /\ seen' = {} /\ refs' = <<>>
  /\ rotation' = 0 /\ pending' = {}
  /\ UNCHANGED <<rows, upload, issued, heard, faults, offered, told>>
-------------------------------------------------------------------------------
Next ==
  \/ \E i \in Ops : \/ BeginTextInsert(i) \/ CreateAudioInsert(i)
                    \/ \E f \in BOOLEAN : FinishTextInsert(i, f)
  \/ \E f \in BOOLEAN : StageUpload(f) \/ PollNext(f)
  \/ \E i \in Ids : Cancel(i) \/ SkipInsert(i)
  \/ \E i \in Ids, o \in {"pushed", "unmarked", "failed"} : PushInsert(i, o)
  \/ \E p \in Products : Issue(p) \/ Deliver(p)
  \/ \E area \in {"mapped", "unmapped", "elsewhere"} : Refuse(area)
  \/ ListInserts \/ Poll \/ Reaffirm \/ BeginNow \/ RenderNow \/ FailNow \/ PublishNow
  \/ (\E focus \in BOOLEAN : Rebuild(focus)) \/ ResetRotation
  \/ \E item \in Items \cup {"upload"} : Expire(item)
  \/ \E aged \in SUBSET Ids : \E unread \in SUBSET AgedAndProtected(aged) : Housekeep(aged, unread)
  \/ Restart

Spec == Init /\ [][Next]_vars

\* The poll repeats and the worker ends what it takes; renderings and calls
\* that fail are bounded by the faults.
Fairness ==
  /\ WF_vars(Poll) /\ WF_vars(PollNext(FALSE))
  /\ WF_vars(Refuse("mapped")) /\ WF_vars(Reaffirm) /\ WF_vars(BeginNow)
  /\ WF_vars(RenderNow) /\ WF_vars(PublishNow)
FairSpec == Spec /\ Fairness
-------------------------------------------------------------------------------
(* Properties.                                                             *)

\* The rows, files, queues and histories have their types.
TypeOK ==
  /\ row \in [Ids -> Row] /\ audio \in [Ids -> Items \cup {NoItem}]
  /\ past \subseteq Items \cup {"upload"}
  /\ rendering \subseteq Ops /\ upload \in [wav : BOOLEAN, row : BOOLEAN, json : BOOLEAN]
  /\ issued \subseteq Products /\ heard \subseteq issued /\ seen \subseteq issued
  /\ nowQ \in Seq([what : Products, api : BOOLEAN]) /\ Len(nowQ) <= QueueMax
  /\ work \in [what : Products, api : BOOLEAN, ready : BOOLEAN] \cup {Idle}
  /\ refs \in Seq(Products)
  /\ rotation \in 0 .. MaxRotations /\ pending \subseteq Ids
  /\ faults \in 0 .. MaxFaults /\ restarts \in 0 .. MaxRestarts
  /\ aired \in [Ids -> Nat] /\ unmarked \in [Ids -> Nat] /\ late \in [Ids -> Nat]
  /\ lost \subseteq Products /\ exposed \subseteq Ids

\* An operator's insert is pushed max_airings times at most, but for pushes
\* that could not be marked: list_due counts at the start of a rotation,
\* mark_aired when the insert is pushed, and a rotation may start anew or the
\* process restart in between.
NeverOverAired ==
  \A i \in Ops : aired[i] <= MaxAirings[i] + unmarked[i]

\* An insert that was cancelled, replaced or expired is pushed once more at
\* most: by the rotation that listed it before.
EndedAirsOnceMore == \A i \in Ids : late[i] <= 1

\* What was asked of an insert bounds how often it is heard.
AirsAsAsked == NeverOverAired /\ EndedAirsOnceMore

\* No two NOW inserts on the air speak for the same zone, though each is made
\* of the rows before a rendering and written after it.
OneNowPerZone ==
  \A i, j \in Endless :
    /\ i # j /\ row[i].status = "active" /\ row[j].status = "active"
    => Zones[row[i].what] \cap Zones[row[j].what] = {}

\* What is to be played is there: the housekeeper deletes neither the audio of
\* an insert that may still air, one revived from an old row included, nor an
\* upload that may still be used, though the repository missed it.  A pass
\* that fails to read the rows deletes what has aged, and what it deleted is
\* missing until it is rendered again.
AudioKept ==
  /\ \A i \in Ids \ exposed : row[i].status = "active" /\ ~Over(i) => audio[i] # NoItem
  /\ upload # NoUpload /\ "upload" \notin past => upload.wav /\ (upload.row \/ upload.json)

\* A NOW product for the area gets on the air though NWWS-OI missed it and
\* renderings fail, unless it expires, a newer one for its zones is issued or
\* the lookup of its zones failed: the poll of the API finds it again.
NowGetsOnAir ==
  \A p \in InArea :
    p \in issued ~> \/ row[IdOf[p]].what = p
                   \/ p \in past \cup lost
                   \/ \E q \in issued : Issued[q] > Issued[p] /\ Zones[p] \cap Zones[q] # {}

\* backfill_recent_once says of the references: "processed newest first; the
\* normal stale-order and overlap checks then reject older superseded
\* siblings".  Hence no product gets on the air after a newer one for one of
\* its zones was processed.
SupersededStaysOff ==
  [][\A p, q \in Products :
       /\ Issued[q] > Issued[p] /\ Zones[p] \cap Zones[q] # {} /\ q \in seen
       /\ row'[IdOf[p]].what = p /\ row'[IdOf[p]].status = "active"
       => row[IdOf[p]].what = p /\ row[IdOf[p]].status = "active"]_vars

\* docs/STATE_MACHINE.md says of NOW products: they "become persistent
\* after_status cycle inserts and remain eligible during alert-focus mode".
\* Hence each rotation has every one that is active and unexpired.
NowInEveryRotation ==
  [][rotation' = rotation + 1 =>
       \A i \in Endless : row[i].status = "active" /\ ~Over(i) => i \in pending']_vars
===============================================================================
