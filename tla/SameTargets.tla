----------------------------- MODULE SameTargets -----------------------------
(***************************************************************************)
(* For which places a product of the weather wire is: the zones of its UGC *)
(* block and the time it ends (same/ugc.py), the SAME codes of a zone, from *)
(* two crosswalk files, or from a service (same/targeting.py), and the     *)
(* codes that are in the service area (same/locations.py).                 *)
(*                                                                         *)
(* The runtimes that resolve products are tasks of one process; they share *)
(* the maps, the locks that load them and the cache.  The files outlive    *)
(* the process.  A SAME code is <<state, county>>, county 0 is the state,  *)
(* and the partition digit, which is 0 in all of them, is left out; a zone *)
(* is <<prefix, number>>.                                                  *)
(***************************************************************************)
EXTENDS Integers, Sequences, SequencesExt

CONSTANTS
  Callers,    \* tasks that resolve products
  Products,   \* UGC blocks: tokens [pfx, num, end], pfx "" if there is none
  Known,      \* the SAME codes of each zone
  Counties,   \* the zones that are counties of a known state
  Forecast,   \* the zones that the file of forecast zones has
  Torn,       \* ... when its download ended early, but parses
  Marine,     \* the zones that the file of marine areas has
  MarineSS,   \* MARINE_SAME_SS
  Area,       \* the SAME codes of the service area
  Days,       \* the number of days of the months, in order
  Backoff,    \* time a zone that could not be resolved is not tried again
  MaxReceipts,\* bound: products that are received
  MaxStarts   \* bound: starts of the process

Zones == DOMAIN Known

ASSUME TargetsAssumption ==
  /\ Counties \subseteq Zones /\ Torn \subseteq Forecast /\ Forecast \subseteq Zones /\ Marine \subseteq Zones
  /\ Backoff \in Nat /\ MaxReceipts \in Nat /\ MaxStarts \in Nat
  /\ "free" \notin Callers

VARIABLES
  dbx, mareas,  \* the files: "none", "good", "torn" or "junk"
  zonecounty,   \* _zonecounty_map: "unloaded", "empty", "good" or "torn"
  marine,       \* _mareas_map
  lock,         \* who holds _zonecounty_lock
  known,        \* _zone_cache_same: the zones that are in it
  failed,       \* time left until a zone is tried again (_zone_cache_fail)
  at,           \* where each caller is
  zones,        \* the zones it has still to resolve, the present one first
  got,          \* the codes it has got
  refused,      \* history: forecast zones that got no code in this process
  everGood,     \* history: a good crosswalk was in place, and none that is torn since
  unread,       \* history: the crosswalk could not be read in this process
  receipts, starts

mapVars == <<dbx, mareas, zonecounty, marine, lock>>
callerVars == <<at, zones, got>>
targetVars == <<mapVars, known, failed, callerVars, refused, everGood, unread, receipts, starts>>

TargetsInit ==
  /\ dbx \in {"none", "good", "torn"} /\ mareas \in {"none", "good"}
  /\ zonecounty = "unloaded" /\ marine = "unloaded" /\ lock = "free"
  /\ known = {} /\ failed = [z \in Zones |-> 0]
  /\ at = [c \in Callers |-> "idle"] /\ zones = [c \in Callers |-> <<>>] /\ got = [c \in Callers |-> {}]
  /\ refused = {} /\ everGood = (dbx = "good") /\ unread = FALSE
  /\ receipts = 0 /\ starts = 1
-------------------------------------------------------------------------------
(* Pure parts.                                                             *)

\* expand_ugc_tokens: a token without a prefix has that of the token before;
\* a range may run down.
Prefix(p, i) == LET own == {j \in 1 .. i : p[j].pfx # ""}
                IN  IF own = {} THEN "" ELSE p[CHOOSE j \in own : \A k \in own : k <= j].pfx
Numbers(t) == IF t.num <= t.end THEN [i \in 1 .. t.end - t.num + 1 |-> t.num + i - 1]
              ELSE [i \in 1 .. t.num - t.end + 1 |-> t.num - i + 1]
Expand(p) ==
  LET Of(i) == IF Prefix(p, i) = "" THEN <<>>
               ELSE [j \in DOMAIN Numbers(p[i]) |-> <<Prefix(p, i), Numbers(p[i])[j]>>]
      Once(q) == FoldLeft(LAMBDA s, z : IF z \in Range(s) THEN s ELSE Append(s, z), <<>>, q)
  IN  Once(FlattenSeq([i \in DOMAIN p |-> Of(i)]))

\* A day, counted from the first of the first month.
DayNo(m, d) == FoldLeftDomain(LAMBDA n, i : IF i < m THEN n + Days[i] ELSE n, d, Days)
MonthOf(n) == CHOOSE m \in DOMAIN Days : DayNo(m, 1) <= n /\ n < DayNo(m, 1) + Days[m]

\* The months follow one another, and none is shorter than four weeks.
ASSUME DaysAssumption ==
  /\ Days \in Seq(28 .. 31)
  /\ \A m \in DOMAIN Days :
       /\ DayNo(m, 1) \in Nat
       /\ \A d \in 1 .. Days[m] : DayNo(m, d) = DayNo(m, 1) + d - 1
       /\ \A n \in DOMAIN Days : m < n => DayNo(m, 1) + Days[m] <= DayNo(n, 1)
       /\ m + 1 \in DOMAIN Days => DayNo(m + 1, 1) = DayNo(m, 1) + Days[m]

\* resolve_ugc_expires: of this month, the next and the last, the one in which
\* the day d is closest.
Resolve(d, ref) ==
  LET months == {MonthOf(ref), MonthOf(ref) + 1, MonthOf(ref) - 1} \cap DOMAIN Days
      dates == {DayNo(m, d) : m \in {n \in months : d <= Days[n]}}
      Apart(x) == IF x < ref THEN ref - x ELSE x - ref
  IN  CHOOSE x \in dates : \A y \in dates : Apart(x) <= Apart(y)

\* same_location_matches_service_area: the code itself, or its state if a
\* county of it is in the area.  (0, 0) is the nation.
Statewide(s) == s[2] = 0 /\ s[1] # 0 /\ s[1] \notin MarineSS
InArea(s) ==
  /\ s # <<0, 0>>
  /\ \/ s \in Area
     \/ Statewide(s) /\ \E a \in Area : a[1] = s[1] /\ a[2] # 0
-------------------------------------------------------------------------------
(* The crosswalks.                                                         *)

Zone(c) == Head(zones[c])

\* Mutated form: what was downloaded is put in place, then parsed.
TryFetchInPlace(answer) == dbx' = IF answer = "fails" THEN dbx ELSE answer

\* The forecast zones of a file, or of the map that was read from it.
ZonesOf(file) == CASE file = "good" -> Forecast [] file = "torn" -> Torn [] OTHER -> {}

\* _try_fetch: a file is put in place if a zone could be parsed from it.
TryFetch(answer) == dbx' = IF answer \in {"good", "torn"} THEN answer ELSE dbx

\* Under the lock: the file is read if it is fresh, otherwise a newer one is
\* looked for, and the old one is the last resort.
LoadZonecounty(c) ==
  /\ at[c] = "zonecounty" /\ lock = c
  /\ \/ dbx # "none" /\ UNCHANGED dbx
     \/ \E answer \in {"good", "torn", "junk", "fails"} : TryFetch(answer)
  /\ \E readable \in BOOLEAN :
       /\ zonecounty' = IF dbx' \in {"good", "torn"} /\ readable THEN dbx' ELSE "empty"
       /\ unread' = ~readable
  /\ everGood' = (dbx' = "good" \/ (everGood /\ dbx' # "torn"))
  /\ lock' = "free"
  /\ UNCHANGED <<mareas, marine, known, failed, callerVars, refused, receipts, starts>>

\* The lock is taken by one; who waited for it finds the map loaded.
LockZonecounty(c) ==
  /\ at[c] = "zonecounty" /\ zonecounty = "unloaded" /\ lock = "free"
  /\ lock' = c
  /\ UNCHANGED <<dbx, mareas, zonecounty, marine, known, failed, callerVars, refused, everGood, unread, receipts, starts>>

\* _ensure_mareas_loaded: a download takes the place of the file as it is.
LoadMareas(c) ==
  /\ at[c] = "mareas" /\ marine = "unloaded"
  /\ \E answer \in {"good", "junk", "fails"} : mareas' = IF answer = "fails" THEN mareas ELSE answer
  /\ marine' = IF mareas' = "good" THEN "good" ELSE "empty"
  /\ UNCHANGED <<dbx, zonecounty, lock, known, failed, callerVars, refused, everGood, unread, receipts, starts>>
-------------------------------------------------------------------------------
(* _ugc_zone_to_same.                                                      *)

GoTo(c, place) == at' = [at EXCEPT ![c] = place] /\ UNCHANGED <<zones, got>>

\* The zone is done, with its codes or none.
Done(c, codes) ==
  /\ zones' = [zones EXCEPT ![c] = Tail(@)]
  /\ got' = [got EXCEPT ![c] = @ \cup codes]
  /\ at' = [at EXCEPT ![c] = "next"]

\* A zone that was found is kept.
Found(c) == Done(c, Known[Zone(c)]) /\ known' = known \cup {Zone(c)}

NotFound(c) == Done(c, {}) /\ refused' = IF Zone(c) \in Forecast THEN refused \cup {Zone(c)} ELSE refused

Lookup(c) ==
  /\ at[c] = "next" /\ zones[c] # <<>>
  /\ \/ Zone(c) \in known \cup Counties /\ Found(c) /\ UNCHANGED refused
     \/ /\ Zone(c) \notin known /\ failed[Zone(c)] > 0
        /\ NotFound(c) /\ UNCHANGED known
     \/ /\ Zone(c) \notin known \cup Counties /\ failed[Zone(c)] = 0
        /\ GoTo(c, "zonecounty") /\ UNCHANGED <<known, refused>>
  /\ UNCHANGED <<mapVars, failed, everGood, unread, receipts, starts>>

\* A map is consulted, and the next means if it does not have the zone.
Consult(c) ==
  /\ \/ /\ at[c] = "zonecounty" /\ zonecounty # "unloaded"
        /\ IF Zone(c) \in ZonesOf(zonecounty) THEN Found(c) ELSE GoTo(c, "mareas") /\ UNCHANGED known
     \/ /\ at[c] = "mareas" /\ marine # "unloaded"
        /\ IF marine = "good" /\ Zone(c) \in Marine THEN Found(c) ELSE GoTo(c, "service") /\ UNCHANGED known
  /\ UNCHANGED <<mapVars, failed, refused, everGood, unread, receipts, starts>>

\* The service answers, or the zone is left alone for a while.
AskService(c) ==
  /\ at[c] = "service"
  /\ \/ Found(c) /\ UNCHANGED <<failed, refused>>
     \/ /\ Zone(c) \notin known
        /\ NotFound(c) /\ failed' = [failed EXCEPT ![Zone(c)] = Backoff]
        /\ UNCHANGED known
  /\ UNCHANGED <<mapVars, everGood, unread, receipts, starts>>

\* _nwws_same_targets_from_texts: the product's zones, one after the other ...
Receive(c) ==
  /\ at[c] = "idle" /\ receipts < MaxReceipts
  /\ \E p \in Products : zones' = [zones EXCEPT ![c] = Expand(p)]
  /\ at' = [at EXCEPT ![c] = "next"] /\ got' = [got EXCEPT ![c] = {}]
  /\ receipts' = receipts + 1
  /\ UNCHANGED <<mapVars, known, failed, refused, everGood, unread, starts>>

\* ... and those of their codes that are in the area.
Targets(c) ==
  /\ at[c] = "next" /\ zones[c] = <<>>
  /\ at' = [at EXCEPT ![c] = "idle"]
  /\ got' = [got EXCEPT ![c] = {s \in @ : InArea(s)}]
  /\ UNCHANGED <<mapVars, known, failed, zones, refused, everGood, unread, receipts, starts>>

TargetsTick ==
  /\ \E z \in Zones : failed[z] > 0
  /\ failed' = [z \in Zones |-> IF failed[z] = 0 THEN 0 ELSE failed[z] - 1]
  /\ UNCHANGED <<mapVars, known, callerVars, refused, everGood, unread, receipts, starts>>

\* A new process has the files.
TargetsRestart ==
  /\ starts < MaxStarts /\ starts' = starts + 1
  /\ zonecounty' = "unloaded" /\ marine' = "unloaded" /\ lock' = "free"
  /\ known' = {} /\ failed' = [z \in Zones |-> 0]
  /\ at' = [c \in Callers |-> "idle"] /\ zones' = [c \in Callers |-> <<>>] /\ got' = [c \in Callers |-> {}]
  /\ refused' = {} /\ unread' = FALSE
  /\ UNCHANGED <<dbx, mareas, everGood, receipts>>

TargetsNext ==
  \/ \E c \in Callers :
       \/ Receive(c) \/ Lookup(c) \/ LockZonecounty(c) \/ LoadZonecounty(c)
       \/ LoadMareas(c) \/ Consult(c) \/ AskService(c) \/ Targets(c)
  \/ TargetsTick \/ TargetsRestart

TargetsSpec == TargetsInit /\ [][TargetsNext]_targetVars
-------------------------------------------------------------------------------
(* Properties                                                              *)

\* A good crosswalk is lost to no failed refresh but one whose file is torn and
\* parses; as long as the file can be read no product for a forecast zone of it
\* is dropped, whoever loads the map and whoever waits.
CrosswalkServes ==
  /\ everGood => dbx = "good"
  /\ unread \/ refused \cap ZonesOf(dbx) = {}

\* An expiry within a fortnight is found, over the ends of months and years.
ExpiryResolved ==
  \A m \in 2 .. Len(Days) - 1 : \A d \in {1, 2, 14, 15, 27, Days[m]} \cap 1 .. Days[m] :
    LET ref == DayNo(m, d)
    IN  \A e \in ref - 13 .. ref + 13 : Resolve(e - DayNo(MonthOf(e), 1) + 1, ref) = e

TargetsHold == CrosswalkServes /\ ExpiryResolved
===============================================================================
