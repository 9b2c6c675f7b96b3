------------------------------- MODULE AirKeys -------------------------------
(***************************************************************************)
(* How an alert message is routed to the air, and which dedupe keys its    *)
(* airing reserves: the pure decisions of the four source runtimes         *)
(* (broadcast/cap_runtime.py, nwws_runtime.py, ipaws_runtime.py and        *)
(* ern_relay_runtime.py) and of the policies they call (cap_policy.py,     *)
(* alerts/vtec.py).                                                        *)
(*                                                                         *)
(* A message is a record; the text, areas and times it carries are         *)
(* reduced to what these decisions tell apart:                             *)
(*   id       identity of the message (alert id and sent time, text hash)  *)
(*   src      the runtime that consumes it                                 *)
(*   vtec     set of [track, act, sig]: its VTEC strings.  One raw string  *)
(*            per track and action: the times are left out                 *)
(*   func     event code with in-area SAME codes, or NoFunc if there are   *)
(*            no in-area codes                                             *)
(*   mt       CAP message type: "alert", "update", "cancel"                *)
(*   grade    why configuration ranks it for a full tone-out: its event is *)
(*            listed ("event"), its severity is ("severity"), or "none"    *)
(*   toneout  NWWS product type or VTEC code is a configured tone-out type *)
(*   listed   its event is in the configured voice list                    *)
(*   target   NWWS targeting: its UGC zones are "mapped" into the area,    *)
(*            "outside" it, "unmapped", or there are "none"                *)
(*   ptype    NWWS product type: "WCN", "MWS" or "other"                   *)
(***************************************************************************)
EXTENDS Integers, FiniteSets

CONSTANT NoFunc    \* no in-area SAME location: no functional key

Sources == {"CAP", "NWWS", "IPAWS", "ERN"}

Routes == {"full", "update", "voice", "skip"}

-----------------------------------------------------------------------------
(* VTEC tone-out policy.  Abstracted: phenomena without a SAME code, or    *)
(* listed voice-only, are given here as entries with another significance. *)

FullActions == {"NEW", "UPG", "EXA", "EXB"}

SameEligible(v) == v.sig \in {"W", "A"}

ToneoutFull(vtec) == \E v \in vtec : SameEligible(v) /\ v.act \in FullActions

VtecTracks(vtec) == {<<v.track, v.act>> : v \in vtec}

VtecActions(vtec) == {v.act : v \in vtec}

-----------------------------------------------------------------------------
(* Routing.  All CAP messages here are of status "actual".                 *)

CapShouldFull(m) ==
    /\ m.mt = "update" => ToneoutFull(m.vtec)
    /\ m.grade \in {"event", "severity"}

CapShouldUpdate(m) ==
    /\ m.mt \in {"update", "cancel"}
    /\ m.grade = "event" \/ m.toneout
    /\ VtecActions(m.vtec) \cap {"CON", "EXT", "CAN", "EXP"} # {}

CapRoute(m) ==
    IF m.mt = "cancel" /\ m.vtec = {} THEN "skip"
    ELSE IF CapShouldFull(m) THEN "full"
    ELSE IF CapShouldUpdate(m) THEN "update"
    ELSE IF m.listed THEN "voice" ELSE "skip"

(* The watch carried by a WCN product, which has no SAME code of its own. *)
WcnWatch(m) == m.ptype = "WCN" /\ \E v \in m.vtec : v.sig = "A"

NwwsShouldFull(m) ==
    /\ ToneoutFull(m.vtec)
    /\ m.target # "unmapped"
    /\ ~(WcnWatch(m) /\ m.target = "none")

NwwsRoute(m) ==
    IF m.target = "outside" \/ (~m.toneout /\ m.ptype # "MWS") THEN "skip"
    ELSE IF NwwsShouldFull(m) THEN "full" ELSE "voice"

IpawsRoute(m) ==
    IF m.mt = "cancel" THEN "skip"
    ELSE IF m.grade = "event" THEN "full"
    ELSE IF m.listed THEN "voice" ELSE "skip"

ErnRoute(m) == IF m.listed /\ m.func # NoFunc THEN "full" ELSE "skip"

Route(m) ==
    IF m.src = "CAP" THEN CapRoute(m)
    ELSE IF m.src = "NWWS" THEN NwwsRoute(m)
    ELSE IF m.src = "IPAWS" THEN IpawsRoute(m) ELSE ErnRoute(m)

IsFull(m) == Route(m) = "full"

-----------------------------------------------------------------------------
(* Dedupe keys: tagged tuples in place of the strings the code builds.     *)

(* Mutated form: one key for the whole track. *)
TrackKeysAnyAction(tag, m) == {<<tag, v.track>> : v \in m.vtec}

TrackKeys(tag, m) == {<<tag, t[1], t[2]>> : t \in VtecTracks(m.vtec)}

(* Mutated form: a functional key for each source. *)
FuncKeysBySource(m) == IF m.func = NoFunc THEN {} ELSE {<<"FUNC_FULL", m.src, m.func>>}

FuncKeys(m) == IF m.func = NoFunc THEN {} ELSE {<<"FUNC_FULL", m.func>>}

CapFullKeys(m) ==
    TrackKeys("TRACKFULL", m) \cup TrackKeys("VTEC", m)
        \cup (IF m.vtec = {} THEN FuncKeys(m) ELSE {})
        \cup {<<"CAPFULL", m.id>>}

CapVoiceKeys(m) ==
    {<<"TRACKVOICE", v.track>> : v \in m.vtec} \cup {<<"CAPVOICE", m.id>>}

(* Mutated form: updates use the keys of voice events. *)
CapUpdateKeysNoAction(m) ==
    {<<"TRACKVOICE", v.track>> : v \in m.vtec} \cup {<<"CAPUPDATE", m.id>>}

CapUpdateKeys(m) == TrackKeys("TRACKVOICE", m) \cup {<<"CAPUPDATE", m.id>>}

CapKeys(m) ==
    IF IsFull(m) THEN CapFullKeys(m)
    ELSE IF Route(m) = "update" THEN CapUpdateKeys(m) ELSE CapVoiceKeys(m)

NwwsKeys(m) ==
    TrackKeys(IF IsFull(m) THEN "TRACKFULL" ELSE "TRACKVOICE", m)
        \cup TrackKeys("VTEC", m)
        \cup (IF IsFull(m) /\ m.vtec = {} THEN FuncKeys(m) ELSE {})
        \cup {<<"NWWS", m.id, Route(m)>>}

IpawsKeys(m) ==
    FuncKeys(m) \cup {<<IF IsFull(m) THEN "IPAWSFULL" ELSE "IPAWSVOICE", m.id>>}

ErnKeys(m) == FuncKeys(m) \cup {<<"ERNRELAY", m.id>>}

Keys(m) ==
    IF m.src = "CAP" THEN CapKeys(m)
    ELSE IF m.src = "NWWS" THEN NwwsKeys(m)
    ELSE IF m.src = "IPAWS" THEN IpawsKeys(m) ELSE ErnKeys(m)

-----------------------------------------------------------------------------
(* What a listener hears as one alert: a lifecycle action of a VTEC track, *)
(* or an event for an area when there is no VTEC.                          *)
Actions(m) ==
    IF m.vtec # {} THEN {<<"action", v.track, v.act>> : v \in m.vtec}
    ELSE IF m.func # NoFunc THEN {<<"event", m.func>>} ELSE {<<"message", m.src, m.id>>}

SameAlert(m, n) == Actions(m) \cap Actions(n) # {}
=============================================================================
