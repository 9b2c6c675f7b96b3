---------------------------- MODULE AlertTracker ----------------------------
(***************************************************************************)
(* The registry of active alerts (AlertTracker in alerts/active.py) and    *)
(* what the source runtimes do to it once a message was aired or a cancel  *)
(* was received.                                                           *)
(*                                                                         *)
(* A registry is a function from slots to entries; a slot is the tag of    *)
(* its source with a VTEC track or a message id.  A runtime changes the    *)
(* registry without an await, so its whole effect is one operator from a   *)
(* registry to the registries that may come out of it.                     *)
(*                                                                         *)
(* Besides what AirKeys looks at, a message has                            *)
(*   lead     the track of its first VTEC string                           *)
(*   name     what its slot is named after if it has no VTEC: its identi-  *)
(*            fier, the AWIPS id of a product, the header of a relay       *)
(*   code     the event code the runtime registers it under: the SAME      *)
(*            code, or for NWWS-OI voice products the product type         *)
(*   locs     its in-area SAME locations                                   *)
(*   expires  when the alert it speaks of ends                             *)
(* Left out of an entry: the airing times and counts, the headline and the *)
(* audio path, on which nothing here depends.                              *)
(***************************************************************************)
EXTENDS AirKeys, Functions

Tracks(m) == {v.track : v \in m.vtec}

(* The slots of a message that carries VTEC, and of one that does not. *)
TrackSlot(src, t) == <<src, "track", t>>

MessageSlot(m) == <<m.src, "message", m.name>>

CapSlot(m) == IF m.vtec = {} THEN MessageSlot(m) ELSE TrackSlot("CAP", m.lead)

(* The slot NWWS-OI uses when one of the tracks ts is picked from a set. *)
NwwsSlots(m, ts) == IF ts = {} THEN {MessageSlot(m)} ELSE {TrackSlot("NWWS", t) : t \in ts}

(* `made` tells one ActiveAlert object from another. *)
Entry(m) ==
    [src |-> m.src, tracks |-> Tracks(m), code |-> m.code, locs |-> m.locs,
     expires |-> m.expires, script |-> m.id, made |-> m.id]

-----------------------------------------------------------------------------
(* AlertTracker *)

Without(reg, slots) == Restrict(reg, DOMAIN reg \ slots)

(* _remove_shadowed_ern_relays_for: the ERN relays e covers. *)
Shadowed(reg, e) ==
    {i \in DOMAIN reg : /\ e.src # "ERN" /\ e.locs # {}
                        /\ reg[i].src = "ERN" /\ reg[i].code = e.code
                        /\ reg[i].locs # {} /\ reg[i].locs \subseteq e.locs}

AddOrUpdate(reg, slot, e) ==
    LET rest == Without(reg, Shadowed(reg, e))
    IN  [i \in DOMAIN rest \cup {slot} |-> IF i = slot THEN e ELSE rest[i]]

UpdateScript(reg, slot, script) == [reg EXCEPT ![slot].script = script]

(* remove_matching_source: one area is within the other, or unknown. *)
RemoveMatching(reg, src, code, locs) ==
    Without(reg, {i \in DOMAIN reg : /\ reg[i].src = src /\ reg[i].code = code
                                     /\ \/ locs = {} \/ reg[i].locs = {}
                                        \/ reg[i].locs \subseteq locs
                                        \/ locs \subseteq reg[i].locs})

OfTracks(reg, ts) == {i \in DOMAIN reg : reg[i].tracks \cap ts # {}}

Unexpired(reg, now) == Restrict(reg, {i \in DOMAIN reg : now < reg[i].expires})

-----------------------------------------------------------------------------
(* The runtimes *)

RemoveShadowedErn(reg, m) == RemoveMatching(reg, "ERN", m.code, m.locs)

RemoveIpaws(reg, m) == RemoveMatching(reg, "IPAWS", m.code, m.locs)

Ends(m) == VtecActions(m.vtec) \cap {"CAN", "EXP"} # {}

ActTracks(m, acts) == {v.track : v \in {w \in m.vtec : w.act \in acts}}

CancelTracks(m) == ActTracks(m, {"CAN", "EXP"})

ContinuationTracks(m) == ActTracks(m, {"CON", "EXT", "COR", "ROU"})

Register(reg, slot, m) == RemoveShadowedErn(AddOrUpdate(reg, slot, Entry(m)), m)

(* air_full and air_voice of the CAP runtime. *)
CapRegisters(reg, m) == {Register(reg, CapSlot(m), m)}

(* An update that ends something: the message's own slot goes, and only if *)
(* there is none, every slot of its tracks.                                *)
CapEnds(reg, m) ==
    LET gone == IF CapSlot(m) \in DOMAIN reg THEN {CapSlot(m)} ELSE OfTracks(reg, Tracks(m))
    IN  {RemoveShadowedErn(RemoveIpaws(Without(reg, gone), m), m)}

(* Another update gives a new script to one slot of the track (the first   *)
(* in the order of the dictionary, here any), or to the message's own.     *)
CapContinues(reg, m) ==
    LET named == OfTracks(reg, {m.lead})
        slots == IF named # {} THEN named ELSE {CapSlot(m)} \cap DOMAIN reg
    IN  IF slots = {} THEN {reg} ELSE {UpdateScript(reg, i, m.id) : i \in slots}

(* A cancel that has no VTEC is not aired.  It names its own identifier,   *)
(* not the one of the message it cancels.                                  *)
CapCancels(reg, m) ==
    {RemoveShadowedErn(RemoveIpaws(Without(reg, {MessageSlot(m)}), m), m)}

CapResults(reg, m) ==
    IF m.mt = "cancel" /\ m.vtec = {} THEN CapCancels(reg, m)
    ELSE IF Route(m) # "update" THEN CapRegisters(reg, m)
    ELSE IF Ends(m) THEN CapEnds(reg, m) ELSE CapContinues(reg, m)

(* A voice product that ends some tracks and may continue others. *)
NwwsEnds(reg, m) ==
    LET ended == OfTracks(reg, CancelTracks(m))
        left == RemoveShadowedErn(RemoveIpaws(Without(reg, ended), m), m)
    IN  IF ContinuationTracks(m) = {} THEN {left}
        ELSE {Register(left, slot, m) : slot \in NwwsSlots(m, ContinuationTracks(m))}

NwwsResults(reg, m) ==
    IF Ends(m) /\ ~IsFull(m) THEN NwwsEnds(reg, m)
    ELSE {Register(reg, slot, m) : slot \in NwwsSlots(m, Tracks(m))}

IpawsResults(reg, m) ==
    IF m.mt = "cancel" THEN {RemoveIpaws(Without(reg, {MessageSlot(m)}), m)}
    ELSE {Register(reg, MessageSlot(m), m)}

ErnResults(reg, m) == {AddOrUpdate(reg, MessageSlot(m), Entry(m))}

(* The registries the runtime of m may leave. *)
Results(reg, m) ==
    IF m.src = "CAP" THEN CapResults(reg, m)
    ELSE IF m.src = "NWWS" THEN NwwsResults(reg, m)
    ELSE IF m.src = "IPAWS" THEN IpawsResults(reg, m) ELSE ErnResults(reg, m)

=============================================================================
