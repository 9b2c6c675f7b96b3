--------------------------- MODULE MCAlertAiring ---------------------------
(***************************************************************************)
(* Small sets of messages for checking AlertAiring.  The track T1 is a     *)
(* warning and W1 a watch; area1 and area2 stand for an event code         *)
(* with its in-area SAME codes.                                            *)
(***************************************************************************)
EXTENDS AlertAiring

Warn(act) == [track |-> "T1", act |-> act, sig |-> "W"]

Watch(act) == [track |-> "W1", act |-> act, sig |-> "A"]

Message(id, src, vtec) ==
    [id |-> id, src |-> src, vtec |-> vtec, func |-> "area1", mt |-> "alert",
     grade |-> "none", toneout |-> TRUE, listed |-> FALSE,
     target |-> "mapped", ptype |-> "other"]

CapNew == [Message("cap1", "CAP", {Warn("NEW")}) EXCEPT !.grade = "severity"]
CapCon == [Message("cap2", "CAP", {Warn("CON")}) EXCEPT !.mt = "update"]
CapWatch == [Message("cap4", "CAP", {Watch("NEW")}) EXCEPT !.grade = "severity"]
NwwsNew == Message("nwws1", "NWWS", {Warn("NEW")})
NwwsCon == Message("nwws2", "NWWS", {Warn("CON")})
NwwsPartialCancel == Message("nwws3", "NWWS", {Warn("CON"), Warn("CAN")})
NwwsWatch == [Message("nwws4", "NWWS", {Watch("NEW")}) EXCEPT
                 !.ptype = "WCN", !.target = "none", !.func = NoFunc]
NwwsMarine == [Message("nwws6", "NWWS", {Warn("CON")}) EXCEPT !.ptype = "MWS", !.toneout = FALSE]
IpawsFull == [Message("ipaws1", "IPAWS", {}) EXCEPT !.grade = "event"]
ErnRelay == [Message("ern1", "ERN", {}) EXCEPT !.listed = TRUE]
ErnSecond == [Message("ern2", "ERN", {}) EXCEPT !.listed = TRUE, !.func = "area2"]

(* A new warning from CAP, its marine continuation from NWWS-OI, a civil   *)
(* alert from IPAWS and ERN, and a relay that comes within the cooldown.   *)
TwoFeeds == {CapNew, NwwsMarine, IpawsFull, ErnRelay, ErnSecond}
Lifecycle == {CapNew, CapCon, NwwsNew, NwwsCon}

(* Sets for the disagreements between the code and what it says.           *)
WatchWithoutTargets == {CapWatch, NwwsWatch}
PartialCancel == {NwwsCon, NwwsPartialCancel}

OneTick == [s \in Sources |-> 1]
=============================================================================
