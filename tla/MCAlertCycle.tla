---------------------------- MODULE MCAlertCycle ----------------------------
(***************************************************************************)
(* Small feeds for checking AlertCycle: a warning that is continued and    *)
(* ended, in two sources, and its relay by another station.                *)
(***************************************************************************)
EXTENDS AlertCycle

Message(id, src, track, act, expires) ==
    [id |-> id, src |-> src, vtec |-> {[track |-> track, act |-> act, sig |-> "W"]},
     lead |-> track, name |-> id, func |-> "area1", mt |-> IF act = "NEW" THEN "alert" ELSE "update",
     grade |-> "event", toneout |-> TRUE, listed |-> TRUE, target |-> "mapped", ptype |-> "other",
     code |-> "TOR", locs |-> {"county1"}, expires |-> expires]

CapNew == Message("cap1", "CAP", "T1", "NEW", 2)
CapCon == Message("cap2", "CAP", "T1", "CON", 2)
CapEnd == Message("cap3", "CAP", "T1", "CAN", 2)
NwwsCon == [Message("nwws1", "NWWS", "T1", "CON", 2) EXCEPT !.code = "SVS"]
NwwsEnd == [Message("nwws2", "NWWS", "T1", "CAN", 2) EXCEPT !.code = "SVS"]

Relay ==
    [Message("ern1", "ERN", "T1", "NEW", 1) EXCEPT !.vtec = {}, !.func = "TOR county1"]

NoFeeds == [s \in Sources |-> <<>>]

(* A warning as long as it lives, and its relay. *)
OneWarning ==
    [NoFeeds EXCEPT !["CAP"] = <<CapNew, CapCon, CapEnd>>,
                    !["NWWS"] = <<NwwsEnd>>, !["ERN"] = <<Relay>>]

(* The continuation of the warning comes from the other source. *)
Continued ==
    [NoFeeds EXCEPT !["CAP"] = <<CapNew, CapEnd>>, !["NWWS"] = <<NwwsCon, NwwsEnd>>]

(* All are warnings: the source decides. *)
SourceRank ==
    [p \in {"TOR", "SVS"} \X Sources |->
        IF p[2] = "IPAWS" THEN 0 ELSE IF p[2] = "ERN" THEN 4 ELSE 1]
=============================================================================
