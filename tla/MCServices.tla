------------------------------ MODULE MCServices ------------------------------
(***************************************************************************)
(* Two wires that carry alerts and one source of forecasts; a feed of two  *)
(* tracks of the weather service, a relay and a message of our own, with   *)
(* room for one or two of them.                                            *)
(***************************************************************************)
EXTENDS Services

MCRole == [s \in Sources |-> CASE s = "nwws_oi" -> "alert_redundant"
                               [] s = "cap_api" -> "alert"
                               [] OTHER -> "forecast"]
MCStaleAfter == [s \in Sources |-> IF s = "cap_api" THEN 1 ELSE 2]
MCThreshold == [s \in Sources |-> IF s = "cap_api" THEN 2 ELSE 1]

Aired(by, ids, first, lasts, dated) ==
  [by |-> by, ids |-> ids, first |-> first, ends |-> FALSE, lasts |-> lasts, dated |-> dated]

MCNotes == {Aired("office", {"t1", "t2"}, "t2", 2, TRUE), Aired("relay", {"r"}, "r", 1, FALSE),
            Aired("local", {"m"}, "m", 1, TRUE),
            [Aired("office", {"t1", "t2"}, "t1", 1, TRUE) EXCEPT !.ends = TRUE]}
===============================================================================
