---------------------------- MODULE MCCycleInserts ----------------------------
(***************************************************************************)
(* An announcement, once; an uploaded file, twice in every second          *)
(* rotation; and three NOW products: for one zone, for two (in the area,   *)
(* never delivered by NWWS-OI), and for the other zone.                    *)
(***************************************************************************)
EXTENDS CycleInserts, TLC

CONSTANTS text1, file1, now1, now12, now2, p1, p2, p3, z1, z2

MCOps == {text1, file1}
MCProducts == {p1, p2, p3}
MCOffers == {{text1}, {file1}, {p1, p2}, {p2, p3}}
MCIds == MCOps \cup {now1, now12, now2}
MCItems == MCOps \cup MCProducts
MCMaxAirings == [i \in MCIds |-> IF i = file1 THEN 2 ELSE 1]
MCEvery == [i \in MCIds |-> IF i = text1 THEN 0 ELSE IF i = file1 THEN 2 ELSE 1]
MCIdOf == p1 :> now1 @@ p2 :> now12 @@ p3 :> now2
MCZones == p1 :> {z1} @@ p2 :> {z1, z2} @@ p3 :> {z2}
MCIssued == p1 :> 1 @@ p2 :> 2 @@ p3 :> 3
===============================================================================
