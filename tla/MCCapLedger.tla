---------------------------- MODULE MCCapLedger ----------------------------
(* A few alerts and one or two sources for checking CapLedger. *)
EXTENDS CapLedger, TLC

CONSTANTS nws, ipaws, a1, a2, a3

OneSource == {nws}
TwoSources == {nws, ipaws}

OneAlert == {a1}
TwoAlerts == {a1, a2}

AlertSymmetry == Permutations(Alerts)
=============================================================================
