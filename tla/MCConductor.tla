---------------------------- MODULE MCConductor ----------------------------
(* Short rotations for checking Conductor. *)
EXTENDS Conductor

ShortRotation == <<"id", "time", "obs">>

TwoSegments == <<"id", "time">>

ShortAlerts == {1, 2}
=============================================================================
