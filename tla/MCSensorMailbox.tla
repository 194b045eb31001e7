-------------------------- MODULE MCSensorMailbox --------------------------
(* Two ports and two values of the settings: enough for a change from the  *)
(* WWW to another port, to the same port, and back to the old value.       *)
EXTENDS SensorMailbox

CONSTANTS low, high

MCVals == {low, high}
=============================================================================
