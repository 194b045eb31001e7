-------------------------- MODULE MCConfigStorage --------------------------
(* The three adapters with the faults under which each keeps its promises. *)
(* Two entries suffice for a write to leave another entry alone, two       *)
(* values for an old and a new one.                                        *)
EXTENDS ConfigStorage

MCKeys == {"portA", "portB"}
MCVals == 0..1

All == {"settings", "sensor", "lpc"}
Sensor == {"sensor"}

(* Everything can happen to the settings.  The sensor files are not read   *)
(* back, so a silent bad write is left out (sensor_badwrite shows it); the *)
(* LPC files are not inspected again either, so neither file may change    *)
(* behind the adapter's back.                                              *)
SurvivableFaults ==
  [a \in All |->
     CASE a = "settings" -> FaultKinds
       [] a = "sensor" -> FaultKinds \ {"badWrite"}
       [] a = "lpc" -> FaultKinds \ {"badWrite", "late", "damage"}]

(* Faults under which RAM and card are promised to agree: every failure    *)
(* that is reported before it takes effect.  The sensor model also saves   *)
(* after a load that failed, so its load has to go through.                *)
ReportedFaults ==
  [a \in All |->
     CASE a = "settings" -> FaultKinds \ {"late", "loadGlitch", "damage"}
       [] a = "sensor" -> {"saveGlitch", "write", "dir", "crash"}
       [] a = "lpc" -> FaultKinds \ {"badWrite", "late", "loadGlitch", "damage"}]

(* One write that the card acknowledges and stores otherwise.              *)
BadWrites == [a \in Sensor |-> {"badWrite"}]
=============================================================================
