----------------------------- MODULE MCLcdForms -----------------------------
(* One port that runs as PWM output or as timer, with a page of values for *)
(* the PWM mode only.                                                      *)
EXTENDS LcdForms

MCPorts == {"port21"}
MCVals == 0..1
MCModes == {"pwm", "timer"}
MCDuties == 0..1
MCRouted == {<<"port21", "pwm">>}
MCBootCells == [page : {[f \in Fields |-> 0]}, mode : {"pwm"}, duty : {0}]
=============================================================================
