---------------------------- MODULE RelayStates ----------------------------
(***************************************************************************)
(* The state of one output as relay_states.c keeps it: what was reported,  *)
(* what was requested last, and the last duty of a PWM output.  All of it  *)
(* belongs to the WiFi task.                                               *)
(***************************************************************************)
EXTENDS Naturals

CONSTANTS Percents,   \* duties a PWM output can be asked for
          Unknown     \* what has not been reported or requested

OnOff == {"on", "off"}

RelayState == [on : OnOff \cup {Unknown},           \* valid, on
               requested : OnOff \cup {Unknown},    \* request_valid, requested_on
               pwm : Percents \cup {Unknown}]       \* pwm_valid, pwm_percent

Unreported == [on |-> Unknown, requested |-> Unknown, pwm |-> Unknown]

(* RELAY_GetDisplayState.                                                  *)
DisplayState(r) == IF r.requested # Unknown THEN r.requested ELSE r.on

RequestToggle(r) ==
  [r EXCEPT !.requested = IF DisplayState(r) = "on" THEN "off" ELSE "on"]

RequestPwm(r, percent) ==
  [r EXCEPT !.pwm = percent,
            !.requested = IF percent > 0 THEN "on" ELSE "off"]

UpdateState(r, report) ==
  IF report = Unknown THEN r ELSE [r EXCEPT !.on = report]

(* n presses of the button: the report first, then one request each.       *)
Pressed(r, report, n) ==
  LET after[i \in 0..n] == IF i = 0 THEN UpdateState(r, report)
                           ELSE RequestToggle(after[i - 1])
  IN after[n]

(* What the panel of the LCD writes on the tile of the output.             *)
ShownState(r, report) ==
  IF DisplayState(r) # Unknown THEN DisplayState(r) ELSE report
=============================================================================
