---------------------------- MODULE MCLcdPanels ----------------------------
(* Port a is an output with a button or a slider, by its mode; port b has  *)
(* a mode only, so that a batch of modes has two cells; one name.          *)
EXTENDS LcdPanels

MCCells == {<<"mode", "a">>, <<"mode", "b">>, <<"name", "a">>}
MCValsOf == [mode |-> {"relay", "pwm", "disabled"}, name |-> {"none", "old"}]
MCBoot == {[c \in MCCells |-> IF c[1] = "name" THEN "old" ELSE "relay"]}
MCOutputs == {"a"}
MCReport == [o \in MCOutputs |-> "on"]
MCPercents == {0, 50}

(* A user edits two of the three fields (of one kind, or of both), or      *)
(* presses.  Edits and presses meet only in the modes of the table, which  *)
(* the browsers change as well, so all at once would add nothing.          *)
VARIABLE edits

(* Sliders matter to the presses; the edits need a second mode, and the    *)
(* one that the page shows before the first copy says most.                *)
InUse == {"relay", IF edits = {} THEN "pwm" ELSE "disabled"}
ModesInUse(t, d) ==
  \A c \in MCCells : c[1] = "mode" =>
    /\ t[c] \in InUse
    /\ d[c] # None => d[c].new \in InUse

MCInit == /\ Init
          /\ edits \in {{<<"mode", "a">>, <<"mode", "b">>},
                       {<<"mode", "a">>, <<"name", "a">>},
                       {}}
MCNext == /\ \/ WifiStep \/ LcdRuns \/ Update \/ Enter \/ Exit \/ SaveButton
             \/ \E c \in edits : EditCell(c)
             \/ edits = {} /\ (OutputStep \/ HttpOutput)
          /\ ModesInUse(table', draft')
          /\ UNCHANGED edits
MCSpec == MCInit /\ [][MCNext]_<<vars, edits>> /\ Fairness
=============================================================================
