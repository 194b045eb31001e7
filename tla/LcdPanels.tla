----------------------------- MODULE LcdPanels -----------------------------
(***************************************************************************)
(* The panels of the LCD and the WiFi task, which owns the settings:       *)
(*   HTTP/http_lcd_panels.c       batches of edited port modes and names,  *)
(*                                presses and slider samples, and the copy *)
(*                                of the panel that the LCD reads          *)
(*   Screens/SCREEN_HttpPanels.c  the drafts of the page /set, its save    *)
(*                                button, the output buttons and sliders   *)
(*   relay_states.c               the requested state of the outputs       *)
(* Both tasks exchange data in critical sections only: one step is at most *)
(* one critical section.  The rest of a step touches what its task owns.   *)
(* A cell is one field of one port, <<"mode", p>> or <<"name", p>>.        *)
(***************************************************************************)
EXTENDS RelayStates, FiniteSets

CONSTANTS Cells,        \* the editable fields
          ValsOf,       \* the values of each kind of field
          Relay, Pwm,   \* modes with a button (relay, IR) and with a slider
          Outputs,      \* ports with a button or a slider
          Report,       \* what the refresh data says of each output
          MaxToggles,   \* presses an output can hold (255 in the code)
          MaxSerial,    \* batches in one behaviour (2^32 - 1 in the code)
          MaxWrites,    \* how often browsers change the table
          BootTables,   \* settings the device may start with
          Disabled,     \* the mode of every port and the name (none) of
          NoName,       \* every port until the first copy is there
          None

Kinds == {"mode", "name"}
CellsOf(k) == {c \in Cells : c[1] = k}
Vals == UNION {ValsOf[k] : k \in Kinds}

Drafts == [new : Vals, base : Vals]
NoDrafts == [c \in Cells |-> None]
Tables == {t \in [Cells -> Vals] : \A c \in Cells : t[c] \in ValsOf[c[1]]}
BlankTable == [c \in Cells |-> IF c[1] = "mode" THEN Disabled ELSE NoName]
Batches == [edits : [Cells -> Drafts \cup {None}], serial : Nat]
Outcomes == [serial : Nat, ok : BOOLEAN]
Copies == [cells : [Cells -> Vals], outcome : [Kinds -> Outcomes]]
NoOutcome == [k \in Kinds |-> [serial |-> 0, ok |-> FALSE]]
EmptyHand == [port |-> None, toggles |-> 0, percent |-> None]
Hands == [port : Outputs \cup {None}, toggles : 0..MaxToggles,
          percent : Percents \cup {None}]

ASSUME ConstantsAssumption ==
  /\ \A c \in Cells : c[1] \in Kinds
  /\ ValsOf \in [Kinds -> SUBSET Vals]
  /\ Relay # Pwm
  /\ Unknown \notin OnOff
  /\ \A o \in Outputs : <<"mode", o>> \in Cells
  /\ Report \in [Outputs -> OnOff \cup {Unknown}]
  /\ Percents \subseteq Nat
  /\ MaxToggles \in Nat \ {0}
  /\ MaxSerial \in Nat
  /\ MaxWrites \in Nat
  /\ BootTables \subseteq Tables
  /\ Disabled \in ValsOf["mode"] \ {Relay, Pwm}
  /\ NoName \in ValsOf["name"]
  /\ None \notin Drafts \cup Batches \cup Copies
  /\ None \notin Percents
  /\ None \notin Outputs

VARIABLES
  \* owned by the WiFi task
  table,      \* modes and names in the settings model
  relay,      \* RelayStatesData
  outcome,    \* mode_serial, mode_result, name_serial, name_result
  command,    \* something was done in this round
  todo,       \* outputs the loop of this round has not visited
  hand,       \* what it took from the output being visited
  wifi,       \* where the WiFi task is
  writes,     \* changes by browsers so far (bounds the behaviour)
  \* shared, in critical sections
  batch,      \* mode_batch and name_batch while busy, or None
  toggles,    \* presses not yet taken
  slide,      \* pwm_value while pwm_dirty, or None
  copy,       \* published, or None while not ready
  active,     \* a panel is on the screen
  notified,   \* a notification of the WiFi task is pending
  \* owned by the LCD task
  draft,      \* draftMode and draftBase, names and nameBase, per cell
  data,       \* ui.data
  saving,     \* serials of the saves waited for: saving, savingNames
  nextSerial,
  saved,      \* the header says that everything is saved
  saveError,  \* the header says that a save failed
  shown,      \* ui.active
  drag,       \* the output whose slider is held, or None
  lcd         \* where the LCD task is

owned == <<table, relay, outcome, command, todo, hand, writes>>
outputs == <<toggles, slide>>
screen == <<shown, drag, lcd>>
editor == <<draft, saving, nextSerial, saved, saveError>>
vars == <<owned, wifi, batch, outputs, copy, active, notified, editor, data,
          shown, drag, lcd>>

WifiLabels == {"modes", "names", "outputs", "publish", "wanted",
               "timed", "sleep", "serve"}
LcdLabels == {"ready", "enter", "entered", "askMode", "wakeMode",
              "askName", "wakeName", "wake"}

TypeOK ==
  /\ table \in Tables
  /\ relay \in [Outputs -> RelayState]
  /\ outcome \in [Kinds -> Outcomes]
  /\ command \in BOOLEAN
  /\ todo \subseteq Outputs
  /\ hand \in Hands
  /\ wifi \in WifiLabels
  /\ writes \in 0..MaxWrites
  /\ batch \in [Kinds -> Batches \cup {None}]
  /\ toggles \in [Outputs -> 0..MaxToggles]
  /\ slide \in [Outputs -> Percents \cup {None}]
  /\ copy \in Copies \cup {None}
  /\ active \in BOOLEAN
  /\ notified \in BOOLEAN
  /\ draft \in [Cells -> Drafts \cup {None}]
  /\ data \in Copies
  /\ saving \in [Kinds -> 0..MaxSerial]
  /\ nextSerial \in 0..MaxSerial
  /\ saved \in BOOLEAN
  /\ saveError \in BOOLEAN
  /\ shown \in BOOLEAN
  /\ drag \in Outputs \cup {None}
  /\ lcd \in LcdLabels

Init ==
  /\ table \in BootTables
  /\ relay = [o \in Outputs |-> Unreported]
  /\ outcome = NoOutcome
  /\ command = FALSE
  /\ todo = {}
  /\ hand = EmptyHand
  /\ wifi = "modes"
  /\ writes = 0
  /\ batch = [k \in Kinds |-> None]
  /\ toggles = [o \in Outputs |-> 0]
  /\ slide = [o \in Outputs |-> None]
  /\ copy = None
  /\ active = FALSE
  /\ notified = FALSE
  /\ draft = NoDrafts
  /\ data = [cells |-> BlankTable, outcome |-> NoOutcome]
  /\ saving = [k \in Kinds |-> 0]
  /\ nextSerial = 0
  /\ saved = FALSE
  /\ saveError = FALSE
  /\ shown = FALSE
  /\ drag = None
  /\ lcd = "ready"

ModeOf(o) == table[<<"mode", o>>]
Edited(edits) == {c \in Cells : edits[c] # None}

-----------------------------------------------------------------------------
(* HTTP_LCDPanelService, once in every round of the WiFi task.             *)

(* SaveModes, SaveNames: every edited cell must still be what the user     *)
(* saw; then one HTTP form with the edited and the current values is       *)
(* applied, and its save to the card (ConfigStorage) may fail.             *)
Applies_Unchecked(b, ok) ==
  table' = IF ok THEN [c \in Cells |-> IF b.edits[c] = None THEN table[c]
                                       ELSE b.edits[c].new]
           ELSE table
Applies(b, ok) ==
  /\ ok => \A c \in Edited(b.edits) : b.edits[c].base = table[c]
  /\ table' = IF ok THEN [c \in Cells |-> IF b.edits[c] = None THEN table[c]
                                          ELSE b.edits[c].new]
              ELSE table

(* The batch stays locked until the commit is durable.                     *)
SvcBatch(k, next) ==
  /\ IF batch[k] = None
     THEN UNCHANGED <<table, batch, outcome, command>>
     ELSE \E ok \in BOOLEAN :
            /\ Applies(batch[k], ok)
            /\ outcome' = [outcome EXCEPT ![k] = [serial |-> batch[k].serial,
                                                  ok |-> ok]]
            /\ batch' = [batch EXCEPT ![k] = None]
            /\ command' = TRUE
  /\ wifi' = next
  /\ UNCHANGED <<relay, hand, writes, outputs, copy, active, notified, editor, data,
                 screen>>

SvcModes == wifi = "modes" /\ SvcBatch("mode", "names") /\ UNCHANGED todo
SvcNames == wifi = "names" /\ SvcBatch("name", "outputs") /\ todo' = Outputs

(* One output of the loop: its presses and its slider are taken in one     *)
(* critical section ...                                                    *)
SvcTake_Peek(o) ==
  /\ wifi = "outputs" /\ hand = EmptyHand
  /\ o \in todo
  /\ todo' = todo \ {o}
  /\ hand' = [port |-> o, toggles |-> toggles[o], percent |-> slide[o]]
  /\ UNCHANGED <<toggles, slide, table, relay, outcome, command, writes, wifi, batch,
                 copy, active, notified, editor, data, screen>>
SvcTake(o) ==
  /\ wifi = "outputs" /\ hand = EmptyHand
  /\ o \in todo
  /\ todo' = todo \ {o}
  /\ hand' = [port |-> o, toggles |-> toggles[o], percent |-> slide[o]]
  /\ toggles' = [toggles EXCEPT ![o] = 0]
  /\ slide' = [slide EXCEPT ![o] = None]
  /\ UNCHANGED <<table, relay, outcome, command, writes, wifi, batch, copy, active,
                 notified, editor, data, screen>>

(* ... and applied to an output that still has the mode for them.          *)
Driven_Unreported(h) ==
  LET r == relay[h.port]
      m == ModeOf(h.port)
  IN CASE h.percent # None /\ m = Pwm -> RequestPwm(r, h.percent)
       [] h.toggles > 0 /\ m = Relay -> Pressed(r, Unknown, h.toggles)
       [] OTHER -> r
Driven(h) ==
  LET r == relay[h.port]
      m == ModeOf(h.port)
  IN CASE h.percent # None /\ m = Pwm -> RequestPwm(r, h.percent)
       [] h.toggles > 0 /\ m = Relay -> Pressed(r, Report[h.port], h.toggles)
       [] OTHER -> r
Obeyed(h) == \/ h.percent # None /\ ModeOf(h.port) = Pwm
             \/ h.toggles > 0 /\ ModeOf(h.port) = Relay
SvcApply ==
  /\ wifi = "outputs" /\ hand # EmptyHand
  /\ relay' = [relay EXCEPT ![hand.port] = Driven(hand)]
  /\ command' = (command \/ Obeyed(hand))
  /\ hand' = EmptyHand
  /\ UNCHANGED <<table, outcome, todo, writes, wifi, batch, outputs, copy, active,
                 notified, editor, data, screen>>

LoopDone == wifi = "outputs" /\ hand = EmptyHand /\ todo = {}

(* Nobody looks and nothing was done, or the last copy is younger than     *)
(* 250 ms and nothing was done.                                            *)
SvcIdle ==
  /\ LoopDone
  /\ ~command
  /\ ~active \/ copy # None
  /\ wifi' = "wanted"
  /\ UNCHANGED <<owned, batch, outputs, copy, active, notified, editor, data,
                 screen>>

(* A new copy replaces the old one if anything in it differs.              *)
SvcPublish_ForViewer ==
  /\ LoopDone
  /\ active \/ command
  /\ copy' = IF active THEN [cells |-> table, outcome |-> outcome] ELSE copy
  /\ command' = FALSE
  /\ wifi' = "wanted"
  /\ UNCHANGED <<table, relay, outcome, todo, hand, writes, batch, outputs, active,
                 notified, editor, data, screen>>
SvcPublish ==
  /\ LoopDone
  /\ active \/ command
  /\ copy' = [cells |-> table, outcome |-> outcome]
  /\ command' = FALSE
  /\ wifi' = "wanted"
  /\ UNCHANGED <<table, relay, outcome, todo, hand, writes, batch, outputs, active,
                 notified, editor, data, screen>>

(* HTTP_LCDPanelWanted limits the wait for a notification to 250 ms.       *)
SvcWanted ==
  /\ wifi = "wanted"
  /\ wifi' = IF active \/ \E k \in Kinds : batch[k] # None
             THEN "timed" ELSE "sleep"
  /\ UNCHANGED <<owned, batch, outputs, copy, active, notified, editor, data,
                 screen>>

TimedOut ==
  /\ wifi = "timed" /\ ~notified
  /\ wifi' = "modes"
  /\ UNCHANGED <<owned, batch, outputs, copy, active, notified, editor, data,
                 screen>>

Woken ==
  /\ wifi \in {"timed", "sleep"} /\ notified
  /\ notified' = FALSE
  /\ wifi' = "serve"
  /\ UNCHANGED <<owned, batch, outputs, copy, active, editor, data, screen>>

-----------------------------------------------------------------------------
(* Requests of the browsers, served between two rounds.                    *)

ServeOnly == UNCHANGED <<outcome, command, todo, hand, wifi, batch, outputs,
                         copy, active, notified, editor, data, screen>>

HttpSave(c, v) ==
  /\ wifi = "serve"
  /\ writes < MaxWrites /\ table[c] # v
  /\ writes' = writes + 1
  /\ table' = [table EXCEPT ![c] = v]
  /\ UNCHANGED relay
  /\ ServeOnly

HttpToggle(o) ==
  /\ wifi = "serve" /\ ModeOf(o) = Relay
  /\ relay' = [relay EXCEPT ![o] = Pressed(@, Report[o], 1)]
  /\ UNCHANGED <<table, writes>>
  /\ ServeOnly

HttpPwm(o, percent) ==
  /\ wifi = "serve" /\ ModeOf(o) = Pwm
  /\ relay' = [relay EXCEPT ![o] = RequestPwm(@, percent)]
  /\ UNCHANGED <<table, writes>>
  /\ ServeOnly

ServeDone ==
  /\ wifi = "serve"
  /\ wifi' = "modes"
  /\ UNCHANGED <<owned, batch, outputs, copy, active, notified, editor, data,
                 screen>>

(* The UART has received lines from the ESP32; during a round they only    *)
(* make the next wait short, as if they had come then.                     *)
UartNotify ==
  /\ wifi \in {"timed", "sleep"} /\ ~notified
  /\ notified' = TRUE
  /\ UNCHANGED <<owned, wifi, batch, outputs, copy, active, editor, data,
                 screen>>

-----------------------------------------------------------------------------
(* The LCD task.                                                           *)

wifiSide == <<owned, wifi, batch, copy>>

Saving == \E k \in Kinds : saving[k] # 0

(* SaveCompleted: the answer to a save is known by its serial.             *)
Completed_AnySerial(answer) ==
  LET Done(k) == saving[k] # 0 /\ answer[k].serial # 0
      Good(k) == Done(k) /\ answer[k].ok
      failed == saveError \/ \E k \in Kinds : Done(k) /\ ~answer[k].ok
  IN /\ saving' = [k \in Kinds |-> IF Done(k) THEN 0 ELSE saving[k]]
     /\ draft' = [c \in Cells |-> IF Good(c[1]) THEN None ELSE draft[c]]
     /\ saveError' = failed
     /\ saved' = IF \E k \in Kinds : Done(k)
                 THEN ~failed /\ \A k \in Kinds : saving'[k] = 0 ELSE saved
Completed_Optimistic(answer) ==
  LET Done(k) == saving[k] # 0 /\ answer[k].serial = saving[k]
      Good(k) == Done(k) /\ answer[k].ok
      failed == saveError \/ \E k \in Kinds : Done(k) /\ ~answer[k].ok
  IN /\ saving' = [k \in Kinds |-> IF Done(k) THEN 0 ELSE saving[k]]
     /\ draft' = [c \in Cells |-> IF Good(c[1]) THEN None ELSE draft[c]]
     /\ saveError' = failed
     /\ saved' = IF \E k \in Kinds : Done(k)
                 THEN \A k \in Kinds : Done(k) => Good(k) ELSE saved
Completed(answer) ==
  LET Done(k) == saving[k] # 0 /\ answer[k].serial = saving[k]
      Good(k) == Done(k) /\ answer[k].ok
      failed == saveError \/ \E k \in Kinds : Done(k) /\ ~answer[k].ok
  IN /\ saving' = [k \in Kinds |-> IF Done(k) THEN 0 ELSE saving[k]]
     /\ draft' = [c \in Cells |-> IF Good(c[1]) THEN None ELSE draft[c]]
     /\ saveError' = failed
     /\ saved' = IF \E k \in Kinds : Done(k)
                 THEN ~failed /\ \A k \in Kinds : saving'[k] = 0 ELSE saved

(* A panel is entered, or entered again behind a form: memory of the       *)
(* screen is cleared, HTTP_LCDPanelActive, its wake-up, HTTP_LCDPanelRead. *)
Enter ==
  /\ lcd \in {"ready", "enter"}
  /\ active' = TRUE
  /\ data' = [cells |-> BlankTable, outcome |-> NoOutcome]
  /\ drag' = None
  /\ lcd' = "entered"
  /\ UNCHANGED <<wifiSide, outputs, notified, editor, shown>>

Entered ==
  /\ lcd = "entered"
  /\ notified' = TRUE
  /\ data' = IF copy = None THEN data ELSE copy
  /\ Completed(data'.outcome)
  /\ shown' = TRUE
  /\ lcd' = "ready"
  /\ UNCHANGED <<wifiSide, outputs, active, nextSerial, drag>>

Exit ==
  /\ lcd = "ready" /\ shown
  /\ active' = FALSE
  /\ shown' = FALSE
  /\ drag' = None
  /\ UNCHANGED <<wifiSide, outputs, notified, editor, data, lcd>>

(* Every 250 ms: nothing happens unless the copy has changed.              *)
Update ==
  /\ lcd = "ready" /\ shown
  /\ copy # None /\ copy # data
  /\ Completed(copy.outcome)
  /\ data' = copy
  /\ UNCHANGED <<wifiSide, outputs, active, notified, nextSerial, screen>>

(* A mode picked from the menu, or a name given in the editor; no draft if *)
(* it is what the settings already say.                                    *)
Edit(c, v) ==
  /\ lcd = "ready" /\ shown /\ drag = None /\ ~Saving
  /\ draft' = [draft EXCEPT ![c] =
                 IF v = data.cells[c] THEN None
                 ELSE [new |-> v, base |-> data.cells[c]]]
  /\ saved' = FALSE
  /\ saveError' = FALSE
  /\ UNCHANGED <<wifiSide, outputs, active, notified, saving, nextSerial, data,
                 shown, drag>>

PickMode(c, v) == Edit(c, v) /\ UNCHANGED lcd

(* The editor of names covers the panel, which is entered again behind it. *)
Rename(c, v) == Edit(c, v) /\ lcd' = "enter"

HasDrafts(k) == \E c \in CellsOf(k) : draft[c] # None

(* The save button: the modes first, then the names.                       *)
SaveButton ==
  /\ lcd = "ready" /\ shown /\ drag = None /\ ~Saving
  /\ \E k \in Kinds : HasDrafts(k)
  /\ nextSerial + Cardinality({k \in Kinds : HasDrafts(k)}) <= MaxSerial
  /\ saved' = FALSE
  /\ saveError' = FALSE
  /\ lcd' = IF HasDrafts("mode") THEN "askMode" ELSE "askName"
  /\ UNCHANGED <<wifiSide, outputs, active, notified, draft, saving, nextSerial,
                 data, shown, drag>>

(* HTTP_LCDPanelSaveModes, HTTP_LCDPanelSaveNames: refused while busy.     *)
Ask(k, next) ==
  /\ IF batch[k] = None
     THEN /\ nextSerial' = nextSerial + 1
          /\ batch' = [batch EXCEPT ![k] =
                         [edits |-> [c \in Cells |-> IF c[1] = k THEN draft[c]
                                                     ELSE None],
                          serial |-> nextSerial + 1]]
          /\ lcd' = IF k = "mode" THEN "wakeMode" ELSE "wakeName"
          /\ UNCHANGED saveError
     ELSE /\ saveError' = TRUE
          /\ lcd' = next
          /\ UNCHANGED <<nextSerial, batch>>
  /\ UNCHANGED <<owned, wifi, copy, outputs, active, notified, draft, saving,
                 saved, data, shown, drag>>

AfterModes == IF HasDrafts("name") THEN "askName" ELSE "ready"
AskModes == lcd = "askMode" /\ Ask("mode", AfterModes)
AskNames == lcd = "askName" /\ Ask("name", "ready")

(* HTTP_SensorLCDWake, and the serial is returned to the screen.           *)
Wake(k, next) ==
  /\ notified' = TRUE
  /\ saving' = [saving EXCEPT ![k] = nextSerial]
  /\ lcd' = next
  /\ UNCHANGED <<wifiSide, outputs, active, draft, nextSerial, saved, saveError,
                 data, shown, drag>>
WakeModes == lcd = "wakeMode" /\ Wake("mode", AfterModes)
WakeNames == lcd = "wakeName" /\ Wake("name", "ready")

(* What the tile of an output offers: a button or a slider, by the mode in *)
(* the copy (on /set only while no draft of the mode hides it).            *)
Offers(o, mode) == drag = None /\ data.cells[<<"mode", o>>] = mode

(* HTTP_LCDPanelToggle; a full counter refuses the press.                  *)
Press_Unlimited(o) ==
  /\ lcd = "ready" /\ shown
  /\ Offers(o, Relay)
  /\ toggles' = [toggles EXCEPT ![o] = @ + 1]
  /\ lcd' = "wake"
  /\ UNCHANGED <<wifiSide, slide, active, notified, editor, data, shown, drag>>
Press(o) ==
  /\ lcd = "ready" /\ shown
  /\ Offers(o, Relay)
  /\ toggles[o] < MaxToggles
  /\ toggles' = [toggles EXCEPT ![o] = @ + 1]
  /\ lcd' = "wake"
  /\ UNCHANGED <<wifiSide, slide, active, notified, editor, data, shown, drag>>

(* HTTP_LCDPanelPwm; a later sample replaces an earlier one.  A slider     *)
(* once held goes on sending, whatever becomes of the mode.                *)
Slide(o, percent) ==
  /\ lcd = "ready" /\ shown
  /\ Offers(o, Pwm) \/ drag = o
  /\ slide' = [slide EXCEPT ![o] = percent]
  /\ drag' = o
  /\ lcd' = "wake"
  /\ UNCHANGED <<wifiSide, toggles, active, notified, editor, data, shown>>

Release ==
  /\ lcd = "ready" /\ drag # None
  /\ drag' = None
  /\ UNCHANGED <<wifiSide, outputs, active, notified, editor, data, shown, lcd>>

WakeOutputs_Viewed ==
  /\ lcd = "wake"
  /\ lcd' = "ready"
  /\ UNCHANGED <<wifiSide, outputs, active, notified, editor, data, shown, drag>>
WakeOutputs ==
  /\ lcd = "wake"
  /\ notified' = TRUE
  /\ lcd' = "ready"
  /\ UNCHANGED <<wifiSide, outputs, active, editor, data, shown, drag>>

-----------------------------------------------------------------------------
ServiceStep == \/ SvcModes \/ SvcNames
               \/ \E o \in Outputs : SvcTake(o)
               \/ SvcApply \/ SvcIdle \/ SvcPublish \/ SvcWanted

WifiStep == \/ ServiceStep \/ TimedOut \/ Woken \/ ServeDone
            \/ \E c \in Cells : \E v \in ValsOf[c[1]] : HttpSave(c, v)
            \/ UartNotify

HttpOutput == \/ \E o \in Outputs : HttpToggle(o)
              \/ \E o \in Outputs, percent \in Percents : HttpPwm(o, percent)

(* Steps the LCD task takes by itself, and gestures of the user.           *)
LcdRuns == \/ lcd = "enter" /\ Enter
           \/ Entered \/ AskModes \/ WakeModes \/ AskNames \/ WakeNames
           \/ WakeOutputs

EditCell(c) == \E v \in ValsOf[c[1]] : \/ c[1] = "mode" /\ PickMode(c, v)
                                       \/ c[1] = "name" /\ Rename(c, v)

OutputStep == \/ \E o \in Outputs : Press(o)
              \/ \E o \in Outputs, percent \in Percents : Slide(o, percent)
              \/ Release

LcdStep == \/ LcdRuns \/ Update \/ Enter \/ Exit
           \/ \E c \in Cells : EditCell(c)
           \/ SaveButton
           \/ OutputStep

Next == WifiStep \/ HttpOutput \/ LcdStep

Spec == Init /\ [][Next]_vars

(* The WiFi task runs and its waits end.  The LCD task runs and looks at   *)
(* the copy before it handles the next gesture.  Neither users nor         *)
(* browsers have to do anything.                                           *)
Fairness == /\ WF_vars(ServiceStep)
            /\ WF_vars(TimedOut \/ Woken)
            /\ WF_vars(ServeDone)
            /\ WF_vars(LcdRuns)
            /\ SF_vars(Update)

FairSpec == Spec /\ Fairness

-----------------------------------------------------------------------------
(* Properties.                                                             *)

(* "Single immutable batch: all edited ports commit together or none do":  *)
(* for the modes and for the names the page is a DraftBatch, whatever the  *)
(* browsers change, and a draft is given up only once it has taken effect. *)
Waiting(k) ==
  saving[k] # 0 \/ lcd = (IF k = "mode" THEN "wakeMode" ELSE "wakeName")

PhaseOf(k) == CASE ~Waiting(k) -> "idle"
                [] Waiting(k) /\ batch[k] # None -> "asked"
                [] Waiting(k) /\ batch[k] = None ->
                     IF outcome[k].ok THEN "committed" ELSE "refused"

Modes == INSTANCE DraftBatch
           WITH Cells <- CellsOf("mode"),
                table <- [c \in CellsOf("mode") |-> table[c]],
                draft <- [c \in CellsOf("mode") |-> draft[c]],
                phase <- PhaseOf("mode")

Names == INSTANCE DraftBatch
           WITH Cells <- CellsOf("name"),
                table <- [c \in CellsOf("name") |-> table[c]],
                draft <- [c \in CellsOf("name") |-> draft[c]],
                phase <- PhaseOf("name")

ImplementsBatches == Modes!Spec /\ Names!Spec

(* The header says "saved" only if both saves of the button went through:  *)
(* nothing the user has edited is left over.                               *)
SavedMeansAll == saved => draft = NoDrafts /\ ~saveError

(* "Slider samples coalesce; toggles are counted, never replaced": a press *)
(* accepted by the LCD stays in the counter or in the hand of the WiFi     *)
(* task until that hand is emptied over the output, and is then gone from  *)
(* both; n presses then turn what the tile shows n times if the output is  *)
(* still a relay.  The last slider sample goes the same way.               *)
Presses(o) == toggles[o] + IF hand.port = o THEN hand.toggles ELSE 0
Emptied(o) == hand.port = o /\ hand' = EmptyHand
PressesObeyed ==
  [][\A o \in Outputs :
       /\ \/ Presses(o)' = Presses(o)
          \/ lcd' = "wake" /\ lcd # "wake" /\ Presses(o)' = Presses(o) + 1
          \/ Emptied(o) /\ Presses(o)' = Presses(o) - hand.toggles
       /\ Emptied(o) /\ hand.toggles > 0 /\ ModeOf(o) = Relay =>
            relay'[o].requested =
              IF (ShownState(relay[o], Report[o]) = "on") = (hand.toggles % 2 = 1)
              THEN "off" ELSE "on"
       /\ slide[o] # None /\ slide'[o] = None => hand'.percent = slide[o]]_vars

(* A press is served although its user leaves the panel at once and the    *)
(* WiFi task may wait for ever.                                            *)
PressServed == \A o \in Outputs : toggles[o] > 0 ~> toggles[o] = 0

(* Every save gets its answer, one that changed nothing included; for a    *)
(* user who has left the page it lies in the copy and is read on return.   *)
SaveAnswered ==
  \A k \in Kinds :
    Waiting(k) ~> \/ ~Waiting(k)
                  \/ ~shown /\ copy # None /\ copy.outcome[k].serial = saving[k]
=============================================================================
