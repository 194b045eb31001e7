--------------------------- MODULE SensorMailbox ---------------------------
(***************************************************************************)
(* The mailbox between the LCD task and the WiFi task through which the    *)
(* threshold editor shares the sensor settings with the WWW pages          *)
(*   Application/HTTP/http_sensor_lcd.c                  (the mailbox)     *)
(*   Application/LCD/SensorThresholds/LCD_SensorThresholds.c  (the editor) *)
(*   Application/esp32wroom.c  (the WiFi loop and HTTP_SensorLCDWake)      *)
(*                                                                         *)
(* One step is one critical section, or the code between two of them, of   *)
(* one task: LCD steps and WiFi steps interleave at every critical         *)
(* section.  A value stands for both sensors of a port (temperature and    *)
(* humidity), which the code always copies and compares together.          *)
(* Whether the SD card takes a save is a free choice here; ConfigStorage   *)
(* says what that choice does to the card.                                 *)
(***************************************************************************)
EXTENDS Naturals

CONSTANTS N,      \* HTTP_SENSOR_PORT_COUNT
          Vals,   \* settings the validator accepts
          Unset   \* the zeroed static memory before the first copy

ASSUME ConstantsAssumption == N \in Nat \ {0} /\ Unset \notin Vals

Ports == 1..N
MaybeVals == Vals \cup {Unset}
Requests == [port : Ports, base : MaybeVals, values : MaybeVals]
Editors == [port : Ports, base : MaybeVals, draft : MaybeVals, dirty : BOOLEAN,
            editing : BOOLEAN, pending : BOOLEAN, initialized : BOOLEAN]
Outcomes == {"saved", "storageError", "conflict"}

VARIABLES
  model,      \* settings[], owned by the WiFi task
  published,  \* the copy the LCD may read
  ready,      \* published holds a full copy
  state,      \* result of the last request, or "pending"
  request,    \* the request of the LCD
  wifi,       \* next statement of the WiFi task
  processing, \* local of HTTP_SensorLCDService
  result,     \* local of HTTP_SensorLCDService
  next,       \* local: port to be copied next
  notified,   \* the notification bit of the WiFi task
  lcd,        \* next statement of the LCD task
  ui,         \* the editor
  fresh       \* (ghost) the last save from the LCD has been copied back

service == <<wifi, processing, result, next>>
mailbox == <<published, ready, state, request>>
editor == <<lcd, ui>>
vars == <<model, service, mailbox, notified, editor, fresh>>

TypeOK ==
  /\ model \in [Ports -> Vals]
  /\ published \in [Ports -> MaybeVals]
  /\ ready \in BOOLEAN
  /\ state \in {"idle", "pending"} \cup Outcomes
  /\ request \in Requests
  /\ wifi \in {"poll", "compare", "save", "publish", "complete", "wait", "serve"}
  /\ processing \in BOOLEAN
  /\ result \in {"idle", "pending"} \cup Outcomes
  /\ next \in Ports
  /\ notified \in BOOLEAN
  /\ lcd \in {"away", "update", "wake", "reload"}
  /\ ui \in Editors
  /\ fresh \in BOOLEAN

(* The models are loaded before the loop of the WiFi task starts.          *)
Init ==
  /\ model \in [Ports -> Vals]
  /\ published = [p \in Ports |-> Unset]
  /\ ready = FALSE
  /\ state = "idle"
  /\ request = [port |-> 1, base |-> Unset, values |-> Unset]
  /\ wifi = "poll"
  /\ processing = FALSE
  /\ result = "idle"
  /\ next = 1
  /\ notified = FALSE
  /\ lcd = "away"
  /\ ui = [port |-> 1, base |-> Unset, draft |-> Unset, dirty |-> FALSE,
           editing |-> FALSE, pending |-> FALSE, initialized |-> FALSE]
  /\ fresh = TRUE

-----------------------------------------------------------------------------
(* The WiFi task.                                                          *)

(* HTTP_SensorLCDResult at the head of the service.                        *)
SvcPoll ==
  /\ wifi = "poll"
  /\ processing' = (state = "pending")
  /\ result' = state
  /\ wifi' = IF state = "pending" THEN "compare" ELSE "publish"
  /\ next' = 1
  /\ UNCHANGED <<model, mailbox, notified, editor, fresh>>

(* The settings the LCD started from must still be the current ones.       *)
SvcCompare_Skipped ==
  /\ wifi = "compare"
  /\ wifi' = "save"
  /\ UNCHANGED <<model, processing, result, next, mailbox, notified, editor, fresh>>
SvcCompare ==
  /\ wifi = "compare"
  /\ IF model[request.port] = request.base
     THEN wifi' = "save" /\ UNCHANGED result
     ELSE wifi' = "publish" /\ result' = "conflict"
  /\ UNCHANGED <<model, processing, next, mailbox, notified, editor, fresh>>

(* HTTP_SensorSettingsSavePort, which reads the request a second time.     *)
SvcSave_AnswersFirst ==
  /\ wifi = "save"
  /\ model' = [model EXCEPT ![request.port] = request.values]
  /\ result' = "saved"
  /\ state' = "saved"
  /\ fresh' = FALSE
  /\ wifi' = "publish"
  /\ UNCHANGED <<processing, next, published, ready, request, notified, editor>>
SvcSave ==
  /\ wifi = "save"
  /\ \/ /\ model' = [model EXCEPT ![request.port] = request.values]
        /\ result' = "saved"
        /\ fresh' = FALSE
     \/ /\ result' = "storageError"
        /\ UNCHANGED <<model, fresh>>
  /\ wifi' = "publish"
  /\ UNCHANGED <<processing, next, mailbox, notified, editor>>

(* Each port is copied in a critical section of its own.                   *)
SvcPublish_OneTooMany ==
  /\ wifi = "publish"
  /\ published' = [published EXCEPT ![next] = model[next]]
  /\ fresh' = (fresh \/ next = request.port)
  /\ IF next <= N
     THEN next' = next + 1 /\ UNCHANGED wifi
     ELSE wifi' = "complete" /\ UNCHANGED next
  /\ UNCHANGED <<model, processing, result, ready, state, request, notified, editor>>
SvcPublish_ReadyEarly ==
  /\ wifi = "publish"
  /\ published' = [published EXCEPT ![next] = model[next]]
  /\ ready' = TRUE
  /\ fresh' = (fresh \/ next = request.port)
  /\ IF next < N
     THEN next' = next + 1 /\ UNCHANGED wifi
     ELSE wifi' = "complete" /\ UNCHANGED next
  /\ UNCHANGED <<model, processing, result, state, request, notified, editor>>
SvcPublish ==
  /\ wifi = "publish"
  /\ published' = [published EXCEPT ![next] = model[next]]
  /\ fresh' = (fresh \/ next = request.port)
  /\ IF next < N
     THEN next' = next + 1 /\ UNCHANGED wifi
     ELSE wifi' = "complete" /\ UNCHANGED next
  /\ UNCHANGED <<model, processing, result, ready, state, request, notified, editor>>

SvcComplete ==
  /\ wifi = "complete"
  /\ ready' = TRUE
  /\ state' = IF processing THEN result ELSE state
  /\ wifi' = "wait"
  /\ UNCHANGED <<model, processing, result, next, published, request, notified,
                 editor, fresh>>

(* xTaskNotifyWait clears the bits; without a timeout it waits for ever.   *)
WifiWake ==
  /\ wifi = "wait" /\ notified
  /\ notified' = FALSE
  /\ wifi' = "serve"
  /\ UNCHANGED <<model, processing, result, next, mailbox, editor, fresh>>

(* A form from the WWW overwrites a port without looking at the old value. *)
HttpSave(p, v) ==
  /\ wifi = "serve"
  /\ model' = [model EXCEPT ![p] = v]
  /\ UNCHANGED <<service, mailbox, notified, editor, fresh>>

ServeDone ==
  /\ wifi = "serve"
  /\ wifi' = "poll"
  /\ UNCHANGED <<model, processing, result, next, mailbox, notified, editor, fresh>>

(* ESP32_Notify2EspThread, from the UART interrupt: bytes have arrived.    *)
UartNotify ==
  /\ ~notified
  /\ notified' = TRUE
  /\ UNCHANGED <<model, service, mailbox, editor, fresh>>

-----------------------------------------------------------------------------
(* The LCD task.  LCD_SensorThresholds is called every 20 ms with UPDATE   *)
(* while the editor is on the screen.                                      *)

(* HTTP_SensorLCDRead and the copy into the draft.                         *)
Reloaded(u) == IF ready
               THEN [u EXCEPT !.base = published[u.port],
                              !.draft = published[u.port], !.dirty = FALSE]
               ELSE u

(* ENTER: pending is the only field that survives from an earlier visit.   *)
Enter(p) ==
  /\ lcd = "away"
  /\ ui' = [Reloaded([ui EXCEPT !.port = p])
              EXCEPT !.initialized = ready, !.dirty = FALSE, !.editing = FALSE]
  /\ lcd' = "update"
  /\ UNCHANGED <<model, service, mailbox, notified, fresh>>

(* EXIT, from the navigation: possible between any two updates.            *)
Exit ==
  /\ lcd = "update"
  /\ lcd' = "away"
  /\ ui' = [ui EXCEPT !.editing = FALSE]
  /\ UNCHANGED <<model, service, mailbox, notified, fresh>>

(* While a request is pending an update does nothing but look for the      *)
(* answer.                                                                 *)
PollResult_AnyAnswer ==
  /\ lcd = "update" /\ ui.pending
  /\ state # "pending"
  /\ ui' = [ui EXCEPT !.pending = FALSE]
  /\ lcd' = "reload"
  /\ UNCHANGED <<model, service, mailbox, notified, fresh>>
PollResult ==
  /\ lcd = "update" /\ ui.pending
  /\ state # "pending"
  /\ ui' = [ui EXCEPT !.pending = FALSE]
  /\ lcd' = IF state = "saved" THEN "reload" ELSE "update"
  /\ UNCHANGED <<model, service, mailbox, notified, fresh>>

ReloadSaved ==
  /\ lcd = "reload"
  /\ ui' = Reloaded(ui)
  /\ lcd' = "update"
  /\ UNCHANGED <<model, service, mailbox, notified, fresh>>

Responsive == lcd = "update" /\ ~ui.pending
Browsing == Responsive /\ ui.initialized /\ ~ui.editing

(* Changes from the WWW appear by themselves while nothing is edited.      *)
AutoRefresh ==
  /\ Responsive /\ ~ui.editing /\ ~ui.dirty
  /\ ready
  /\ ~ui.initialized \/ published[ui.port] # ui.base
  /\ ui' = [Reloaded(ui) EXCEPT !.initialized = TRUE]
  /\ UNCHANGED <<model, service, mailbox, notified, lcd, fresh>>

EditorOpen ==
  /\ Browsing
  /\ ui' = [ui EXCEPT !.editing = TRUE]
  /\ UNCHANGED <<model, service, mailbox, notified, lcd, fresh>>

(* "Gotowe" with a valid field yields the draft v; an invalid field and    *)
(* "Anuluj" leave the draft as it was.                                     *)
EditorClose(v) ==
  /\ Responsive /\ ui.editing
  /\ \/ ui' = [ui EXCEPT !.editing = FALSE, !.draft = v, !.dirty = TRUE]
     \/ ui' = [ui EXCEPT !.editing = FALSE]
  /\ UNCHANGED <<model, service, mailbox, notified, lcd, fresh>>

Discard ==
  /\ Browsing
  /\ ui' = Reloaded(ui)
  /\ UNCHANGED <<model, service, mailbox, notified, lcd, fresh>>

(* Save: HTTP_SensorLCDSubmit.  Not accepted, it changes nothing.          *)
Submit ==
  /\ Browsing
  /\ ready /\ state # "pending"
  /\ request' = [port |-> ui.port, base |-> ui.base, values |-> ui.draft]
  /\ state' = "pending"
  /\ lcd' = "wake"
  /\ UNCHANGED <<model, service, published, ready, notified, ui, fresh>>

(* HTTP_SensorLCDWake, then the editor remembers its request.              *)
Wake_Missing ==
  /\ lcd = "wake"
  /\ ui' = [ui EXCEPT !.pending = TRUE]
  /\ lcd' = "update"
  /\ UNCHANGED <<model, service, mailbox, notified, fresh>>
Wake ==
  /\ lcd = "wake"
  /\ notified' = TRUE
  /\ ui' = [ui EXCEPT !.pending = TRUE]
  /\ lcd' = "update"
  /\ UNCHANGED <<model, service, mailbox, fresh>>

-----------------------------------------------------------------------------
ServiceStep == SvcPoll \/ SvcCompare \/ SvcSave \/ SvcPublish \/ SvcComplete

WifiStep == \/ ServiceStep
            \/ WifiWake
            \/ \E p \in Ports, v \in Vals : HttpSave(p, v)
            \/ ServeDone

LcdStep == \/ \E p \in Ports : Enter(p)
           \/ Exit
           \/ PollResult
           \/ ReloadSaved
           \/ AutoRefresh
           \/ EditorOpen
           \/ \E v \in Vals : EditorClose(v)
           \/ Discard
           \/ Submit
           \/ Wake

Next == WifiStep \/ LcdStep \/ UartNotify

Spec == Init /\ [][Next]_vars

(* Both tasks run to their next blocking call; a browser does not keep     *)
(* the WiFi task in one iteration for ever.  Nothing obliges the user to   *)
(* touch the screen, a browser to send a form or the UART to notify.       *)
FairSpec == /\ Spec
            /\ WF_vars(ServiceStep)
            /\ WF_vars(WifiWake)
            /\ WF_vars(ServeDone)
            /\ WF_vars(Wake)

-----------------------------------------------------------------------------
(* Properties.                                                             *)

(* "No producer may replace a pending request": from the poll that finds   *)
(* it to the answer, the two unlocked reads of the request by the WiFi     *)
(* task see the same request.                                              *)
RequestStable ==
  [][processing /\ wifi \in {"compare", "save", "publish", "complete"}
       => request' = request]_vars

(* "Publish before completion so GUI never sees success with stale         *)
(* values": when the LCD can read success, what it will read as settings   *)
(* was copied after the save.                                              *)
SuccessIsFresh == state = "saved" => fresh

(* The editor never shows, and so never sends back, memory of the mailbox  *)
(* that has not been filled, at whatever moment of the boot it is opened.  *)
NothingUnset ==
  /\ ui.initialized => Unset \notin {ui.base, ui.draft}
  /\ state = "pending" => Unset \notin {request.base, request.values}

(* A draft the editor drops because the save succeeded is the draft that   *)
(* was saved: no edit made after the request is lost with it, and leaving  *)
(* and entering another port does not attribute the answer to its draft.   *)
DroppedDraftWasSaved ==
  lcd = "reload" /\ ui.dirty
    => /\ state = "saved"
       /\ request.port = ui.port /\ request.values = ui.draft

(* Every accepted save is answered, although the WiFi task may sleep with  *)
(* portMAX_DELAY and the notification is sent after the critical section.  *)
Answered == state = "pending" ~> state # "pending"

(* The mailbox is a compare-and-set on the settings that WWW forms write   *)
(* at will: a save from the LCD takes effect only on the values it was     *)
(* based on, once, and its answer says truthfully what happened.           *)
Decided == state = "pending" /\ processing /\ wifi \in {"publish", "complete"}

Register == INSTANCE CompareAndSet
  WITH reg <- model,
       phase <- IF state # "pending" THEN "idle" ELSE IF Decided THEN "done" ELSE "asked",
       op <- request,
       answer <- IF Decided THEN result ELSE IF state = "pending" THEN "none" ELSE state

ImplementsCompareAndSet == Register!Spec
=============================================================================
