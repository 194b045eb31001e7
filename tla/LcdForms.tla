------------------------------ MODULE LcdForms ------------------------------
(***************************************************************************)
(* The forms in which the LCD edits the settings of one port, shared with  *)
(* the WWW pages and with the WiFi task that owns the settings             *)
(*   Application/HTTP/http_lcd_forms.inc            (both sides' functions) *)
(*   Application/LCD/Screens/lcd_port_forms.inc     (the editor)           *)
(*                                                                         *)
(* The copy for the LCD is far larger than one critical section should be: *)
(* the LCD reads it value by value and trusts it only if its revision was  *)
(* even at the start and is the same at the end.  A save carries the hash  *)
(* of what the user saw and is refused if the settings have another hash.  *)
(*                                                                         *)
(* A step is one critical section, or the code between two of them.  The   *)
(* revision is kept as its parity (window) and as whether it has moved     *)
(* since the LCD took the header (moved); a hash stands for the values it  *)
(* was computed from; the cell of a port is its page of values, its mode   *)
(* and its live PWM duty.                                                  *)
(***************************************************************************)
EXTENDS Naturals

CONSTANTS Ports, N, Vals, Modes, Duties,
          Pwm,        \* HTTP_MODE_PWM
          Routed,     \* pairs <<port, mode>> that have a page
          Unset,      \* a value of memory that nobody has written
          BootCells,  \* what a port may hold when the tasks start
          MaxSerial,  \* form_serial skips 0 when it wraps (2^32 - 1)
          MaxWrites   \* writes from the WWW (bounds the behaviour)

Fields == 1..N
Pages == [Fields -> Vals]
MaybePages == [Fields -> Vals \cup {Unset}]
Cells == [page : Pages, mode : Modes, duty : Duties]

ASSUME ConstantsAssumption ==
  /\ Ports # {}
  /\ N \in Nat \ {0}
  /\ Pwm \in Modes
  /\ 0 \in Duties
  /\ Routed \subseteq Ports \X Modes
  /\ Unset \notin Vals
  /\ BootCells \subseteq Cells
  /\ MaxSerial \in Nat \ {0, 1}
  /\ MaxWrites \in Nat

VARIABLES
  model,     \* settings and relay states, owned by the WiFi task
  op,        \* form_operation: "none", "open" or "save"
  form,      \* form_serial, form_active, form_port, form_mode, form_base_mode
  request,   \* form_request, form_pwm_changed, form_pwm_base; dead unless op
             \* is "save"; (ghost) seen: the values shown when it was made
  pub,       \* form_published
  ready,     \* form_ready
  window,    \* the revision is odd
  moved,     \* the revision has changed since the LCD read the header
  wifi,      \* next statement of HTTP_LCDFormService
  svc,       \* its locals: operation, status and the field to copy next
  due,       \* 250 ms have passed since form_last
  inited,    \* form_initialized
  lcd,       \* next statement of the LCD task
  reading,   \* the field HTTP_LCDFormRead copies next
  ui,        \* lcdForm: serial, dirty, pending, editing
  base, draft, latest,   \* the three copies of the editor
  writes     \* writes from the WWW so far

shared == <<op, form, request, pub, ready, window, moved>>
service == <<wifi, svc, due, inited>>
copies == <<base, draft, latest>>
editor == <<lcd, reading, ui, copies>>
vars == <<model, shared, service, editor, writes>>

Statuses == {"none", "ready", "busy", "saved", "invalid", "sdError", "conflict"}
Serials == 0..MaxSerial
Copies == [serial : Serials, status : Statuses, port : Ports, mode : Modes,
           paged : BOOLEAN, duty : Duties, hash : MaybePages, page : MaybePages]

Requests == [port : Ports, mode : Modes, page : MaybePages, hash : MaybePages,
             duty : Duties, dutyBase : Duties, seen : MaybePages]

TypeOK ==
  /\ model \in [Ports -> Cells]
  /\ op \in {"none", "open", "save"}
  /\ form \in [serial : Serials, active : BOOLEAN, port : Ports, mode : Modes,
               baseMode : Modes]
  /\ request \in Requests
  /\ pub \in Copies
  /\ ready \in BOOLEAN /\ window \in BOOLEAN /\ moved \in BOOLEAN
  /\ due \in BOOLEAN /\ inited \in BOOLEAN
  /\ wifi \in {"main", "commit", "apply", "open", "header", "values", "seal"}
  /\ svc \in [op : {"none", "open", "save"}, status : Statuses, next : Fields]
  /\ lcd \in {"closed", "update", "values", "check"}
  /\ reading \in Fields
  /\ ui \in [serial : Serials, dirty : BOOLEAN, pending : BOOLEAN, editing : BOOLEAN]
  /\ base \in Copies /\ draft \in Copies /\ latest \in Copies
  /\ writes \in 0..MaxWrites

-----------------------------------------------------------------------------
NoPage == [f \in Fields |-> Unset]
AnyPort == CHOOSE p \in Ports : TRUE

(* Memory cleared by memset.                                               *)
Zeroed == [serial |-> 0, status |-> "none", port |-> AnyPort, mode |-> Pwm,
           paged |-> FALSE, duty |-> 0, hash |-> NoPage, page |-> NoPage]

NoRequest == [port |-> AnyPort, mode |-> Pwm, page |-> NoPage, hash |-> NoPage,
              duty |-> 0, dutyBase |-> 0, seen |-> NoPage]

(* After a reset the copies in SDRAM still hold what they held before it:  *)
(* possibly a complete copy under the serial the first form will get.      *)
Retained == [Zeroed EXCEPT !.serial = 1, !.status = "saved", !.paged = TRUE]

Idle == [op |-> "none", status |-> "ready", next |-> 1]   \* no locals

Init ==
  /\ model \in [Ports -> BootCells]
  /\ op = "none"
  /\ form = [serial |-> 0, active |-> FALSE, port |-> AnyPort, mode |-> Pwm,
             baseMode |-> Pwm]
  /\ request = NoRequest
  /\ pub \in {Zeroed, Retained}
  /\ ready = FALSE /\ window = FALSE /\ moved = FALSE
  /\ wifi = "main"
  /\ svc = Idle
  /\ due = TRUE /\ inited = FALSE
  /\ lcd = "closed" /\ reading = 1
  /\ ui = [serial |-> 0, dirty |-> FALSE, pending |-> FALSE, editing |-> FALSE]
  /\ base = pub /\ draft = pub /\ latest = pub
  /\ writes = 0

-----------------------------------------------------------------------------
(* The LCD task is between the header and the verdict of a read.           *)
Reading == lcd \in {"values", "check"}

(* HTTP_LCDFormService, called in every round of the WiFi loop.            *)

SvcStart ==
  /\ wifi = "main"
  /\ op # "none" \/ (form.active /\ due)
  /\ svc' = [Idle EXCEPT !.op = op]
  /\ due' = FALSE
  /\ pub' = IF inited THEN pub ELSE [Zeroed EXCEPT !.page = pub.page]
  /\ inited' = TRUE
  /\ wifi' = IF op = "save" THEN "commit" ELSE "open"
  /\ UNCHANGED <<model, op, form, request, ready, window, moved, editor, writes>>

(* FormCommit: the port must still have the mode it had when the form was  *)
(* opened and the page the values the user saw; a changed duty is a live   *)
(* command and needs an active PWM output with the duty the user saw.      *)
DutyChanged(r) == r.mode = Pwm /\ r.duty # r.dutyBase

MayCommit(cell, r) ==
  /\ cell.mode = form.baseMode
  /\ cell.page = r.hash
  /\ DutyChanged(r) => form.baseMode = Pwm /\ cell.duty = r.dutyBase

SvcCommit ==
  /\ wifi = "commit"
  /\ IF MayCommit(model[request.port], request)
     THEN wifi' = "apply" /\ UNCHANGED svc
     ELSE wifi' = "open" /\ svc' = [svc EXCEPT !.status = "conflict"]
  /\ UNCHANGED <<model, shared, due, inited, editor, writes>>

(* HTTP_SettingsApplyTarget, which may wait for the card, and RequestPwm.  *)
Applied(cell, r) ==
  [cell EXCEPT !.page = r.page,
               !.duty = IF DutyChanged(r) THEN r.duty ELSE cell.duty]

SvcApply ==
  /\ wifi = "apply"
  /\ \E status \in {"saved", "sdError", "invalid"} :
       /\ svc' = [svc EXCEPT !.status = status]
       /\ model' = IF status = "saved"
                   THEN [model EXCEPT ![request.port] = Applied(@, request)]
                   ELSE model
  /\ wifi' = "open"
  /\ UNCHANGED <<shared, due, inited, editor, writes>>

(* The revision becomes odd: what the LCD has read so far is void.         *)
SvcOpenWindow ==
  /\ wifi = "open"
  /\ window' = TRUE /\ moved' = Reading
  /\ wifi' = IF svc.op = "open" THEN "header" ELSE "values"
  /\ UNCHANGED <<model, op, form, request, pub, ready, svc, due, inited, editor, writes>>

SvcHeader_OldSerial ==
  /\ wifi = "header"
  /\ pub' = [pub EXCEPT !.port = form.port, !.mode = form.mode,
                        !.paged = <<form.port, form.mode>> \in Routed]
  /\ form' = [form EXCEPT !.baseMode = model[form.port].mode]
  /\ wifi' = "values"
  /\ UNCHANGED <<model, op, request, ready, window, moved, svc, due, inited, editor, writes>>
SvcHeader ==
  /\ wifi = "header"
  /\ pub' = [pub EXCEPT !.serial = form.serial, !.port = form.port,
                        !.mode = form.mode,
                        !.paged = <<form.port, form.mode>> \in Routed]
  /\ form' = [form EXCEPT !.baseMode = model[form.port].mode]
  /\ wifi' = "values"
  /\ UNCHANGED <<model, op, request, ready, window, moved, svc, due, inited, editor, writes>>

(* Each value in a critical section of its own, then the hash and the duty.*)
SvcValue_OneTooMany ==
  /\ wifi = "values"
  /\ LET cell == model[pub.port]
         i == svc.next IN
       IF ~pub.paged
       THEN wifi' = "seal" /\ svc' = [svc EXCEPT !.status = "invalid"] /\ UNCHANGED pub
       ELSE IF i <= N
       THEN /\ pub' = [pub EXCEPT !.page[i] = cell.page[i]]
            /\ svc' = [svc EXCEPT !.next = i + 1]
            /\ UNCHANGED wifi
       ELSE /\ pub' = [pub EXCEPT !.hash = cell.page, !.duty = cell.duty]
            /\ wifi' = "seal"
            /\ UNCHANGED svc
  /\ UNCHANGED <<model, op, form, request, ready, window, moved, due, inited, editor, writes>>
SvcValue ==
  /\ wifi = "values"
  /\ LET cell == model[pub.port]
         i == svc.next IN
       IF ~pub.paged
       THEN wifi' = "seal" /\ svc' = [svc EXCEPT !.status = "invalid"] /\ UNCHANGED pub
       ELSE IF i < N
       THEN /\ pub' = [pub EXCEPT !.page[i] = cell.page[i]]
            /\ svc' = [svc EXCEPT !.next = i + 1]
            /\ UNCHANGED wifi
       ELSE /\ pub' = [pub EXCEPT !.page[i] = cell.page[i],
                                  !.hash = cell.page, !.duty = cell.duty]
            /\ wifi' = "seal"
            /\ UNCHANGED svc
  /\ UNCHANGED <<model, op, form, request, ready, window, moved, due, inited, editor, writes>>

(* The status of a refresh is the one already there, "busy" included.      *)
SvcSeal_ClearsAny ==
  /\ wifi = "seal"
  /\ pub' = IF svc.op = "none" THEN pub ELSE [pub EXCEPT !.status = svc.status]
  /\ window' = FALSE /\ moved' = Reading
  /\ ready' = TRUE
  /\ op' = "none"
  /\ request' = NoRequest
  /\ svc' = Idle
  /\ wifi' = "main"
  /\ UNCHANGED <<model, form, due, inited, editor, writes>>
SvcSeal ==
  /\ wifi = "seal"
  /\ pub' = IF svc.op = "none" THEN pub ELSE [pub EXCEPT !.status = svc.status]
  /\ window' = FALSE /\ moved' = Reading
  /\ ready' = TRUE
  /\ op' = IF svc.op = "none" THEN op ELSE "none"
  /\ request' = IF svc.op = "none" THEN request ELSE NoRequest
  /\ svc' = Idle
  /\ wifi' = "main"
  /\ UNCHANGED <<model, form, due, inited, editor, writes>>

(* Between two refreshes the WiFi task rests 250 ms; reading a form takes  *)
(* a fraction of that.                                                     *)
Rest ==
  /\ ~due /\ wifi = "main"
  /\ lcd \in {"closed", "update"}
  /\ due' = TRUE
  /\ UNCHANGED <<model, shared, wifi, svc, inited, editor, writes>>

(* A form of the WWW changes the page or the mode of a port, the PWM slider *)
(* of the panel the duty.                                                  *)
Change(p) ==
  /\ wifi = "main"
  /\ writes < MaxWrites
  /\ writes' = writes + 1
  /\ \/ \E page \in Pages : model' = [model EXCEPT ![p].page = page]
     \/ \E mode \in Modes : model' = [model EXCEPT ![p].mode = mode]
     \/ \E duty \in Duties : model' = [model EXCEPT ![p].duty = duty]
  /\ UNCHANGED <<shared, service, editor>>

-----------------------------------------------------------------------------
(* The editor, in the LCD task.                                            *)

(* FormOpen and HTTP_LCDFormOpenMode: refused while an operation is open.  *)
NextSerial == IF form.serial = MaxSerial THEN 1 ELSE form.serial + 1

Open(p, m) ==
  /\ lcd = "closed" /\ op = "none"
  /\ form' = [form EXCEPT !.serial = NextSerial, !.active = TRUE, !.port = p, !.mode = m]
  /\ op' = "open"
  /\ ui' = [serial |-> NextSerial, dirty |-> FALSE, pending |-> FALSE,
            editing |-> FALSE]
  /\ base' = Zeroed /\ draft' = Zeroed /\ latest' = Zeroed
  /\ lcd' = "update"
  /\ UNCHANGED <<model, request, pub, ready, window, moved, service, reading, writes>>

(* The menu leaves the screen at any moment, whatever is being saved; the  *)
(* copies and lcdForm are dead until FormOpen clears them.                 *)
Leave ==
  /\ lcd = "update"
  /\ form' = [form EXCEPT !.active = FALSE]
  /\ lcd' = "closed"
  /\ base' = Zeroed /\ draft' = Zeroed /\ latest' = Zeroed
  /\ ui' = [ui EXCEPT !.dirty = FALSE, !.pending = FALSE, !.editing = FALSE]
  /\ UNCHANGED <<model, op, request, pub, ready, window, moved, service, reading, writes>>

(* HTTP_LCDFormRead: the header ...                                        *)
Readable == ready /\ ~window /\ pub.serial # 0

ReadHeader_Unready ==
  /\ lcd = "update"
  /\ ~window /\ pub.serial # 0
  /\ latest' = [pub EXCEPT !.page = NoPage]
  /\ moved' = FALSE
  /\ reading' = 1
  /\ lcd' = IF pub.paged THEN "values" ELSE "check"
  /\ UNCHANGED <<model, op, form, request, pub, ready, window, service, ui,
                 base, draft, writes>>
ReadHeader ==
  /\ lcd = "update"
  /\ Readable
  /\ latest' = [pub EXCEPT !.page = NoPage]
  /\ moved' = FALSE
  /\ reading' = 1
  /\ lcd' = IF pub.paged THEN "values" ELSE "check"
  /\ UNCHANGED <<model, op, form, request, pub, ready, window, service, ui,
                 base, draft, writes>>

ReadRefused ==
  /\ lcd = "update"
  /\ ~Readable
  /\ latest' = Zeroed
  /\ UNCHANGED <<model, shared, service, lcd, reading, ui, base, draft, writes>>

(* ... each value ...                                                      *)
ReadValue ==
  /\ lcd = "values"
  /\ latest' = [latest EXCEPT !.page[reading] = pub.page[reading]]
  /\ IF reading < N THEN reading' = reading + 1 /\ UNCHANGED lcd
                    ELSE lcd' = "check" /\ UNCHANGED reading
  /\ UNCHANGED <<model, shared, service, ui, base, draft, writes>>

(* ... and the verdict.  FormUpdate then takes the answer to its request   *)
(* and, while nothing is edited, the values themselves.                    *)
Answered(u, copy) ==
  IF u.pending /\ copy.status # "busy"
  THEN [u EXCEPT !.pending = FALSE, !.dirty = u.dirty /\ copy.status # "saved"]
  ELSE u

Adopts(u, copy) ==
  /\ ~u.dirty /\ ~u.pending /\ ~u.editing
  /\ \/ base.serial # copy.serial
     \/ base.hash # copy.hash
     \/ base.duty # copy.duty

Take(copy) ==
  LET u == Answered(ui, copy) IN
  IF copy.serial # ui.serial
  THEN UNCHANGED <<ui, base, draft>>
  ELSE /\ ui' = u
       /\ IF Adopts(u, copy) THEN base' = copy /\ draft' = copy
                             ELSE UNCHANGED <<base, draft>>

ReadCheck_Trusting ==
  /\ lcd = "check"
  /\ lcd' = "update" /\ reading' = 1 /\ moved' = FALSE
  /\ UNCHANGED latest
  /\ Take(latest)
  /\ UNCHANGED <<model, op, form, request, pub, ready, window, service, writes>>
ReadCheck ==
  /\ lcd = "check"
  /\ lcd' = "update" /\ reading' = 1 /\ moved' = FALSE
  /\ IF moved
     THEN latest' = Zeroed /\ UNCHANGED <<ui, base, draft>>
     ELSE UNCHANGED latest /\ Take(latest)
  /\ UNCHANGED <<model, op, form, request, pub, ready, window, service, writes>>

(* The user's fingers.                                                     *)
Responsive_WhilePending == lcd = "update" /\ base.serial = ui.serial
Responsive == lcd = "update" /\ ~ui.pending /\ base.serial = ui.serial
UserOnly == UNCHANGED <<model, shared, service, lcd, reading, latest, writes>>

StartEdit ==
  /\ Responsive /\ ~ui.editing /\ draft.paged
  /\ ui' = [ui EXCEPT !.editing = TRUE]
  /\ UNCHANGED <<base, draft>>
  /\ UserOnly

(* "Gotowe" or a chosen option changes one value or the duty; "Anuluj".    *)
FinishEdit ==
  /\ Responsive /\ ui.editing
  /\ \/ /\ \/ \E f \in Fields, v \in Vals : draft' = [draft EXCEPT !.page[f] = v]
           \/ draft.mode = Pwm /\ \E d \in Duties : draft' = [draft EXCEPT !.duty = d]
        /\ ui' = [ui EXCEPT !.editing = FALSE, !.dirty = TRUE]
     \/ ui' = [ui EXCEPT !.editing = FALSE] /\ UNCHANGED draft
  /\ UNCHANGED base
  /\ UserOnly

Discard ==
  /\ Responsive /\ ~ui.editing
  /\ latest.serial = ui.serial
  /\ base' = latest /\ draft' = latest
  /\ ui' = [ui EXCEPT !.dirty = FALSE]
  /\ UserOnly

(* HTTP_LCDFormSave.  Not accepted, it changes nothing.                    *)
Accepted == /\ base.paged /\ base.serial = form.serial
            /\ op = "none" /\ form.active

Asks(hash) == [port |-> draft.port, mode |-> draft.mode, page |-> draft.page,
               hash |-> hash, duty |-> draft.duty, dutyBase |-> base.duty,
               seen |-> base.page]

Save_NotBusy ==
  /\ Responsive /\ ~ui.editing /\ ui.dirty
  /\ Accepted
  /\ request' = Asks(base.hash)
  /\ op' = "save"
  /\ ui' = [ui EXCEPT !.pending = TRUE]
  /\ UNCHANGED <<model, form, pub, ready, window, moved, service, lcd, reading, copies, writes>>
Save_CurrentHash ==
  /\ Responsive /\ ~ui.editing /\ ui.dirty
  /\ Accepted
  /\ request' = Asks(pub.hash)
  /\ op' = "save"
  /\ pub' = [pub EXCEPT !.status = "busy"]
  /\ ui' = [ui EXCEPT !.pending = TRUE]
  /\ UNCHANGED <<model, form, ready, window, moved, service, lcd, reading, copies, writes>>
Save ==
  /\ Responsive /\ ~ui.editing /\ ui.dirty
  /\ Accepted
  /\ request' = Asks(base.hash)
  /\ op' = "save"
  /\ pub' = [pub EXCEPT !.status = "busy"]
  /\ ui' = [ui EXCEPT !.pending = TRUE]
  /\ UNCHANGED <<model, form, ready, window, moved, service, lcd, reading, copies, writes>>

-----------------------------------------------------------------------------
ServiceStep == \/ SvcStart \/ SvcCommit \/ SvcApply \/ SvcOpenWindow
               \/ SvcHeader \/ SvcValue \/ SvcSeal

LcdStep == \/ \E p \in Ports, m \in Modes : Open(p, m)
           \/ Leave
           \/ ReadHeader \/ ReadRefused \/ ReadValue \/ ReadCheck
           \/ StartEdit \/ FinishEdit \/ Discard \/ Save

Next == \/ ServiceStep
        \/ Rest
        \/ \E p \in Ports : Change(p)
        \/ LcdStep

Spec == Init /\ [][Next]_vars

(* The WiFi loop comes round and the screen is updated every 20 ms, so the *)
(* LCD gets to read in the 250 ms between two refreshes.  Nothing obliges  *)
(* the user to touch the screen.                                           *)
FairSpec == /\ Spec
            /\ WF_vars(ServiceStep)
            /\ SF_vars(ReadHeader /\ ~due /\ wifi = "main")
            /\ WF_vars(ReadValue \/ ReadCheck)

-----------------------------------------------------------------------------
(* Properties.                                                             *)

Loaded == lcd # "closed" /\ base.serial = ui.serial

(* What the editor shows is one snapshot of the page, never a mixture of   *)
(* two publications, and its hash is the hash of exactly these values:     *)
(* otherwise a save would overwrite values the user never saw.             *)
ShownIsSnapshot == Loaded /\ base.paged => base.page = base.hash

(* "SDRAM is NOLOAD on H7": a copy that survived a reset is never taken    *)
(* for a form of this run, on either side of the mailbox.                  *)
NothingRetained ==
  Loaded /\ base.paged => base.hash \in Pages /\ draft.page \in Pages

(* A save from the LCD takes effect only on the values the user saw, and   *)
(* "configuring an inactive type must never drive a live output": the duty *)
(* changes only where the port runs as PWM with the duty the user saw.     *)
CommitOverSeen ==
  [][SvcApply /\ model' # model =>
       LET was == model[request.port]
           is == model'[request.port] IN
       /\ was.page = request.seen
       /\ is.duty # was.duty => was.mode = Pwm /\ was.duty = request.dutyBase]_vars

(* The save that changes the settings is the draft on the screen: nothing  *)
(* the user did after pressing "Zapisz" and no second form leaks into it.  *)
CommitOfDraft ==
  [][SvcApply /\ model' # model /\ ui.pending =>
       /\ form.serial = ui.serial /\ request.port = draft.port
       /\ model'[draft.port].page = draft.page]_vars

(* The editor forgets that a draft was edited only when the user discards  *)
(* it or when the answer to this very save says that it is stored: never   *)
(* on the answer to an earlier save, which is still there to be read.      *)
DroppedDraftWasSaved ==
  [][ui.dirty /\ ~ui'.dirty /\ lcd' # "closed" =>
       \/ Discard
       \/ op = "none" /\ pub.status = "saved" /\ pub.serial = ui.serial]_vars

(* Whoever waits for a save is answered, also when the save was requested  *)
(* in the middle of a refresh.                                             *)
SaveAnswered == (lcd # "closed" /\ ui.pending) ~> (lcd = "closed" \/ ~ui.pending)

(* A form that stays on the screen gets its values.                        *)
FormLoads == lcd # "closed" ~> (lcd = "closed" \/ Loaded)
=============================================================================
