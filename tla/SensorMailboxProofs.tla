------------------------ MODULE SensorMailboxProofs ------------------------
(***************************************************************************)
(* Proofs about SensorMailbox for every number of ports and every set of   *)
(* values: a pending request is never replaced under the WiFi task,        *)
(* success is never readable before the values it stands for, memory not   *)
(* yet filled is never shown, no draft is dropped that was not saved, and  *)
(* the mailbox implements compare-and-set.                                 *)
(***************************************************************************)
EXTENDS SensorMailbox, TLAPS

(* The inductive invariant.  Handled: a request found by the poll stays    *)
(* pending until its answer.  Permitted: the save runs only on the         *)
(* settings the request was based on.  Copied: an LCD save that has not    *)
(* been copied back is still ahead of the copying loop.  ResultKnown: the  *)
(* copying loop runs with the answer already decided.  Filled: which ports *)
(* hold settings, and that only settings travel on to the editor and into  *)
(* a request.                                                              *)
InService == wifi \in {"compare", "save", "publish", "complete"}

Handled == /\ wifi \in {"compare", "save"} => processing /\ next = 1
           /\ InService /\ processing => state = "pending"
Permitted == wifi = "save" => model[request.port] = request.base
Copied == ~fresh => wifi = "publish" /\ processing /\ next <= request.port
ResultKnown == wifi \in {"publish", "complete"} /\ processing => result \in Outcomes
Control == Handled /\ Permitted /\ Copied /\ ResultKnown

Filled ==
  /\ \A p \in Ports :
       (ready \/ wifi = "complete" \/ (wifi = "publish" /\ p < next))
         => published[p] \in Vals
  /\ ui.initialized => ui.base \in Vals /\ ui.draft \in Vals
  /\ state = "pending" => request.base \in Vals /\ request.values \in Vals

IInv == TypeOK /\ Control /\ Filled

LEMMA InitEstablishes == Init => IInv
<1> SUFFICES ASSUME Init PROVE IInv
  OBVIOUS
<1> USE ConstantsAssumption
<1>1. 1 \in Ports
  BY DEF Ports
<1>2. ui \in Editors /\ request \in Requests
  BY <1>1 DEF Init, Editors, Requests, MaybeVals
<1>3. published \in [Ports -> MaybeVals]
  BY DEF Init, MaybeVals
<1>4. TypeOK
  BY <1>1, <1>2, <1>3, ZenonT(60) DEF Init, TypeOK
<1>5. Control
  BY DEF Init, Control, Handled, Permitted, Copied, ResultKnown, InService
<1>6. Filled
  BY <1>1 DEF Init, Filled
<1> QED
  BY <1>4, <1>5, <1>6 DEF IInv

-----------------------------------------------------------------------------
(* The steps of the WiFi task and of the UART, one lemma each.             *)

LEMMA SvcPollKeeps == ASSUME IInv, SvcPoll PROVE IInv'
<1> USE ConstantsAssumption
<1>1. TypeOK'
  BY DEF SvcPoll, IInv, TypeOK, Ports, MaybeVals, Requests, Outcomes, service, mailbox, editor,
         Control, Handled, Filled
<1>2. Control'
  BY DEF SvcPoll, IInv, TypeOK, Ports, MaybeVals, Requests, Outcomes, service, mailbox, editor,
         Control, Handled, Permitted, Copied, ResultKnown, InService
<1>3. Filled'
  BY DEF SvcPoll, IInv, TypeOK, Ports, MaybeVals, Requests, Outcomes, service, mailbox, editor, Editors,
         Control, Handled, Filled
<1> QED
  BY <1>1, <1>2, <1>3 DEF IInv

LEMMA SvcCompareKeeps == ASSUME IInv, SvcCompare PROVE IInv'
<1> USE ConstantsAssumption
<1>1. TypeOK'
  BY DEF SvcCompare, IInv, TypeOK, Ports, MaybeVals, Requests, Outcomes, service, mailbox, editor,
         Control, Handled, Filled
<1>2. Control'
  BY DEF SvcCompare, IInv, TypeOK, Ports, MaybeVals, Requests, Outcomes, service, mailbox, editor,
         Control, Handled, Permitted, Copied, ResultKnown, InService
<1>3. Filled'
  BY DEF SvcCompare, IInv, TypeOK, Ports, MaybeVals, Requests, Outcomes, service, mailbox, editor, Editors,
         Control, Handled, Filled
<1> QED
  BY <1>1, <1>2, <1>3 DEF IInv

LEMMA SvcSaveKeeps == ASSUME IInv, SvcSave PROVE IInv'
<1> USE ConstantsAssumption
<1>a. request.port \in Ports /\ request.values \in Vals
  BY DEF SvcSave, IInv, TypeOK, Requests, Control, Handled, InService, Filled
<1>b. model' \in [Ports -> Vals]
  BY <1>a DEF SvcSave, IInv, TypeOK
<1>c. result' \in Outcomes
  BY DEF SvcSave, Outcomes
<1>d. fresh' \in BOOLEAN
  BY ZenonT(30) DEF SvcSave, IInv, TypeOK
<1>1. TypeOK'
  BY <1>b, <1>c, <1>d, ZenonT(60) DEF SvcSave, IInv, TypeOK, service, mailbox, editor
<1>2. Control'
  BY DEF SvcSave, IInv, TypeOK, Ports, MaybeVals, Requests, Outcomes, service, mailbox, editor,
         Control, Handled, Permitted, Copied, ResultKnown, InService
<1>3. Filled'
  BY DEF SvcSave, IInv, TypeOK, Ports, MaybeVals, Requests, Outcomes, service, mailbox, editor, Editors,
         Control, Handled, Filled
<1> QED
  BY <1>1, <1>2, <1>3 DEF IInv

LEMMA SvcPublishKeeps == ASSUME IInv, SvcPublish PROVE IInv'
<1> USE ConstantsAssumption
<1>1. TypeOK'
  BY DEF SvcPublish, IInv, TypeOK, Ports, MaybeVals, Requests, Outcomes, service, mailbox, editor,
         Control, Handled, Filled
<1>2. Control'
  BY DEF SvcPublish, IInv, TypeOK, Ports, MaybeVals, Requests, Outcomes, service, mailbox, editor,
         Control, Handled, Permitted, Copied, ResultKnown, InService
<1>3. Filled'
  BY DEF SvcPublish, IInv, TypeOK, Ports, MaybeVals, Requests, Outcomes, service, mailbox, editor, Editors,
         Control, Handled, Filled
<1> QED
  BY <1>1, <1>2, <1>3 DEF IInv

LEMMA SvcCompleteKeeps == ASSUME IInv, SvcComplete PROVE IInv'
<1> USE ConstantsAssumption
<1>1. TypeOK'
  BY DEF SvcComplete, IInv, TypeOK, Ports, MaybeVals, Requests, Outcomes, service, mailbox, editor,
         Control, Handled, Filled
<1>2. Control'
  BY DEF SvcComplete, IInv, TypeOK, Ports, MaybeVals, Requests, Outcomes, service, mailbox, editor,
         Control, Handled, Permitted, Copied, ResultKnown, InService
<1>3. Filled'
  BY DEF SvcComplete, IInv, TypeOK, Ports, MaybeVals, Requests, Outcomes, service, mailbox, editor, Editors,
         Control, Handled, InService, Filled
<1> QED
  BY <1>1, <1>2, <1>3 DEF IInv

LEMMA WifiWakeKeeps == ASSUME IInv, WifiWake PROVE IInv'
<1> USE ConstantsAssumption
<1>1. TypeOK'
  BY ZenonT(60) DEF WifiWake, IInv, TypeOK, service, mailbox, editor
<1>2. Control'
  BY DEF WifiWake, IInv, TypeOK, Ports, MaybeVals, Requests, Outcomes, service, mailbox, editor,
         Control, Handled, Permitted, Copied, ResultKnown, InService
<1>3. Filled'
  BY DEF WifiWake, IInv, TypeOK, Ports, MaybeVals, Requests, Outcomes, service, mailbox, editor, Editors,
         Control, Handled, Filled
<1> QED
  BY <1>1, <1>2, <1>3 DEF IInv

LEMMA HttpSaveKeeps == ASSUME NEW p \in Ports, NEW v \in Vals, IInv, HttpSave(p, v) PROVE IInv'
<1> USE ConstantsAssumption
<1>1. TypeOK'
  BY DEF HttpSave, IInv, TypeOK, Ports, MaybeVals, Requests, Outcomes, service, mailbox, editor,
         Control, Handled, Filled
<1>2. Control'
  BY DEF HttpSave, IInv, TypeOK, Ports, MaybeVals, Requests, Outcomes, service, mailbox, editor,
         Control, Handled, Permitted, Copied, ResultKnown, InService
<1>3. Filled'
  BY DEF HttpSave, IInv, TypeOK, Ports, MaybeVals, Requests, Outcomes, service, mailbox, editor, Editors,
         Control, Handled, Filled
<1> QED
  BY <1>1, <1>2, <1>3 DEF IInv

LEMMA ServeDoneKeeps == ASSUME IInv, ServeDone PROVE IInv'
<1> USE ConstantsAssumption
<1>1. TypeOK'
  BY DEF ServeDone, IInv, TypeOK, Ports, MaybeVals, Requests, Outcomes, service, mailbox, editor,
         Control, Handled, Filled
<1>2. Control'
  BY DEF ServeDone, IInv, TypeOK, Ports, MaybeVals, Requests, Outcomes, service, mailbox, editor,
         Control, Handled, Permitted, Copied, ResultKnown, InService
<1>3. Filled'
  BY DEF ServeDone, IInv, TypeOK, Ports, MaybeVals, Requests, Outcomes, service, mailbox, editor, Editors,
         Control, Handled, Filled
<1> QED
  BY <1>1, <1>2, <1>3 DEF IInv

LEMMA UartNotifyKeeps == ASSUME IInv, UartNotify PROVE IInv'
<1> USE ConstantsAssumption
<1>1. TypeOK'
  BY DEF UartNotify, IInv, TypeOK, Ports, MaybeVals, Requests, Outcomes, service, mailbox, editor,
         Control, Handled, Filled
<1>2. Control'
  BY DEF UartNotify, IInv, TypeOK, Ports, MaybeVals, Requests, Outcomes, service, mailbox, editor,
         Control, Handled, Permitted, Copied, ResultKnown, InService
<1>3. Filled'
  BY DEF UartNotify, IInv, TypeOK, Ports, MaybeVals, Requests, Outcomes, service, mailbox, editor, Editors,
         Control, Handled, Filled
<1> QED
  BY <1>1, <1>2, <1>3 DEF IInv

-----------------------------------------------------------------------------
(* The steps of the LCD task.                                              *)

(* What an editor shows are settings.                                      *)
Shows(u) == u.base \in Vals /\ u.draft \in Vals

LEMMA ReloadedTyped ==
  ASSUME IInv, NEW u \in Editors, u.initialized => Shows(u)
  PROVE  /\ Reloaded(u) \in Editors
         /\ ready => Shows(Reloaded(u))
         /\ Reloaded(u).initialized => Shows(Reloaded(u))
<1>1. CASE ready
  <2>1. u.port \in Ports
    BY DEF Editors
  <2>2. published[u.port] \in Vals
    BY <1>1, <2>1, Zenon DEF IInv, Filled
  <2> QED
    BY <1>1, <2>2 DEF Reloaded, Editors, Shows, MaybeVals
<1>2. CASE ~ready
  BY <1>2 DEF Reloaded
<1> QED
  BY <1>1, <1>2

(* A step of the editor that sends nothing leaves the service alone.       *)
LEMMA EditorOnly ==
  ASSUME IInv, UNCHANGED model, UNCHANGED service, UNCHANGED mailbox, UNCHANGED fresh,
         notified' \in BOOLEAN,
         lcd' \in {"away", "update", "wake", "reload"},
         ui' \in Editors, ui'.initialized => Shows(ui')
  PROVE  IInv'
<1>1. TypeOK'
  BY ZenonT(60) DEF IInv, TypeOK, service, mailbox
<1>2. Control'
  BY DEF IInv, service, mailbox, Control, Handled, Permitted, Copied, ResultKnown, InService
<1>3. Filled'
  BY DEF IInv, service, mailbox, Filled, Shows
<1> QED
  BY <1>1, <1>2, <1>3 DEF IInv

LEMMA EnterKeeps == ASSUME NEW p \in Ports, IInv, Enter(p) PROVE IInv'
<1> DEFINE u == [ui EXCEPT !.port = p]
<1>1. u \in Editors /\ (u.initialized => Shows(u))
  BY DEF IInv, TypeOK, Filled, Editors, Shows
<1>2. Reloaded(u) \in Editors /\ (ready => Shows(Reloaded(u)))
  BY <1>1, ReloadedTyped
<1>3. ui' = [Reloaded(u) EXCEPT !.initialized = ready, !.dirty = FALSE, !.editing = FALSE]
  BY DEF Enter
<1> HIDE DEF u
<1>4. ready \in BOOLEAN
  BY DEF IInv, TypeOK
<1>5. ui' \in Editors /\ (ui'.initialized => Shows(ui'))
  BY <1>2, <1>3, <1>4 DEF Editors, Shows
<1>6. lcd' \in {"away", "update", "wake", "reload"}
  BY DEF Enter
<1>7. notified' \in BOOLEAN
  BY DEF Enter, IInv, TypeOK
<1> QED
  BY <1>5, <1>6, <1>7, EditorOnly, Zenon DEF Enter

LEMMA ExitKeeps == ASSUME IInv, Exit PROVE IInv'
<1>1. ui' \in Editors /\ (ui'.initialized => Shows(ui'))
  BY ConstantsAssumption
  DEF Exit, IInv, TypeOK, Filled, Editors, Shows, MaybeVals
<1>2. lcd' \in {"away", "update", "wake", "reload"}
  BY DEF Exit, IInv, TypeOK
<1>3. notified' \in BOOLEAN
  BY DEF Exit, IInv, TypeOK
<1> QED
  BY <1>1, <1>2, <1>3, EditorOnly, Zenon DEF Exit

LEMMA PollResultKeeps == ASSUME IInv, PollResult PROVE IInv'
<1>1. ui' \in Editors /\ (ui'.initialized => Shows(ui'))
  BY ConstantsAssumption
  DEF PollResult, IInv, TypeOK, Filled, Editors, Shows, MaybeVals
<1>2. lcd' \in {"away", "update", "wake", "reload"}
  BY DEF PollResult, IInv, TypeOK
<1>3. notified' \in BOOLEAN
  BY DEF PollResult, IInv, TypeOK
<1> QED
  BY <1>1, <1>2, <1>3, EditorOnly, Zenon DEF PollResult

LEMMA ReloadSavedKeeps == ASSUME IInv, ReloadSaved PROVE IInv'
<1>1. ui' \in Editors /\ (ui'.initialized => Shows(ui'))
  BY ReloadedTyped, ConstantsAssumption
  DEF ReloadSaved, IInv, TypeOK, Filled, Editors, Shows, MaybeVals
<1>2. lcd' \in {"away", "update", "wake", "reload"}
  BY DEF ReloadSaved, IInv, TypeOK
<1>3. notified' \in BOOLEAN
  BY DEF ReloadSaved, IInv, TypeOK
<1> QED
  BY <1>1, <1>2, <1>3, EditorOnly, Zenon DEF ReloadSaved

LEMMA AutoRefreshKeeps == ASSUME IInv, AutoRefresh PROVE IInv'
<1>1. ui' \in Editors /\ (ui'.initialized => Shows(ui'))
  BY ReloadedTyped, ConstantsAssumption
  DEF AutoRefresh, Responsive, IInv, TypeOK, Filled, Editors, Shows, MaybeVals
<1>2. lcd' \in {"away", "update", "wake", "reload"}
  BY DEF AutoRefresh, Responsive, IInv, TypeOK
<1>3. notified' \in BOOLEAN
  BY DEF AutoRefresh, IInv, TypeOK
<1> QED
  BY <1>1, <1>2, <1>3, EditorOnly, Zenon DEF AutoRefresh

LEMMA EditorOpenKeeps == ASSUME IInv, EditorOpen PROVE IInv'
<1>1. ui' \in Editors /\ (ui'.initialized => Shows(ui'))
  BY ConstantsAssumption
  DEF EditorOpen, Browsing, Responsive, IInv, TypeOK, Filled, Editors, Shows, MaybeVals
<1>2. lcd' \in {"away", "update", "wake", "reload"}
  BY DEF EditorOpen, Browsing, Responsive, IInv, TypeOK
<1>3. notified' \in BOOLEAN
  BY DEF EditorOpen, IInv, TypeOK
<1> QED
  BY <1>1, <1>2, <1>3, EditorOnly, Zenon DEF EditorOpen

LEMMA EditorCloseKeeps == ASSUME NEW v \in Vals, IInv, EditorClose(v) PROVE IInv'
<1>1. ui' \in Editors /\ (ui'.initialized => Shows(ui'))
  BY ConstantsAssumption
  DEF EditorClose, Responsive, IInv, TypeOK, Filled, Editors, Shows, MaybeVals
<1>2. lcd' \in {"away", "update", "wake", "reload"}
  BY DEF EditorClose, Responsive, IInv, TypeOK
<1>3. notified' \in BOOLEAN
  BY DEF EditorClose, IInv, TypeOK
<1> QED
  BY <1>1, <1>2, <1>3, EditorOnly, Zenon DEF EditorClose

LEMMA DiscardKeeps == ASSUME IInv, Discard PROVE IInv'
<1>1. ui' \in Editors /\ (ui'.initialized => Shows(ui'))
  BY ReloadedTyped, ConstantsAssumption
  DEF Discard, Browsing, Responsive, IInv, TypeOK, Filled, Editors, Shows, MaybeVals
<1>2. lcd' \in {"away", "update", "wake", "reload"}
  BY DEF Discard, Browsing, Responsive, IInv, TypeOK
<1>3. notified' \in BOOLEAN
  BY DEF Discard, IInv, TypeOK
<1> QED
  BY <1>1, <1>2, <1>3, EditorOnly, Zenon DEF Discard

LEMMA SubmitKeeps == ASSUME IInv, Submit PROVE IInv'
<1> USE ConstantsAssumption
<1>1. ui.port \in Ports /\ ui.base \in Vals /\ ui.draft \in Vals
  BY DEF Submit, Browsing, IInv, TypeOK, Editors, Filled
<1>2. /\ request' \in Requests
      /\ request'.base \in Vals /\ request'.values \in Vals
  BY <1>1 DEF Submit, Requests, MaybeVals
<1>3. TypeOK'
  BY <1>2, ZenonT(60) DEF Submit, IInv, TypeOK, service
<1>4. ~(InService /\ processing)
  BY DEF Submit, IInv, Control, Handled
<1>5. Control'
  BY <1>4 DEF Submit, IInv, service, Control, Handled, Permitted, Copied, ResultKnown,
              InService
<1>6. Filled'
  BY <1>2 DEF Submit, IInv, service, Filled
<1> QED
  BY <1>3, <1>5, <1>6 DEF IInv

LEMMA WakeKeeps == ASSUME IInv, Wake PROVE IInv'
<1>1. ui' \in Editors /\ (ui'.initialized => Shows(ui'))
  BY ConstantsAssumption
  DEF Wake, IInv, TypeOK, Filled, Editors, Shows, MaybeVals
<1>2. lcd' \in {"away", "update", "wake", "reload"}
  BY DEF Wake, IInv, TypeOK
<1>3. notified' \in BOOLEAN
  BY DEF Wake, IInv, TypeOK
<1> QED
  BY <1>1, <1>2, <1>3, EditorOnly, Zenon DEF Wake
-----------------------------------------------------------------------------
(* The theorems.                                                           *)

LEMMA StutterKeeps == ASSUME IInv, UNCHANGED vars PROVE IInv'
<1> USE DEF vars, service, mailbox, editor
<1>1. TypeOK'
  BY ZenonT(60) DEF IInv, TypeOK
<1>2. Control'
  BY DEF IInv, Control, Handled, Permitted, Copied, ResultKnown, InService
<1>3. Filled'
  BY DEF IInv, Filled
<1> QED
  BY <1>1, <1>2, <1>3 DEF IInv

LEMMA NextKeeps == IInv /\ [Next]_vars => IInv'
  BY SvcPollKeeps, SvcCompareKeeps, SvcSaveKeeps, SvcPublishKeeps, SvcCompleteKeeps,
     WifiWakeKeeps, HttpSaveKeeps, ServeDoneKeeps, UartNotifyKeeps,
     EnterKeeps, ExitKeeps, PollResultKeeps, ReloadSavedKeeps, AutoRefreshKeeps,
     EditorOpenKeeps, EditorCloseKeeps, DiscardKeeps, SubmitKeeps, WakeKeeps,
     StutterKeeps, Zenon
  DEF Next, WifiStep, ServiceStep, LcdStep

(* The invariant holds in every reachable state, for any number of ports.  *)
THEOREM Inductive == Spec => []IInv
<1> HIDE DEF IInv, Init, Next
<1> QED
  BY InitEstablishes, NextKeeps, PTL DEF Spec

(* Every variable of the mailbox, the service and the editor keeps its     *)
(* type.                                                                   *)
THEOREM TypeCorrect == Spec => []TypeOK
<1>1. IInv => TypeOK
  BY DEF IInv
<1> HIDE DEF IInv, TypeOK
<1> QED
  BY <1>1, Inductive, PTL

(* Success is readable only after the saved values are.                    *)
THEOREM SuccessAlwaysFresh == Spec => []SuccessIsFresh
<1>1. IInv => SuccessIsFresh
  BY DEF IInv, Control, Copied, Handled, InService, SuccessIsFresh
<1> HIDE DEF IInv, SuccessIsFresh
<1> QED
  BY <1>1, Inductive, PTL

(* Memory that was never filled reaches neither the screen nor a request.  *)
THEOREM NothingUnsetEver == Spec => []NothingUnset
<1>1. IInv => NothingUnset
  BY ConstantsAssumption DEF IInv, Filled, NothingUnset
<1> HIDE DEF IInv, NothingUnset
<1> QED
  BY <1>1, Inductive, PTL

(* A request under way is never replaced under the WiFi task.              *)
THEOREM RequestAlwaysStable == Spec => RequestStable
<1>1. IInv /\ [Next]_vars =>
        [processing /\ wifi \in {"compare", "save", "publish", "complete"}
           => request' = request]_vars
  <2> SUFFICES ASSUME IInv, [Next]_vars, processing, InService
               PROVE  request' = request
    BY DEF InService
  <2>1. state = "pending"
    BY DEF IInv, Control, Handled
  <2>2. ~Submit
    BY <2>1 DEF Submit
  <2> QED
    BY <2>2 DEF Next, WifiStep, ServiceStep, LcdStep, vars, mailbox, SvcPoll, SvcCompare,
       SvcSave, SvcPublish, SvcComplete, WifiWake, HttpSave, ServeDone, UartNotify,
       Enter, Exit, PollResult, ReloadSaved, AutoRefresh, EditorOpen, EditorClose,
       Discard, Wake
<1> HIDE DEF IInv, Next
<1> QED
  BY <1>1, Inductive, PTL DEF Spec, RequestStable

-----------------------------------------------------------------------------
(* Drafts.  Sent: from the accepted save to the end of the reload that     *)
(* follows its success, an edited draft on the screen is the one that was  *)
(* sent, also if the editor was left and entered again meanwhile.          *)
(* Reloading: success stays readable until the reload, since only a        *)
(* request under way is ever answered.                                     *)
Sent == (lcd \in {"wake", "reload"} \/ ui.pending) /\ ui.dirty
          => request.port = ui.port /\ request.values = ui.draft
Reloading == lcd = "reload" => state = "saved"
DraftOK == Sent /\ Reloading

LEMMA WifiKeepsDraft ==
  ASSUME IInv, DraftOK, WifiStep \/ UartNotify PROVE DraftOK'
<1>1. UNCHANGED <<lcd, ui, request>>
  BY DEF WifiStep, ServiceStep, SvcPoll, SvcCompare, SvcSave, SvcPublish, SvcComplete,
         WifiWake, HttpSave, ServeDone, UartNotify, mailbox, editor
<1>2. state = "saved" => state' = "saved"
  BY DEF IInv, Control, Handled, InService, WifiStep, ServiceStep, SvcPoll, SvcCompare,
         SvcSave, SvcPublish, SvcComplete, WifiWake, HttpSave, ServeDone, UartNotify,
         mailbox
<1> QED
  BY <1>1, <1>2 DEF DraftOK, Sent, Reloading

LEMMA LcdKeepsDraft ==
  ASSUME IInv, DraftOK, LcdStep PROVE DraftOK'
<1> USE DEF DraftOK, Sent, Reloading, IInv, TypeOK, Editors, Responsive, Browsing,
            mailbox, Reloaded
<1>1. CASE \E p \in Ports : Enter(p)
  BY <1>1 DEF Enter
<1>2. CASE Exit \/ PollResult \/ ReloadSaved
  BY <1>2 DEF Exit, PollResult, ReloadSaved
<1>3. CASE AutoRefresh \/ EditorOpen \/ Discard
  BY <1>3 DEF AutoRefresh, EditorOpen, Discard
<1>4. CASE \E v \in Vals : EditorClose(v)
  BY <1>4 DEF EditorClose
<1>5. CASE Submit
  BY <1>5 DEF Submit
<1>6. CASE Wake
  BY <1>6 DEF Wake
<1> QED
  BY <1>1, <1>2, <1>3, <1>4, <1>5, <1>6 DEF LcdStep

(* A draft that the editor gives up after "saved" is the draft that was    *)
(* saved, however visits, polls and the service interleave.                *)
THEOREM DraftNeverLost == Spec => []DroppedDraftWasSaved
<1>1. Init => DraftOK
  BY DEF Init, DraftOK, Sent, Reloading
<1>2. IInv /\ DraftOK /\ [Next]_vars => DraftOK'
  <2>1. UNCHANGED vars /\ DraftOK => DraftOK'
    BY DEF vars, mailbox, editor, DraftOK, Sent, Reloading
  <2> QED
    BY <2>1, WifiKeepsDraft, LcdKeepsDraft DEF Next
<1>3. DraftOK => DroppedDraftWasSaved
  BY DEF DraftOK, Sent, Reloading, DroppedDraftWasSaved
<1> HIDE DEF IInv, Init, Next, DraftOK, DroppedDraftWasSaved
<1> QED
  BY <1>1, <1>2, <1>3, Inductive, PTL DEF Spec

-----------------------------------------------------------------------------
(* The refinement: every step of the two tasks is a step of the            *)
(* compare-and-set register or leaves it alone.                            *)

LEMMA InitRefines == Init => Register!Init
  BY ConstantsAssumption
  DEF Init, Register!Init, Decided, Ports, Requests, MaybeVals

(* The poll, the copying and every step of the editor but Submit.          *)
Invisible == \/ SvcPoll \/ SvcPublish \/ WifiWake \/ ServeDone \/ UartNotify
             \/ \E p \in Ports : Enter(p)
             \/ Exit \/ PollResult \/ ReloadSaved \/ AutoRefresh \/ EditorOpen
             \/ \E v \in Vals : EditorClose(v)
             \/ Discard \/ Wake
             \/ UNCHANGED vars

LEMMA InvisibleStutters == ASSUME IInv, Invisible PROVE UNCHANGED Register!vars
<1>1. UNCHANGED <<model, request, state>>
  BY DEF Invisible, SvcPoll, SvcPublish, WifiWake, ServeDone, UartNotify, Enter, Exit,
     PollResult, ReloadSaved, AutoRefresh, EditorOpen, EditorClose, Discard, Wake,
     vars, service, mailbox, editor
<1>2. Decided' = Decided /\ (Decided => result' = result)
  BY DEF Invisible, SvcPoll, SvcPublish, WifiWake, ServeDone, UartNotify, Enter, Exit,
     PollResult, ReloadSaved, AutoRefresh, EditorOpen, EditorClose, Discard, Wake,
     vars, service, mailbox, editor, Decided, IInv, TypeOK, Control, Handled
<1> QED
  BY <1>1, <1>2 DEF Register!vars

LEMMA SvcCompareRefines == IInv /\ SvcCompare => [Register!Next]_Register!vars
<1> SUFFICES ASSUME IInv, SvcCompare PROVE [Register!Next]_Register!vars
  OBVIOUS
<1>1. state = "pending" /\ processing /\ ~Decided
  BY DEF IInv, Control, Handled, InService, SvcCompare, Decided
<1>2. CASE model[request.port] = request.base
  BY <1>1, <1>2 DEF SvcCompare, Decided, mailbox, Register!vars
<1>3. CASE model[request.port] # request.base
  BY <1>1, <1>3 DEF SvcCompare, Decided, mailbox, Register!Decline, Register!Next
<1> QED
  BY <1>2, <1>3

LEMMA SvcSaveRefines == IInv /\ SvcSave => [Register!Next]_Register!vars
<1> SUFFICES ASSUME IInv, SvcSave PROVE Register!Apply \/ Register!Fail
  BY DEF Register!Next
<1>1. /\ state = "pending" /\ processing /\ ~Decided
      /\ model[request.port] = request.base
  BY DEF IInv, Control, Handled, InService, Permitted, SvcSave, Decided
<1> QED
  BY <1>1 DEF SvcSave, Decided, mailbox, Register!Apply, Register!Fail

LEMMA SvcCompleteRefines == IInv /\ SvcComplete => [Register!Next]_Register!vars
<1> SUFFICES ASSUME IInv, SvcComplete PROVE [Register!Next]_Register!vars
  OBVIOUS
<1>1. CASE processing
  <2>1. Decided /\ result \in Outcomes
    BY <1>1 DEF IInv, Control, Handled, InService, ResultKnown, SvcComplete, Decided
  <2>2. Register!Deliver
    BY <1>1, <2>1 DEF SvcComplete, Decided, Outcomes, Register!Deliver
  <2> QED
    BY <2>2 DEF Register!Next
<1>2. CASE ~processing
  BY <1>2 DEF SvcComplete, Decided, Register!vars
<1> QED
  BY <1>1, <1>2

LEMMA HttpSaveRefines ==
  ASSUME NEW p \in Ports, NEW v \in Vals, HttpSave(p, v)
  PROVE  [Register!Next]_Register!vars
<1>1. Register!Write(p, v)
  BY DEF HttpSave, service, mailbox, Decided, Register!Write
<1> QED
  BY <1>1 DEF Register!Next

LEMMA SubmitRefines == IInv /\ Submit => [Register!Next]_Register!vars
<1> SUFFICES ASSUME IInv, Submit PROVE [Register!Next]_Register!vars
  OBVIOUS
<1>1. request' \in Requests
  BY SubmitKeeps DEF IInv, TypeOK
<1>2. state # "pending" /\ state' = "pending" /\ ~Decided /\ ~Decided'
  BY DEF IInv, Control, Handled, InService, Submit, service, Decided
<1>3. Register!Ask(request')
  BY <1>2 DEF Submit, Register!Ask
<1> QED
  BY <1>1, <1>3 DEF Register!Next

LEMMA StepRefines == IInv /\ [Next]_vars => [Register!Next]_Register!vars
<1> SUFFICES ASSUME IInv, [Next]_vars PROVE [Register!Next]_Register!vars
  OBVIOUS
<1>1. \/ Invisible \/ SvcCompare \/ SvcSave \/ SvcComplete \/ Submit
      \/ \E p \in Ports, v \in Vals : HttpSave(p, v)
  BY DEF Next, WifiStep, ServiceStep, LcdStep, Invisible
<1> QED
  BY <1>1, InvisibleStutters, SvcCompareRefines, SvcSaveRefines, SvcCompleteRefines,
     SubmitRefines, HttpSaveRefines, Zenon

(* The mailbox and its two tasks implement the compare-and-set register.   *)
THEOREM MailboxIsCompareAndSet == Spec => ImplementsCompareAndSet
<1> HIDE DEF IInv, Init, Next, Register!Init, Register!Next
<1> QED
  BY InitRefines, StepRefines, Inductive, PTL DEF Spec, ImplementsCompareAndSet, Register!Spec
=============================================================================
