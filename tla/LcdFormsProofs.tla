--------------------------- MODULE LcdFormsProofs ---------------------------
(***************************************************************************)
(* Theorems about LcdForms, for every number of ports and values, every    *)
(* table of routes and any number of writes from the WWW.                  *)
(***************************************************************************)
EXTENDS LcdForms, TLAPS

(***************************************************************************)
(* Types.                                                                  *)
(***************************************************************************)
LEMMA AnyPortIsPort == AnyPort \in Ports
BY ConstantsAssumption DEF AnyPort

LEMMA NoPageTyped == NoPage \in MaybePages
BY DEF NoPage, MaybePages

LEMMA ZeroedTyped == Zeroed \in Copies
<1>1. 0 \in Serials
  BY ConstantsAssumption DEF Serials
<1>. QED
  BY <1>1, ConstantsAssumption, AnyPortIsPort, NoPageTyped
     DEF Zeroed, Copies, Statuses

LEMMA RetainedTyped == Retained \in Copies
<1>1. 1 \in Serials
  BY ConstantsAssumption DEF Serials
<1>. QED
  BY <1>1, ZeroedTyped DEF Retained, Copies, Statuses

LEMMA NoRequestTyped == NoRequest \in Requests
BY ConstantsAssumption, AnyPortIsPort, NoPageTyped DEF NoRequest, Requests

LEMMA PagesAreMaybe == Pages \subseteq MaybePages
BY DEF Pages, MaybePages

LEMMA ReadingIsBoolean == Reading \in BOOLEAN
BY DEF Reading

LEMMA InitTyped == Init => TypeOK
<1>. SUFFICES ASSUME Init PROVE TypeOK
  OBVIOUS
<1>1. /\ ready \in BOOLEAN /\ window \in BOOLEAN /\ moved \in BOOLEAN
      /\ due \in BOOLEAN /\ inited \in BOOLEAN
  BY ZenonT(30) DEF Init
<1>2. model \in [Ports -> Cells]
  BY ConstantsAssumption DEF Init
<1>3. request \in Requests
  BY NoRequestTyped DEF Init
<1>4. pub \in Copies /\ base \in Copies /\ draft \in Copies /\ latest \in Copies
  BY ZeroedTyped, RetainedTyped DEF Init
<1>5. 0 \in Serials
  BY ConstantsAssumption DEF Serials
<1>6. form \in [serial : Serials, active : BOOLEAN, port : Ports, mode : Modes,
               baseMode : Modes]
  BY <1>5, ConstantsAssumption, AnyPortIsPort DEF Init
<1>7. ui \in [serial : Serials, dirty : BOOLEAN, pending : BOOLEAN, editing : BOOLEAN]
  BY <1>5 DEF Init
<1>8. svc \in [op : {"none", "open", "save"}, status : Statuses, next : Fields]
  BY ConstantsAssumption DEF Init, Idle, Statuses, Fields
<1>9. reading \in Fields /\ writes \in 0..MaxWrites
  BY ConstantsAssumption DEF Init, Fields
<1>. QED
  BY <1>1, <1>2, <1>3, <1>4, <1>6, <1>7, <1>8, <1>9 DEF Init, TypeOK

(***************************************************************************)
(* Every action keeps the types.                                           *)
(***************************************************************************)
FormType == [serial : Serials, active : BOOLEAN, port : Ports, mode : Modes,
             baseMode : Modes]
UiType == [serial : Serials, dirty : BOOLEAN, pending : BOOLEAN, editing : BOOLEAN]
SvcType == [op : {"none", "open", "save"}, status : Statuses, next : Fields]

USE DEF shared, service, copies, editor

LEMMA SvcStartTyped == TypeOK /\ SvcStart => TypeOK'
<1>. SUFFICES ASSUME TypeOK, SvcStart PROVE TypeOK'
  OBVIOUS
<1>1. pub' \in Copies
  BY ZeroedTyped DEF SvcStart, TypeOK, Copies
<1>2. svc' \in SvcType
  BY ConstantsAssumption DEF SvcStart, TypeOK, SvcType, Idle, Fields, Statuses
<1>3. due' \in BOOLEAN /\ inited' \in BOOLEAN
  BY ZenonT(30) DEF SvcStart
<1>. QED
  BY <1>1, <1>2, <1>3 DEF SvcStart, TypeOK, SvcType

LEMMA SvcCommitTyped == TypeOK /\ SvcCommit => TypeOK'
<1>. SUFFICES ASSUME TypeOK, SvcCommit PROVE TypeOK'
  OBVIOUS
<1>1. svc' \in SvcType
  BY DEF SvcCommit, TypeOK, SvcType, Statuses
<1>. QED
  BY <1>1 DEF SvcCommit, TypeOK, SvcType

LEMMA SvcApplyTyped == TypeOK /\ request.page \in Pages /\ SvcApply => TypeOK'
<1>. SUFFICES ASSUME TypeOK, request.page \in Pages, SvcApply PROVE TypeOK'
  OBVIOUS
<1>1. svc' \in SvcType
  BY DEF SvcApply, TypeOK, SvcType, Statuses
<1>2. \A cell \in Cells : Applied(cell, request) \in Cells
  BY DEF Applied, Cells, TypeOK, Requests
<1>3. model' \in [Ports -> Cells]
  <2>1. request.port \in Ports
    BY DEF TypeOK, Requests
  <2>. QED
    BY <1>2, <2>1 DEF SvcApply, TypeOK
<1>. QED
  BY <1>1, <1>3 DEF SvcApply, TypeOK, SvcType

LEMMA SvcOpenWindowTyped == TypeOK /\ SvcOpenWindow => TypeOK'
<1>. SUFFICES ASSUME TypeOK, SvcOpenWindow PROVE TypeOK'
  OBVIOUS
<1>1. window' \in BOOLEAN /\ moved' \in BOOLEAN
  BY ReadingIsBoolean, ZenonT(30) DEF SvcOpenWindow
<1>. QED
  BY <1>1 DEF SvcOpenWindow, TypeOK

LEMMA SvcHeaderTyped == TypeOK /\ SvcHeader => TypeOK'
<1>. SUFFICES ASSUME TypeOK, SvcHeader PROVE TypeOK'
  OBVIOUS
<1>1. (<<form.port, form.mode>> \in Routed) \in BOOLEAN
  OBVIOUS
<1>2. pub' \in Copies
  BY <1>1 DEF SvcHeader, TypeOK, Copies
<1>3. form' \in FormType
  BY DEF SvcHeader, TypeOK, FormType, Cells
<1>. QED
  BY <1>2, <1>3 DEF SvcHeader, TypeOK, FormType

LEMMA SvcValueTyped == TypeOK /\ SvcValue => TypeOK'
<1>. SUFFICES ASSUME TypeOK, SvcValue PROVE TypeOK'
  OBVIOUS
<1>1. svc' \in SvcType
  BY ConstantsAssumption DEF SvcValue, TypeOK, SvcType, Statuses, Fields
<1>2. pub' \in Copies
  <2>. DEFINE cell == model[pub.port]
              paged == [pub EXCEPT !.page[svc.next] = cell.page[svc.next]]
              full == [pub EXCEPT !.page[svc.next] = cell.page[svc.next],
                                  !.hash = cell.page, !.duty = cell.duty]
  <2>1. cell.page \in Pages /\ cell.page \in MaybePages /\ cell.duty \in Duties
    BY PagesAreMaybe DEF TypeOK, Copies, Cells
  <2>2. [pub.page EXCEPT ![svc.next] = cell.page[svc.next]] \in MaybePages
    BY <2>1 DEF TypeOK, Copies, MaybePages, Pages
  <2>3. paged \in Copies /\ full \in Copies
    BY <2>1, <2>2 DEF TypeOK, Copies
  <2>4. pub' \in {pub, paged, full}
    BY DEF SvcValue
  <2>. QED
    BY <2>3, <2>4 DEF TypeOK
<1>. QED
  BY <1>1, <1>2 DEF SvcValue, TypeOK, SvcType

LEMMA SvcSealTyped == TypeOK /\ SvcSeal => TypeOK'
<1>. SUFFICES ASSUME TypeOK, SvcSeal PROVE TypeOK'
  OBVIOUS
<1>1. svc' \in SvcType
  BY ConstantsAssumption DEF SvcSeal, Idle, SvcType, Statuses, Fields
<1>2. pub' \in Copies
  BY DEF SvcSeal, TypeOK, Copies
<1>3. ready' \in BOOLEAN /\ window' \in BOOLEAN /\ moved' \in BOOLEAN
  BY ReadingIsBoolean, ZenonT(30) DEF SvcSeal
<1>4. request' \in Requests
  BY NoRequestTyped DEF SvcSeal, TypeOK
<1>. QED
  BY <1>1, <1>2, <1>3, <1>4 DEF SvcSeal, TypeOK, SvcType

LEMMA RestTyped == TypeOK /\ Rest => TypeOK'
<1>. SUFFICES ASSUME TypeOK, Rest PROVE TypeOK'
  OBVIOUS
<1>1. due' \in BOOLEAN
  BY ZenonT(30) DEF Rest
<1>. QED
  BY <1>1 DEF Rest, TypeOK

LEMMA ChangeTyped == ASSUME NEW p \in Ports
                     PROVE  TypeOK /\ Change(p) => TypeOK'
<1>. SUFFICES ASSUME TypeOK, Change(p) PROVE TypeOK'
  OBVIOUS
<1>1. model' \in [Ports -> Cells]
  BY DEF Change, TypeOK, Cells
<1>2. writes' \in 0..MaxWrites
  BY ConstantsAssumption DEF Change, TypeOK
<1>. QED
  BY <1>1, <1>2 DEF Change, TypeOK

LEMMA OpenTyped == ASSUME NEW p \in Ports, NEW m \in Modes
                   PROVE  TypeOK /\ Open(p, m) => TypeOK'
<1>. SUFFICES ASSUME TypeOK, Open(p, m) PROVE TypeOK'
  OBVIOUS
<1>1. NextSerial \in Serials
  BY ConstantsAssumption DEF NextSerial, TypeOK, Serials
<1>2. form' \in FormType
  BY <1>1 DEF Open, TypeOK, FormType
<1>3. ui' \in UiType
  BY <1>1 DEF Open, UiType
<1>4. base' \in Copies /\ draft' \in Copies /\ latest' \in Copies
  BY ZeroedTyped DEF Open
<1>. QED
  BY <1>2, <1>3, <1>4 DEF Open, TypeOK, FormType, UiType

LEMMA LeaveTyped == TypeOK /\ Leave => TypeOK'
<1>. SUFFICES ASSUME TypeOK, Leave PROVE TypeOK'
  OBVIOUS
<1>1. form' \in FormType
  BY DEF Leave, TypeOK, FormType
<1>2. ui' \in UiType
  BY DEF Leave, TypeOK, UiType
<1>3. base' \in Copies /\ draft' \in Copies /\ latest' \in Copies
  BY ZeroedTyped DEF Leave
<1>. QED
  BY <1>1, <1>2, <1>3 DEF Leave, TypeOK, FormType, UiType

LEMMA ReadHeaderTyped == TypeOK /\ ReadHeader => TypeOK'
<1>. SUFFICES ASSUME TypeOK, ReadHeader PROVE TypeOK'
  OBVIOUS
<1>1. latest' \in Copies
  BY NoPageTyped DEF ReadHeader, TypeOK, Copies
<1>2. moved' \in BOOLEAN
  BY ZenonT(30) DEF ReadHeader
<1>3. reading' \in Fields
  BY ConstantsAssumption DEF ReadHeader, Fields
<1>. QED
  BY <1>1, <1>2, <1>3 DEF ReadHeader, TypeOK

LEMMA ReadRefusedTyped == TypeOK /\ ReadRefused => TypeOK'
BY ZeroedTyped DEF ReadRefused, TypeOK

LEMMA ReadValueTyped == TypeOK /\ ReadValue => TypeOK'
<1>. SUFFICES ASSUME TypeOK, ReadValue PROVE TypeOK'
  OBVIOUS
<1>1. [latest.page EXCEPT ![reading] = pub.page[reading]] \in MaybePages
  BY DEF TypeOK, Copies, MaybePages
<1>2. latest' \in Copies
  BY <1>1 DEF ReadValue, TypeOK, Copies
<1>3. reading' \in Fields
  BY ConstantsAssumption DEF ReadValue, TypeOK, Fields
<1>. QED
  BY <1>2, <1>3 DEF ReadValue, TypeOK

LEMMA TakeTyped == TypeOK /\ Take(latest)
                     => ui' \in UiType /\ base' \in Copies /\ draft' \in Copies
<1>. SUFFICES ASSUME TypeOK, Take(latest)
              PROVE  ui' \in UiType /\ base' \in Copies /\ draft' \in Copies
  OBVIOUS
<1>1. Answered(ui, latest) \in UiType
  BY DEF Answered, TypeOK, UiType
<1>. QED
  BY <1>1 DEF Take, TypeOK, UiType

LEMMA ReadCheckTyped == TypeOK /\ ReadCheck => TypeOK'
<1>. SUFFICES ASSUME TypeOK, ReadCheck PROVE TypeOK'
  OBVIOUS
<1>1. ui' \in UiType /\ base' \in Copies /\ draft' \in Copies
  BY TakeTyped DEF ReadCheck, TypeOK, UiType
<1>2. moved' \in BOOLEAN
  BY ZenonT(30) DEF ReadCheck
<1>3. latest' \in Copies
  BY ZeroedTyped DEF ReadCheck, TypeOK
<1>4. reading' \in Fields
  BY ConstantsAssumption DEF ReadCheck, Fields
<1>. QED
  BY <1>1, <1>2, <1>3, <1>4 DEF ReadCheck, TypeOK, UiType

LEMMA StartEditTyped == TypeOK /\ StartEdit => TypeOK'
<1>. SUFFICES ASSUME TypeOK, StartEdit PROVE TypeOK'
  OBVIOUS
<1>1. ui' \in UiType
  BY DEF StartEdit, TypeOK, UiType
<1>. QED
  BY <1>1 DEF StartEdit, UserOnly, TypeOK, UiType

LEMMA FinishEditTyped == TypeOK /\ FinishEdit => TypeOK'
<1>. SUFFICES ASSUME TypeOK, FinishEdit PROVE TypeOK'
  OBVIOUS
<1>1. ui' \in UiType
  BY DEF FinishEdit, TypeOK, UiType
<1>2. \A f \in Fields, v \in Vals : [draft.page EXCEPT ![f] = v] \in MaybePages
  BY DEF TypeOK, Copies, MaybePages
<1>3. draft' \in Copies
  BY <1>2 DEF FinishEdit, TypeOK, Copies
<1>. QED
  BY <1>1, <1>3 DEF FinishEdit, UserOnly, TypeOK, UiType

LEMMA DiscardTyped == TypeOK /\ Discard => TypeOK'
<1>. SUFFICES ASSUME TypeOK, Discard PROVE TypeOK'
  OBVIOUS
<1>1. ui' \in UiType
  BY DEF Discard, TypeOK, UiType
<1>. QED
  BY <1>1 DEF Discard, UserOnly, TypeOK, UiType

LEMMA SaveTyped == TypeOK /\ Save => TypeOK'
<1>. SUFFICES ASSUME TypeOK, Save PROVE TypeOK'
  OBVIOUS
<1>1. request' \in Requests
  BY DEF Save, Asks, TypeOK, Requests, Copies
<1>2. pub' \in Copies
  BY DEF Save, TypeOK, Copies, Statuses
<1>3. ui' \in UiType
  BY DEF Save, TypeOK, UiType
<1>. QED
  BY <1>1, <1>2, <1>3 DEF Save, TypeOK, UiType

LEMMA StutterTyped == TypeOK /\ UNCHANGED vars => TypeOK'
BY DEF TypeOK, vars
(***************************************************************************)
(* The inductive invariant.                                                *)
(***************************************************************************)

(* The window is open exactly while the copy is being rewritten; a save    *)
(* that is being committed is still the request in the mailbox.            *)
ServiceOK ==
  /\ wifi \in {"header", "values", "seal"} => window
  /\ window => wifi \in {"header", "values", "seal"}
  /\ ready => inited
  /\ wifi # "main" => inited
  /\ wifi \notin {"values", "seal"} => svc.next = 1
  /\ wifi \in {"commit", "apply"} => svc.op = "save"
  /\ svc.op # "none" => op = svc.op
  /\ wifi = "apply" => MayCommit(model[request.port], request)

(* Behind an even revision lies one snapshot; the values copied so far     *)
(* behind an odd one are those of the model, which does not move.          *)
CopyIsSnapshot(copy) == copy.paged => copy.page = copy.hash /\ copy.hash \in Pages

PublishedOK ==
  /\ wifi = "values" /\ pub.paged =>
       \A f \in Fields : f < svc.next => pub.page[f] = model[pub.port].page[f]
  /\ wifi = "seal" \/ (ready /\ ~window) => CopyIsSnapshot(pub)

(* A read whose revision has not moved has copied what is published.       *)
Agree(copy, f) == copy.page[f] = pub.page[f]

ReaderOK ==
  /\ Reading /\ ~moved =>
       /\ ready /\ ~window
       /\ latest.serial = pub.serial /\ latest.status = pub.status
       /\ latest.paged = pub.paged /\ latest.hash = pub.hash
       /\ lcd = "values" => latest.paged
       /\ lcd = "values" => \A f \in Fields : f < reading => Agree(latest, f)
       /\ lcd = "check" /\ latest.paged => \A f \in Fields : Agree(latest, f)
  /\ lcd = "update" => CopyIsSnapshot(latest)
  /\ lcd # "closed" /\ latest.serial # 0 => ready

EditorOK ==
  /\ lcd = "closed" => ~ui.dirty
  /\ lcd # "closed" => ui.serial # 0
  /\ base.paged => base.page = base.hash
  /\ lcd # "closed" /\ base.serial # 0 => ready
  /\ lcd # "closed" /\ base.serial # 0 /\ base.paged
       => base.hash \in Pages /\ draft.page \in Pages

(* A save is busy until it is answered, asks for complete values, names    *)
(* what the user saw, and is the draft for as long as the editor waits.    *)
RequestOK ==
  /\ op = "save" =>
       /\ ready /\ pub.status = "busy"
       /\ request.page \in Pages
       /\ request.hash = request.seen
  /\ ui.pending =>
       /\ lcd # "closed" /\ op # "open"
       /\ op = "save" => /\ form.serial = ui.serial
                         /\ request.port = draft.port
                         /\ request.page = draft.page

IInv == TypeOK /\ ServiceOK /\ PublishedOK /\ ReaderOK /\ EditorOK /\ RequestOK

LEMMA SvcStartStep == IInv /\ SvcStart => IInv'
<1>. SUFFICES ASSUME IInv, SvcStart PROVE IInv'
  OBVIOUS
<1>1. TypeOK'
  BY SvcStartTyped DEF IInv
<1>2. ServiceOK'
  BY DEF IInv, ServiceOK, SvcStart, Idle
<1>3. PublishedOK'
  BY DEF IInv, PublishedOK, SvcStart, Zeroed, CopyIsSnapshot
<1>4. ReaderOK'
  <2>1. CASE inited
    BY <2>1 DEF IInv, ReaderOK, SvcStart, Reading, CopyIsSnapshot, Agree
  <2>2. CASE ~inited
    <3>1. ~ready
      BY <2>2 DEF IInv, ServiceOK
    <3>. QED
      BY <3>1 DEF IInv, ReaderOK, SvcStart, Reading, CopyIsSnapshot
  <2>. QED
    BY <2>1, <2>2
<1>5. EditorOK'
  BY DEF IInv, EditorOK, SvcStart
<1>6. RequestOK'
  <2>1. CASE inited
    BY <2>1 DEF IInv, RequestOK, SvcStart
  <2>2. CASE ~inited
    <3>1. ~ready
      BY <2>2 DEF IInv, ServiceOK
    <3>. QED
      BY <3>1 DEF IInv, RequestOK, SvcStart
  <2>. QED
    BY <2>1, <2>2
<1>. QED
  BY <1>1, <1>2, <1>3, <1>4, <1>5, <1>6 DEF IInv

LEMMA SvcCommitStep == IInv /\ SvcCommit => IInv'
<1>. SUFFICES ASSUME IInv, SvcCommit PROVE IInv'
  OBVIOUS
<1>1. TypeOK'
  BY SvcCommitTyped DEF IInv
<1>2. ServiceOK'
  BY DEF IInv, TypeOK, ServiceOK, SvcCommit, MayCommit
<1>3. PublishedOK'
  BY DEF IInv, PublishedOK, SvcCommit
<1>4. ReaderOK'
  BY DEF IInv, ReaderOK, SvcCommit, Reading, Agree
<1>5. EditorOK'
  BY DEF IInv, EditorOK, SvcCommit
<1>6. RequestOK'
  BY DEF IInv, RequestOK, SvcCommit
<1>. QED
  BY <1>1, <1>2, <1>3, <1>4, <1>5, <1>6 DEF IInv

LEMMA SvcApplyStep == IInv /\ SvcApply => IInv'
<1>. SUFFICES ASSUME IInv, SvcApply PROVE IInv'
  OBVIOUS
<1>1. TypeOK'
  BY SvcApplyTyped DEF IInv, ServiceOK, RequestOK, SvcApply
<1>2. ServiceOK'
  BY DEF IInv, ServiceOK, SvcApply
<1>3. PublishedOK'
  BY DEF IInv, PublishedOK, SvcApply
<1>4. ReaderOK'
  BY DEF IInv, ReaderOK, SvcApply, Reading, Agree
<1>5. EditorOK'
  BY DEF IInv, EditorOK, SvcApply
<1>6. RequestOK'
  BY DEF IInv, RequestOK, SvcApply
<1>. QED
  BY <1>1, <1>2, <1>3, <1>4, <1>5, <1>6 DEF IInv

LEMMA SvcOpenWindowStep == IInv /\ SvcOpenWindow => IInv'
<1>. SUFFICES ASSUME IInv, SvcOpenWindow PROVE IInv'
  OBVIOUS
<1>1. TypeOK'
  BY SvcOpenWindowTyped DEF IInv
<1>2. ServiceOK'
  BY DEF IInv, ServiceOK, SvcOpenWindow
<1>3. PublishedOK'
  <2>1. svc.next = 1 /\ \A f \in Fields : ~(f < 1)
    BY ConstantsAssumption DEF IInv, ServiceOK, SvcOpenWindow, Fields
  <2>. QED
    BY <2>1 DEF SvcOpenWindow, PublishedOK
<1>4. ReaderOK'
  BY DEF IInv, ReaderOK, SvcOpenWindow, Reading
<1>5. EditorOK'
  BY DEF IInv, EditorOK, SvcOpenWindow
<1>6. RequestOK'
  BY DEF IInv, RequestOK, SvcOpenWindow
<1>. QED
  BY <1>1, <1>2, <1>3, <1>4, <1>5, <1>6 DEF IInv

LEMMA SvcHeaderStep == IInv /\ SvcHeader => IInv'
<1>. SUFFICES ASSUME IInv, SvcHeader PROVE IInv'
  OBVIOUS
<1>1. TypeOK'
  BY SvcHeaderTyped DEF IInv
<1>2. ServiceOK'
  BY DEF IInv, ServiceOK, SvcHeader
<1>3. PublishedOK'
  <2>1. svc.next = 1 /\ window /\ \A f \in Fields : ~(f < 1)
    BY ConstantsAssumption DEF IInv, ServiceOK, SvcHeader, Fields
  <2>. QED
    BY <2>1 DEF SvcHeader, PublishedOK
<1>4. ReaderOK'
  <2>1. window
    BY DEF IInv, ServiceOK, SvcHeader
  <2>. QED
    BY <2>1 DEF IInv, ReaderOK, SvcHeader, Reading, CopyIsSnapshot
<1>5. EditorOK'
  BY DEF IInv, EditorOK, SvcHeader
<1>6. RequestOK'
  BY DEF IInv, RequestOK, SvcHeader
<1>. QED
  BY <1>1, <1>2, <1>3, <1>4, <1>5, <1>6 DEF IInv

LEMMA SvcValueStep == IInv /\ SvcValue => IInv'
<1>. SUFFICES ASSUME IInv, SvcValue PROVE IInv'
  OBVIOUS
<1>1. TypeOK'
  BY SvcValueTyped DEF IInv
<1>2. ServiceOK'
  BY DEF IInv, TypeOK, ServiceOK, SvcValue
<1>3. PublishedOK'
  <2>. DEFINE i == svc.next
              cell == model[pub.port]
  <2>1. /\ i \in Fields /\ i \in Nat /\ N \in Nat /\ window
        /\ pub \in Copies /\ pub.page \in MaybePages
        /\ cell.page \in Pages
    BY ConstantsAssumption
       DEF IInv, TypeOK, ServiceOK, SvcValue, Copies, Cells, Fields
  <2>2. CASE ~pub.paged
    BY <2>1, <2>2 DEF SvcValue, PublishedOK, CopyIsSnapshot
  <2>3. CASE pub.paged /\ i < N
    <3>1. /\ pub'.port = pub.port /\ pub'.page = [pub.page EXCEPT ![i] = cell.page[i]]
          /\ svc'.next = i + 1 /\ wifi' = "values" /\ window' /\ model' = model
      BY <2>1, <2>3 DEF SvcValue, Copies, IInv, TypeOK
    <3>2. ASSUME NEW f \in Fields, f < i + 1
          PROVE  pub'.page[f] = model'[pub'.port].page[f]
      <4>1. f < i \/ f = i
        BY <2>1, <3>2 DEF Fields
      <4>. QED
        BY <2>1, <2>3, <3>1, <4>1 DEF IInv, PublishedOK, SvcValue, MaybePages
    <3>. QED
      BY <3>1, <3>2 DEF PublishedOK
  <2>4. CASE pub.paged /\ ~(i < N)
    <3>1. /\ pub'.page = [pub.page EXCEPT ![i] = cell.page[i]]
          /\ pub'.hash = cell.page /\ wifi' = "seal"
      BY <2>1, <2>4 DEF SvcValue, Copies
    <3>2. ASSUME NEW f \in Fields
          PROVE  pub'.page[f] = cell.page[f]
      <4>1. f < i \/ f = i
        BY <2>1, <2>4 DEF Fields
      <4>. QED
        BY <2>1, <2>4, <3>1, <4>1 DEF IInv, PublishedOK, SvcValue, MaybePages
    <3>3. pub'.page = cell.page
      BY <2>1, <3>1, <3>2 DEF MaybePages, Pages
    <3>. QED
      BY <2>1, <3>1, <3>3 DEF PublishedOK, CopyIsSnapshot
  <2>. QED
    BY <2>2, <2>3, <2>4
<1>4. ReaderOK'
  <2>1. window
    BY DEF IInv, ServiceOK, SvcValue
  <2>. QED
    BY <2>1 DEF IInv, ReaderOK, SvcValue, Reading, CopyIsSnapshot
<1>5. EditorOK'
  BY DEF IInv, EditorOK, SvcValue
<1>6. RequestOK'
  <2>1. pub'.status = pub.status
    BY DEF SvcValue, IInv, TypeOK, Copies
  <2>. QED
    BY <2>1 DEF IInv, RequestOK, SvcValue
<1>. QED
  BY <1>1, <1>2, <1>3, <1>4, <1>5, <1>6 DEF IInv

LEMMA SvcSealStep == IInv /\ SvcSeal => IInv'
<1>. SUFFICES ASSUME IInv, SvcSeal PROVE IInv'
  OBVIOUS
<1>1. TypeOK'
  BY SvcSealTyped DEF IInv
<1>2. ServiceOK'
  BY DEF IInv, ServiceOK, SvcSeal, Idle
<1>3. PublishedOK'
  BY DEF IInv, PublishedOK, SvcSeal, CopyIsSnapshot
<1>4. ReaderOK'
  BY DEF IInv, ReaderOK, SvcSeal, Reading
<1>5. EditorOK'
  BY DEF IInv, EditorOK, SvcSeal
<1>6. RequestOK'
  BY DEF IInv, RequestOK, SvcSeal
<1>. QED
  BY <1>1, <1>2, <1>3, <1>4, <1>5, <1>6 DEF IInv

LEMMA RestStep == IInv /\ Rest => IInv'
<1>. SUFFICES ASSUME IInv, Rest PROVE IInv'
  OBVIOUS
<1>1. TypeOK'
  BY RestTyped DEF IInv
<1>2. ServiceOK'
  BY DEF IInv, ServiceOK, Rest
<1>3. PublishedOK'
  BY DEF IInv, PublishedOK, Rest
<1>4. ReaderOK'
  BY DEF IInv, ReaderOK, Rest, Reading
<1>5. EditorOK'
  BY DEF IInv, EditorOK, Rest
<1>6. RequestOK'
  BY DEF IInv, RequestOK, Rest
<1>. QED
  BY <1>1, <1>2, <1>3, <1>4, <1>5, <1>6 DEF IInv

LEMMA ChangeStep == ASSUME NEW p \in Ports
 PROVE IInv /\ Change(p) => IInv'
<1>. SUFFICES ASSUME IInv, Change(p) PROVE IInv'
  OBVIOUS
<1>1. TypeOK'
  BY ChangeTyped DEF IInv
<1>2. ServiceOK'
  BY DEF IInv, ServiceOK, Change
<1>3. PublishedOK'
  BY DEF IInv, PublishedOK, Change
<1>4. ReaderOK'
  BY DEF IInv, ReaderOK, Change, Reading, Agree
<1>5. EditorOK'
  BY DEF IInv, EditorOK, Change
<1>6. RequestOK'
  BY DEF IInv, RequestOK, Change
<1>. QED
  BY <1>1, <1>2, <1>3, <1>4, <1>5, <1>6 DEF IInv

LEMMA OpenStep == ASSUME NEW p \in Ports, NEW m \in Modes
 PROVE IInv /\ Open(p, m) => IInv'
<1>. SUFFICES ASSUME IInv, Open(p, m) PROVE IInv'
  OBVIOUS
<1>1. TypeOK'
  BY OpenTyped DEF IInv
<1>2. ServiceOK'
  BY DEF IInv, ServiceOK, Open
<1>3. PublishedOK'
  BY DEF IInv, PublishedOK, Open
<1>4. ReaderOK'
  BY DEF ReaderOK, Open, Zeroed, Reading, CopyIsSnapshot
<1>5. EditorOK'
  <2>1. NextSerial # 0
    BY ConstantsAssumption DEF IInv, TypeOK, NextSerial, Serials
  <2>. QED
    BY <2>1 DEF EditorOK, Open, Zeroed
<1>6. RequestOK'
  BY DEF RequestOK, Open
<1>. QED
  BY <1>1, <1>2, <1>3, <1>4, <1>5, <1>6 DEF IInv

LEMMA LeaveStep == IInv /\ Leave => IInv'
<1>. SUFFICES ASSUME IInv, Leave PROVE IInv'
  OBVIOUS
<1>1. TypeOK'
  BY LeaveTyped DEF IInv
<1>2. ServiceOK'
  BY DEF IInv, ServiceOK, Leave, MayCommit
<1>3. PublishedOK'
  BY DEF IInv, PublishedOK, Leave
<1>4. ReaderOK'
  BY DEF ReaderOK, Leave, Reading
<1>5. EditorOK'
  BY DEF EditorOK, Leave, Zeroed
<1>6. RequestOK'
  BY DEF IInv, RequestOK, Leave
<1>. QED
  BY <1>1, <1>2, <1>3, <1>4, <1>5, <1>6 DEF IInv

LEMMA ReadHeaderStep == IInv /\ ReadHeader => IInv'
<1>. SUFFICES ASSUME IInv, ReadHeader PROVE IInv'
  OBVIOUS
<1>1. TypeOK'
  BY ReadHeaderTyped DEF IInv
<1>2. ServiceOK'
  BY DEF IInv, ServiceOK, ReadHeader, MayCommit
<1>3. PublishedOK'
  BY DEF IInv, PublishedOK, ReadHeader
<1>4. ReaderOK'
  <2>1. /\ latest'.serial = pub.serial /\ latest'.status = pub.status
        /\ latest'.paged = pub.paged /\ latest'.hash = pub.hash
        /\ pub' = pub /\ ready' /\ ~window' /\ lcd' \in {"values", "check"}
        /\ lcd' = "values" => latest'.paged
        /\ lcd' = "check" => ~latest'.paged
        /\ reading' = 1
    BY DEF ReadHeader, Readable, IInv, TypeOK, Copies
  <2>2. \A f \in Fields : ~(f < 1)
    BY ConstantsAssumption DEF Fields
  <2>. QED
    BY <2>1, <2>2 DEF ReaderOK
<1>5. EditorOK'
  BY DEF IInv, EditorOK, ReadHeader
<1>6. RequestOK'
  BY DEF IInv, RequestOK, ReadHeader
<1>. QED
  BY <1>1, <1>2, <1>3, <1>4, <1>5, <1>6 DEF IInv

LEMMA ReadRefusedStep == IInv /\ ReadRefused => IInv'
<1>. SUFFICES ASSUME IInv, ReadRefused PROVE IInv'
  OBVIOUS
<1>1. TypeOK'
  BY ReadRefusedTyped DEF IInv
<1>2. ServiceOK'
  BY DEF IInv, ServiceOK, ReadRefused, MayCommit
<1>3. PublishedOK'
  BY DEF IInv, PublishedOK, ReadRefused
<1>4. ReaderOK'
  BY DEF ReaderOK, ReadRefused, Zeroed, Reading, CopyIsSnapshot
<1>5. EditorOK'
  BY DEF IInv, EditorOK, ReadRefused
<1>6. RequestOK'
  BY DEF IInv, RequestOK, ReadRefused
<1>. QED
  BY <1>1, <1>2, <1>3, <1>4, <1>5, <1>6 DEF IInv

LEMMA ReadValueStep == IInv /\ ReadValue => IInv'
<1>. SUFFICES ASSUME IInv, ReadValue PROVE IInv'
  OBVIOUS
<1>1. TypeOK'
  BY ReadValueTyped DEF IInv
<1>2. ServiceOK'
  BY DEF IInv, ServiceOK, ReadValue, MayCommit
<1>3. PublishedOK'
  BY DEF IInv, PublishedOK, ReadValue
<1>4. ReaderOK'
  <2>1. /\ reading \in Fields /\ reading \in Nat /\ N \in Nat
        /\ latest.page \in MaybePages
    BY ConstantsAssumption DEF IInv, TypeOK, Copies, Fields
  <2>2. /\ latest'.serial = latest.serial /\ latest'.status = latest.status
        /\ latest'.paged = latest.paged /\ latest'.hash = latest.hash
        /\ latest'.page = [latest.page EXCEPT ![reading] = pub.page[reading]]
        /\ pub' = pub /\ ready' = ready /\ window' = window /\ moved' = moved
        /\ lcd' \in {"values", "check"} /\ Reading
        /\ lcd' = "values" => reading < N /\ reading' = reading + 1
        /\ lcd' = "check" => ~(reading < N)
    BY DEF ReadValue, IInv, TypeOK, Copies, Reading
  <2>3. CASE moved
    BY <2>2, <2>3 DEF IInv, ReaderOK, ReadValue
  <2>4. CASE ~moved
    <3>1. ASSUME NEW f \in Fields, f < reading \/ f = reading
          PROVE  Agree(latest, f)'
      BY <2>1, <2>2, <2>4, <3>1 DEF IInv, ReaderOK, Agree, ReadValue, MaybePages
    <3>2. CASE lcd' = "values"
      <4>1. \A f \in Fields : f < reading' => f < reading \/ f = reading
        BY <2>1, <2>2, <3>2 DEF Fields
      <4>. QED
        BY <2>2, <2>4, <3>1, <3>2, <4>1 DEF IInv, ReaderOK, ReadValue
    <3>3. CASE lcd' = "check"
      <4>1. \A f \in Fields : f < reading \/ f = reading
        BY <2>1, <2>2, <3>3 DEF Fields
      <4>. QED
        BY <2>2, <2>4, <3>1, <3>3, <4>1 DEF IInv, ReaderOK, ReadValue
    <3>. QED
      BY <2>2, <3>2, <3>3
  <2>. QED
    BY <2>3, <2>4
<1>5. EditorOK'
  BY DEF IInv, EditorOK, ReadValue
<1>6. RequestOK'
  BY DEF IInv, RequestOK, ReadValue
<1>. QED
  BY <1>1, <1>2, <1>3, <1>4, <1>5, <1>6 DEF IInv

(* What the verdict of a read lets through is a snapshot.                  *)
LEMMA VerdictIsSound ==
  IInv /\ lcd = "check" /\ ~moved => CopyIsSnapshot(latest) /\ ready
<1>. SUFFICES ASSUME IInv, lcd = "check", ~moved
              PROVE  CopyIsSnapshot(latest) /\ ready
  OBVIOUS
<1>1. /\ ready /\ ~window
      /\ latest.paged = pub.paged /\ latest.hash = pub.hash
      /\ latest.paged => \A f \in Fields : latest.page[f] = pub.page[f]
  BY DEF IInv, ReaderOK, Reading, Agree
<1>2. latest.page \in MaybePages /\ pub.page \in MaybePages
  BY DEF IInv, TypeOK, Copies
<1>3. latest.paged => latest.page = pub.page
  BY <1>1, <1>2 DEF MaybePages
<1>. QED
  BY <1>1, <1>3 DEF IInv, PublishedOK, CopyIsSnapshot

LEMMA ReadCheckStep == IInv /\ ReadCheck => IInv'
<1>. SUFFICES ASSUME IInv, ReadCheck PROVE IInv'
  OBVIOUS
<1>1. TypeOK'
  BY ReadCheckTyped DEF IInv
<1>2. ServiceOK'
  BY DEF IInv, ServiceOK, ReadCheck, MayCommit
<1>3. PublishedOK'
  BY DEF IInv, PublishedOK, ReadCheck
<1>4. ReaderOK'
  <2>1. lcd' = "update" /\ ready' = ready
    BY DEF ReadCheck
  <2>2. CASE moved
    <3>1. latest'.serial = 0 /\ ~latest'.paged
      BY <2>2 DEF ReadCheck, Zeroed
    <3>. QED
      BY <2>1, <3>1 DEF ReaderOK, Reading, CopyIsSnapshot
  <2>3. CASE ~moved
    <3>1. latest' = latest /\ CopyIsSnapshot(latest) /\ ready
      BY <2>3, VerdictIsSound DEF ReadCheck
    <3>. QED
      BY <2>1, <3>1 DEF ReaderOK, Reading, CopyIsSnapshot
  <2>. QED
    BY <2>2, <2>3
<1>5. EditorOK'
  <2>1. lcd' = "update" /\ ready' = ready /\ lcd = "check"
    BY DEF ReadCheck
  <2>2. ui'.serial = ui.serial
    BY DEF ReadCheck, Take, Answered, IInv, TypeOK
  <2>3. CASE base' = base /\ draft' = draft
    BY <2>1, <2>2, <2>3 DEF IInv, EditorOK
  <2>4. CASE ~moved /\ base' = latest /\ draft' = latest
    BY <2>1, <2>2, <2>4, VerdictIsSound DEF IInv, EditorOK, CopyIsSnapshot
  <2>. QED
    BY <2>3, <2>4 DEF ReadCheck, Take
<1>6. RequestOK'
  BY DEF IInv, TypeOK, RequestOK, ReadCheck, Take, Answered, Adopts
<1>. QED
  BY <1>1, <1>2, <1>3, <1>4, <1>5, <1>6 DEF IInv

LEMMA StartEditStep == IInv /\ StartEdit => IInv'
<1>. SUFFICES ASSUME IInv, StartEdit PROVE IInv'
  OBVIOUS
<1>1. TypeOK'
  BY StartEditTyped DEF IInv
<1>2. ServiceOK'
  BY DEF IInv, ServiceOK, StartEdit, UserOnly, MayCommit
<1>3. PublishedOK'
  BY DEF IInv, PublishedOK, StartEdit, UserOnly
<1>4. ReaderOK'
  BY DEF IInv, ReaderOK, StartEdit, UserOnly, Responsive, Reading
<1>5. EditorOK'
  BY DEF IInv, EditorOK, StartEdit, UserOnly
<1>6. RequestOK'
  BY DEF IInv, RequestOK, StartEdit, UserOnly
<1>. QED
  BY <1>1, <1>2, <1>3, <1>4, <1>5, <1>6 DEF IInv

LEMMA FinishEditStep == IInv /\ FinishEdit => IInv'
<1>. SUFFICES ASSUME IInv, FinishEdit PROVE IInv'
  OBVIOUS
<1>1. TypeOK'
  BY FinishEditTyped DEF IInv
<1>2. ServiceOK'
  BY DEF IInv, ServiceOK, FinishEdit, UserOnly, MayCommit
<1>3. PublishedOK'
  BY DEF IInv, PublishedOK, FinishEdit, UserOnly
<1>4. ReaderOK'
  BY DEF IInv, ReaderOK, FinishEdit, UserOnly, Responsive, Reading
<1>5. EditorOK'
  <2>1. draft.page \in Pages => draft'.page \in Pages
    <3>1. ASSUME draft.page \in Pages, NEW f \in Fields, NEW v \in Vals
          PROVE  [draft.page EXCEPT ![f] = v] \in Pages
      BY <3>1 DEF Pages
    <3>. QED
      BY <3>1 DEF FinishEdit, IInv, TypeOK, Copies
  <2>2. ui'.serial = ui.serial
    BY DEF FinishEdit, IInv, TypeOK
  <2>. QED
    BY <2>1, <2>2 DEF FinishEdit, Responsive, UserOnly, IInv, EditorOK
<1>6. RequestOK'
  BY DEF IInv, TypeOK, RequestOK, FinishEdit, UserOnly, Responsive
<1>. QED
  BY <1>1, <1>2, <1>3, <1>4, <1>5, <1>6 DEF IInv

LEMMA DiscardStep == IInv /\ Discard => IInv'
<1>. SUFFICES ASSUME IInv, Discard PROVE IInv'
  OBVIOUS
<1>1. TypeOK'
  BY DiscardTyped DEF IInv
<1>2. ServiceOK'
  BY DEF IInv, ServiceOK, Discard, UserOnly, MayCommit
<1>3. PublishedOK'
  BY DEF IInv, PublishedOK, Discard, UserOnly
<1>4. ReaderOK'
  BY DEF IInv, ReaderOK, Discard, UserOnly, Responsive, Reading
<1>5. EditorOK'
  <2>1. ui'.serial = ui.serial
    BY DEF Discard, IInv, TypeOK
  <2>2. lcd = "update" /\ CopyIsSnapshot(latest) /\ ready
    BY DEF Discard, Responsive, IInv, ReaderOK, EditorOK
  <2>. QED
    BY <2>1, <2>2 DEF Discard, UserOnly, IInv, EditorOK, CopyIsSnapshot
<1>6. RequestOK'
  BY DEF IInv, RequestOK, Discard, UserOnly, Responsive
<1>. QED
  BY <1>1, <1>2, <1>3, <1>4, <1>5, <1>6 DEF IInv

LEMMA SaveStep == IInv /\ Save => IInv'
<1>. SUFFICES ASSUME IInv, Save PROVE IInv'
  OBVIOUS
<1>1. TypeOK'
  BY SaveTyped DEF IInv
<1>2. ServiceOK'
  BY DEF IInv, ServiceOK, Save, Accepted
<1>3. PublishedOK'
  BY DEF IInv, PublishedOK, Save, CopyIsSnapshot
<1>4. ReaderOK'
  BY DEF IInv, ReaderOK, Save, Responsive, Reading
<1>5. EditorOK'
  BY DEF IInv, TypeOK, EditorOK, Save
<1>6. RequestOK'
  <2>1. /\ lcd = "update" /\ base.serial = ui.serial /\ base.paged
        /\ form.serial = ui.serial
    BY DEF Save, Responsive, Accepted
  <2>2. ready /\ draft.page \in Pages /\ base.page = base.hash
    BY <2>1 DEF IInv, EditorOK
  <2>3. /\ pub'.status = "busy" /\ ui'.serial = ui.serial
        /\ request'.page = draft.page /\ request'.port = draft.port
        /\ request'.hash = request'.seen
    BY <2>2 DEF Save, Asks, IInv, TypeOK, Copies
  <2>. QED
    BY <2>1, <2>2, <2>3 DEF Save, RequestOK
<1>. QED
  BY <1>1, <1>2, <1>3, <1>4, <1>5, <1>6 DEF IInv

LEMMA InitStep == Init => IInv
<1>. SUFFICES ASSUME Init PROVE IInv
  OBVIOUS
<1>1. /\ ~pub.paged \/ pub = Retained
      /\ Retained.page = Retained.hash
  BY DEF Init, Zeroed, Retained
<1>2. base.paged => base.page = base.hash
  BY <1>1 DEF Init
<1>3. ServiceOK
  BY DEF Init, ServiceOK, Idle
<1>4. PublishedOK
  BY DEF Init, PublishedOK
<1>5. ReaderOK
  BY DEF Init, ReaderOK, Reading
<1>6. EditorOK
  BY <1>2 DEF Init, EditorOK
<1>7. RequestOK
  BY DEF Init, RequestOK
<1>. QED
  BY InitTyped, <1>3, <1>4, <1>5, <1>6, <1>7 DEF IInv

LEMMA StutterStep == IInv /\ UNCHANGED vars => IInv'
BY StutterTyped
   DEF IInv, vars, ServiceOK, PublishedOK, ReaderOK, EditorOK, RequestOK, Reading,
       CopyIsSnapshot, Agree, MayCommit, DutyChanged

(***************************************************************************)
(* The theorems.                                                           *)
(***************************************************************************)

(* The invariant of service, published copy, reader and editor is kept by  *)
(* every step of both tasks.                                               *)
THEOREM Inductive == Spec => []IInv
<1>1. IInv /\ [Next]_vars => IInv'
  <2>. SUFFICES ASSUME IInv, [Next]_vars PROVE IInv'
    OBVIOUS
  <2>1. CASE ServiceStep
    BY <2>1, SvcStartStep, SvcCommitStep, SvcApplyStep, SvcOpenWindowStep,
       SvcHeaderStep, SvcValueStep, SvcSealStep DEF ServiceStep
  <2>2. CASE Rest
    BY <2>2, RestStep
  <2>3. CASE \E p \in Ports : Change(p)
    BY <2>3, ChangeStep
  <2>4. CASE LcdStep
    BY <2>4, OpenStep, LeaveStep, ReadHeaderStep, ReadRefusedStep, ReadValueStep,
       ReadCheckStep, StartEditStep, FinishEditStep, DiscardStep, SaveStep
       DEF LcdStep
  <2>5. CASE UNCHANGED vars
    BY <2>5, StutterStep
  <2>. QED
    BY <2>1, <2>2, <2>3, <2>4, <2>5 DEF Next
<1>. QED
  BY InitStep, <1>1, PTL DEF Spec

(* Every variable keeps its type: in particular the settings only ever     *)
(* take complete pages, never memory nobody has written.                   *)
THEOREM TypeCorrect == Spec => []TypeOK
<1>1. IInv => TypeOK
  BY DEF IInv
<1>. QED
  BY <1>1, Inductive, PTL

(* The editor never shows a mixture of two publications.                   *)
THEOREM SnapshotAlways == Spec => []ShownIsSnapshot
<1>1. IInv => ShownIsSnapshot
  BY DEF IInv, EditorOK, ShownIsSnapshot
<1>. QED
  BY <1>1, Inductive, PTL

(* Memory that survived a reset never reaches the editor's values.         *)
THEOREM NothingRetainedEver == Spec => []NothingRetained
<1>1. IInv => NothingRetained
  BY DEF IInv, EditorOK, NothingRetained, Loaded
<1>. QED
  BY <1>1, Inductive, PTL

(* A step that changes the settings from the LCD is a commit of the        *)
(* request in the mailbox.                                                 *)
LEMMA ApplyEffect ==
  ASSUME IInv, SvcApply, model' # model
  PROVE  /\ op = "save"
         /\ MayCommit(model[request.port], request)
         /\ request.port \in Ports
         /\ model' = [model EXCEPT ![request.port] =
                                Applied(model[request.port], request)]
         /\ model[request.port] \in Cells
BY DEF SvcApply, IInv, ServiceOK, TypeOK, Requests

(* No save from the LCD takes effect on values, a mode or a duty other     *)
(* than those the user saw.                                                *)
THEOREM AlwaysOverSeen == Spec => CommitOverSeen
<1>1. ASSUME IInv, SvcApply, model' # model
      PROVE  LET was == model[request.port]
                 is == model'[request.port] IN
             /\ was.page = request.seen
             /\ is.duty # was.duty => was.mode = Pwm /\ was.duty = request.dutyBase
  <2>1. model'[request.port] = Applied(model[request.port], request)
    BY <1>1, ApplyEffect DEF IInv, TypeOK
  <2>2. model[request.port].page = request.seen
    BY <1>1, ApplyEffect DEF MayCommit, IInv, RequestOK
  <2>. QED
    BY <1>1, <2>1, <2>2, ApplyEffect DEF Applied, MayCommit, Cells
<1>2. IInv /\ [Next]_vars =>
        [SvcApply /\ model' # model =>
           LET was == model[request.port]
               is == model'[request.port] IN
           /\ was.page = request.seen
           /\ is.duty # was.duty => was.mode = Pwm /\ was.duty = request.dutyBase]_vars
  BY <1>1
<1>. QED
  BY <1>2, Inductive, PTL DEF Spec, CommitOverSeen

(* What is committed while the editor waits is the draft on its screen.    *)
THEOREM AlwaysTheDraft == Spec => CommitOfDraft
<1>1. ASSUME IInv, SvcApply, model' # model, ui.pending
      PROVE  /\ form.serial = ui.serial /\ request.port = draft.port
             /\ model'[draft.port].page = draft.page
  <2>1. model'[request.port] = Applied(model[request.port], request)
    BY <1>1, ApplyEffect DEF IInv, TypeOK
  <2>2. /\ form.serial = ui.serial /\ request.port = draft.port
        /\ request.page = draft.page
    BY <1>1, ApplyEffect DEF IInv, RequestOK
  <2>. QED
    BY <1>1, <2>1, <2>2, ApplyEffect DEF Applied, Cells
<1>2. IInv /\ [Next]_vars =>
        [SvcApply /\ model' # model /\ ui.pending =>
           /\ form.serial = ui.serial /\ request.port = draft.port
           /\ model'[draft.port].page = draft.page]_vars
  BY <1>1
<1>. QED
  BY <1>2, Inductive, PTL DEF Spec, CommitOfDraft

(* The editor forgets a draft only on the answer to its own save, on       *)
(* "Anuluj", or when the form is left.                                     *)
THEOREM DraftAlwaysSafe == Spec => DroppedDraftWasSaved
<1>. DEFINE Kept == \/ Discard
                    \/ op = "none" /\ pub.status = "saved" /\ pub.serial = ui.serial
<1>1. ASSUME IInv, Next, ui.dirty, ~ui'.dirty, lcd' # "closed"
      PROVE  Kept
  <2>1. CASE ReadCheck
    <3>1. ~moved /\ lcd = "check" /\ Take(latest)
      BY <1>1, <2>1 DEF ReadCheck
    <3>2. latest.serial = pub.serial /\ latest.status = pub.status
      BY <1>1, <3>1 DEF IInv, ReaderOK, Reading
    <3>3. latest.serial = ui.serial /\ ui.pending /\ latest.status = "saved"
      BY <1>1, <3>1 DEF Take, Answered, IInv, TypeOK
    <3>4. op \notin {"save", "open"}
      BY <1>1, <3>2, <3>3 DEF IInv, RequestOK
    <3>. QED
      BY <1>1, <3>2, <3>3, <3>4 DEF IInv, TypeOK
  <2>2. ASSUME NEW p \in Ports, NEW m \in Modes, Open(p, m)
        PROVE  FALSE
    <3>1. lcd = "closed"
      BY <2>2 DEF Open
    <3>. QED
      BY <1>1, <3>1 DEF IInv, EditorOK
  <2>3. CASE ServiceStep \/ Rest \/ (\E p \in Ports : Change(p))
    <3>1. ui' = ui
      BY <2>3 DEF ServiceStep, SvcStart, SvcCommit, SvcApply, SvcOpenWindow,
                  SvcHeader, SvcValue, SvcSeal, Rest, Change
    <3>. QED
      BY <1>1, <3>1
  <2>4. CASE Leave
    BY <1>1, <2>4 DEF Leave
  <2>5. CASE ReadHeader \/ ReadRefused \/ ReadValue
    BY <1>1, <2>5 DEF ReadHeader, ReadRefused, ReadValue
  <2>6. CASE StartEdit \/ FinishEdit \/ Save
    BY <1>1, <2>6 DEF StartEdit, FinishEdit, Save, IInv, TypeOK
  <2>. QED
    BY <1>1, <2>1, <2>2, <2>3, <2>4, <2>5, <2>6 DEF Next, LcdStep
<1>2. IInv /\ [Next]_vars =>
        [ui.dirty /\ ~ui'.dirty /\ lcd' # "closed" => Kept]_vars
  BY <1>1
<1>. QED
  BY <1>2, Inductive, PTL DEF Spec, DroppedDraftWasSaved
=============================================================================
