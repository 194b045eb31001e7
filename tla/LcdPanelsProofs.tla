-------------------------- MODULE LcdPanelsProofs --------------------------
(***************************************************************************)
(* Theorems about LcdPanels, for any ports, modes, names and bounds: the   *)
(* header "saved" is true, and for the modes and for the names the page is *)
(* a DraftBatch.                                                           *)
(***************************************************************************)
EXTENDS LcdPanels, FiniteSetTheorems, WellFoundedInduction, TLAPS

(* The types but for the outputs, and serials without a bound.             *)
Types ==
  /\ table \in [Cells -> Vals]
  /\ outcome \in [Kinds -> Outcomes]
  /\ batch \in [Kinds -> Batches \cup {None}]
  /\ copy \in Copies \cup {None}
  /\ draft \in [Cells -> Drafts \cup {None}]
  /\ data \in Copies
  /\ saving \in [Kinds -> Nat]
  /\ nextSerial \in Nat
  /\ saved \in BOOLEAN
  /\ saveError \in BOOLEAN
  /\ lcd \in LcdLabels

(* The save button, from the press until both serials are known.           *)
Button == {"askMode", "wakeMode", "askName", "wakeName"}
WakeAt(k) == IF k = "mode" THEN "wakeMode" ELSE "wakeName"

(* The serial the screen waits for: it is returned after the wake-up.      *)
Serial(k) == IF lcd = WakeAt(k) THEN nextSerial ELSE saving[k]
Edits(k) == [c \in Cells |-> IF c[1] = k THEN draft[c] ELSE None]

(* A batch is the drafts of a save that is waited for; without one the     *)
(* answer is there.                                                        *)
BatchOK(k) ==
  /\ batch[k] # None =>
       /\ Waiting(k)
       /\ batch[k].edits = Edits(k)
       /\ batch[k].serial = Serial(k)
       /\ outcome[k].serial < Serial(k)
  /\ Waiting(k) /\ batch[k] = None => outcome[k].serial = Serial(k)

(* Serials only grow, and the copy is never ahead of the service.          *)
SerialsOK(k) ==
  /\ outcome[k].serial <= nextSerial
  /\ saving[k] <= nextSerial
  /\ lcd = WakeAt(k) => saving[k] = 0 /\ nextSerial > 0
  /\ copy # None =>
       /\ copy.outcome[k].serial <= outcome[k].serial
       /\ copy.outcome[k].serial = outcome[k].serial =>
            copy.outcome[k].ok = outcome[k].ok

(* What the button has done so far; once it is done, while anything is     *)
(* waited for, every kind with drafts is, or the header shows the error.   *)
ButtonOK ==
  /\ lcd \in Button => ~saved
  /\ lcd \in {"askMode", "wakeMode"} =>
       saving["mode"] = 0 /\ saving["name"] = 0 /\ HasDrafts("mode")
  /\ lcd \in {"askName", "wakeName"} =>
       /\ saving["name"] = 0 /\ HasDrafts("name")
       /\ HasDrafts("mode") => saving["mode"] # 0 \/ saveError
  /\ lcd \notin Button /\ Saving =>
       \A k \in Kinds : HasDrafts(k) => saving[k] # 0 \/ saveError
  /\ lcd = "entered" => data.outcome = NoOutcome

PanelInv == /\ Types
            /\ \A k \in Kinds : BatchOK(k) /\ SerialsOK(k)
            /\ ButtonOK
            /\ SavedMeansAll

-----------------------------------------------------------------------------
(* Most steps leave what the invariant is about alone.                     *)
core == <<table, outcome, batch, copy, draft, saving, nextSerial, saved, saveError>>

Cleared == [cells |-> BlankTable, outcome |-> NoOutcome]

Quiet ==
  /\ UNCHANGED core
  /\ \/ UNCHANGED <<data, lcd>>
     \/ /\ lcd \notin Button /\ lcd' \in LcdLabels \ Button
        /\ \/ lcd' # "entered" /\ data' = data
           \/ data' = Cleared

Reads ==
  /\ lcd \notin Button /\ lcd' = "ready"
  /\ \/ copy # None /\ data' = copy
     \/ data' = data /\ data.outcome = NoOutcome
  /\ Completed(data'.outcome)
  /\ UNCHANGED <<table, outcome, batch, copy, nextSerial>>

LEMMA Steps ==
  ASSUME PanelInv, [Next]_vars
  PROVE  \/ Quiet
         \/ \E c \in Cells : \E v \in ValsOf[c[1]] : HttpSave(c, v)
         \/ SvcModes \/ SvcNames \/ SvcPublish
         \/ Reads
         \/ \E c \in Cells : EditCell(c)
         \/ SaveButton \/ AskModes \/ WakeModes \/ AskNames \/ WakeNames
<1> USE DEF core, owned, outputs, screen, editor
<1>1. CASE UNCHANGED vars
  BY <1>1 DEF Quiet, vars
<1>2. CASE WifiStep
  <2>1. ASSUME NEW o \in Outputs, SvcTake(o) PROVE Quiet
    BY <2>1 DEF Quiet, SvcTake
  <2>2. CASE SvcApply
    BY <2>2 DEF Quiet, SvcApply
  <2>3. CASE SvcIdle \/ SvcWanted \/ TimedOut \/ Woken \/ ServeDone \/ UartNotify
    BY <2>3 DEF Quiet, SvcIdle, SvcWanted, TimedOut, Woken, ServeDone, UartNotify
  <2> QED
    BY <1>2, <2>1, <2>2, <2>3 DEF WifiStep, ServiceStep
<1>3. CASE HttpOutput
  BY <1>3 DEF Quiet, HttpOutput, HttpToggle, HttpPwm, ServeOnly
<1>4. CASE LcdStep
  <2> USE DEF wifiSide
  <2>1. CASE Enter
    BY <2>1 DEF Quiet, Enter, Button, LcdLabels, Cleared
  <2>2. CASE Entered
    BY <2>2 DEF Reads, Entered, Button, PanelInv, ButtonOK
  <2>3. CASE Exit
    BY <2>3 DEF Quiet, Exit, Button, LcdLabels
  <2>4. CASE Update
    BY <2>4 DEF Reads, Update, Button
  <2>5. CASE OutputStep
    BY <2>5 DEF Quiet, OutputStep, Press, Slide, Release, Button, LcdLabels
  <2>6. CASE WakeOutputs
    BY <2>6 DEF Quiet, WakeOutputs, Button, LcdLabels
  <2> QED
    BY <1>4, <2>1, <2>2, <2>3, <2>4, <2>5, <2>6 DEF LcdStep, LcdRuns
<1> QED
  BY <1>1, <1>2, <1>3, <1>4 DEF Next

-----------------------------------------------------------------------------
(* The invariant holds at first, and in every step.                        *)
LEMMA BlankIsTable == BlankTable \in [Cells -> Vals]
BY ConstantsAssumption DEF BlankTable, Vals, Kinds

LEMMA InitOK ==
  ASSUME Init
  PROVE  PanelInv
<1>1. Types
  <2>1. table \in [Cells -> Vals]
    BY ConstantsAssumption DEF Init, Tables
  <2>2. /\ NoOutcome \in [Kinds -> Outcomes]
        /\ BlankTable \in [Cells -> Vals]
    BY BlankIsTable DEF NoOutcome, Outcomes
  <2>3. data \in Copies
    BY <2>2 DEF Init, Copies
  <2> QED
    BY <2>1, <2>2, <2>3 DEF Init, Types, NoDrafts, LcdLabels
<1>2. \A k \in Kinds : BatchOK(k) /\ SerialsOK(k)
  BY DEF Init, BatchOK, SerialsOK, Waiting, NoOutcome, WakeAt
<1>3. ButtonOK /\ SavedMeansAll
  BY DEF Init, ButtonOK, SavedMeansAll, Button, Saving
<1> QED
  BY <1>1, <1>2, <1>3 DEF PanelInv

LEMMA QuietOK ==
  ASSUME PanelInv, Quiet
  PROVE  PanelInv'
<1> USE DEF PanelInv
<1>1. Types'
  <2>1. Cleared \in Copies
    BY BlankIsTable DEF Cleared, Copies, NoOutcome, Outcomes
  <2> QED
    BY <2>1 DEF Types, Quiet, core
<1>2. ASSUME NEW k \in Kinds PROVE BatchOK(k)' /\ SerialsOK(k)'
  <2>1. (lcd = WakeAt(k))' <=> lcd = WakeAt(k)
    BY DEF Quiet, Button, WakeAt
  <2>2. BatchOK(k)'
    BY <2>1 DEF BatchOK, Quiet, core, Waiting, Serial, Edits, WakeAt
  <2>3. SerialsOK(k)'
    BY <2>1 DEF SerialsOK, Quiet, core
  <2> QED
    BY <2>2, <2>3
<1>3. ButtonOK'
  BY DEF ButtonOK, Quiet, core, Button, HasDrafts, Saving, Cleared
<1>4. SavedMeansAll'
  BY DEF SavedMeansAll, Quiet, core
<1> QED
  BY <1>1, <1>2, <1>3, <1>4

LEMMA HttpSaveOK ==
  ASSUME PanelInv, NEW c \in Cells, NEW v \in ValsOf[c[1]], HttpSave(c, v)
  PROVE  PanelInv'
<1> USE DEF PanelInv, HttpSave, ServeOnly, editor, screen
<1>1. Types'
  <2>1. v \in Vals
    BY ConstantsAssumption DEF Vals
  <2> QED
    BY <2>1 DEF Types
<1>2. ASSUME NEW k \in Kinds PROVE BatchOK(k)' /\ SerialsOK(k)'
  BY DEF BatchOK, SerialsOK, Waiting, Serial, Edits, WakeAt
<1>3. ButtonOK' /\ SavedMeansAll'
  BY DEF ButtonOK, HasDrafts, Saving, SavedMeansAll
<1> QED
  BY <1>1, <1>2, <1>3

(* The service answers a batch with its serial.                            *)
LEMMA SvcBatchOK ==
  ASSUME PanelInv, NEW k \in Kinds, NEW next, SvcBatch(k, next)
  PROVE  PanelInv'
<1> USE DEF PanelInv, editor, screen
<1>1. CASE batch[k] = None
  <2>1. UNCHANGED <<table, outcome, batch, copy, editor, data, lcd>>
    BY <1>1 DEF SvcBatch
  <2> QED
    BY <2>1, QuietOK DEF Quiet, core
<1>2. CASE batch[k] # None
  <2>1. PICK ok \in BOOLEAN :
          /\ Applies(batch[k], ok)
          /\ outcome' = [outcome EXCEPT ![k] = [serial |-> batch[k].serial, ok |-> ok]]
          /\ batch' = [batch EXCEPT ![k] = None]
    BY <1>2 DEF SvcBatch
  <2>2. UNCHANGED <<copy, editor, data, lcd>>
    BY DEF SvcBatch
  <2>3. batch[k] \in Batches
    BY <1>2 DEF Types
  <2>4. Types'
    <3>1. table' \in [Cells -> Vals]
      BY <2>1, <2>3 DEF Types, Applies, Batches, Drafts
    <3>2. outcome' \in [Kinds -> Outcomes]
      BY <2>1, <2>3 DEF Types, Outcomes, Batches
    <3>3. batch' \in [Kinds -> Batches \cup {None}]
      BY <2>1 DEF Types
    <3> QED
      BY <2>2, <3>1, <3>2, <3>3 DEF Types
  <2>5. ASSUME NEW j \in Kinds PROVE BatchOK(j)' /\ SerialsOK(j)'
    <3>1. CASE j = k
      <4>1. outcome'[k] = [serial |-> Serial(k), ok |-> ok] /\ batch'[k] = None
        BY <2>1, <1>2 DEF Types, BatchOK
      <4>2. outcome[k].serial < Serial(k) /\ Serial(k) <= nextSerial
        BY <1>2 DEF BatchOK, Serial, SerialsOK, Types
      <4>3. /\ outcome[k].serial \in Nat /\ Serial(k) \in Nat
            /\ copy # None => copy.outcome[k].serial \in Nat
        BY DEF Types, Copies, Outcomes, Serial
      <4>4. copy # None => copy.outcome[k].serial < Serial(k)
        BY <4>2, <4>3 DEF SerialsOK
      <4>5. SerialsOK(k)'
        BY <2>2, <4>1, <4>2, <4>3, <4>4 DEF SerialsOK
      <4>6. BatchOK(k)'
        BY <2>2, <4>1 DEF BatchOK, Serial
      <4> QED
        BY <3>1, <4>5, <4>6
    <3>2. CASE j # k
      <4>1. outcome'[j] = outcome[j] /\ batch'[j] = batch[j]
        BY <2>1, <3>2 DEF Types
      <4> QED
        BY <2>2, <4>1 DEF BatchOK, SerialsOK, Waiting, Serial, Edits
    <3> QED
      BY <3>1, <3>2
  <2>6. ButtonOK' /\ SavedMeansAll'
    BY <2>2 DEF ButtonOK, HasDrafts, Saving, SavedMeansAll
  <2> QED
    BY <2>4, <2>5, <2>6
<1> QED
  BY <1>1, <1>2

LEMMA SvcPublishOK ==
  ASSUME PanelInv, SvcPublish
  PROVE  PanelInv'
<1> USE DEF PanelInv, SvcPublish, editor, screen
<1>1. copy' \in Copies /\ copy' # None
  BY ConstantsAssumption DEF Types, Copies
<1>2. Types'
  BY <1>1 DEF Types
<1>3. ASSUME NEW k \in Kinds PROVE BatchOK(k)' /\ SerialsOK(k)'
  <2>1. BatchOK(k)'
    BY DEF BatchOK, Waiting, Serial, Edits
  <2>2. SerialsOK(k)'
    BY DEF SerialsOK, Types, Outcomes
  <2> QED
    BY <2>1, <2>2
<1>4. ButtonOK' /\ SavedMeansAll'
  BY DEF ButtonOK, HasDrafts, Saving, SavedMeansAll
<1> QED
  BY <1>2, <1>3, <1>4

(* An answer that the screen waits for is the one in the copy only if the  *)
(* batch is done and the answer is the service's own.                      *)
LEMMA AnswerIsTrue ==
  ASSUME PanelInv, NEW k \in Kinds, copy # None,
         saving[k] # 0, copy.outcome[k].serial = saving[k], lcd # WakeAt(k)
  PROVE  /\ batch[k] = None
         /\ outcome[k] = copy.outcome[k]
<1>1. /\ outcome[k] \in Outcomes /\ copy.outcome[k] \in Outcomes
      /\ saving[k] \in Nat
  BY DEF PanelInv, Types, Copies
<1>2. Serial(k) = saving[k] /\ Waiting(k)
  BY DEF Serial, Waiting
<1>3. batch[k] = None
  BY <1>1, <1>2 DEF PanelInv, BatchOK, SerialsOK, Outcomes
<1>4. /\ outcome[k].serial = copy.outcome[k].serial
      /\ outcome[k].ok = copy.outcome[k].ok
  BY <1>2, <1>3 DEF PanelInv, BatchOK, SerialsOK
<1> QED
  BY <1>1, <1>3, <1>4 DEF Outcomes

(* The same for one kind in a step that reads the copy: the answer closes  *)
(* the save, or nothing happens to it.                                     *)
Closes(k) ==
  /\ saving[k] # 0 /\ saving'[k] = 0
  /\ batch[k] = None /\ outcome[k].serial = saving[k]
  /\ \A c \in CellsOf(k) : draft'[c] = IF outcome[k].ok THEN None ELSE draft[c]
  /\ outcome[k].ok \/ saveError'
Leaves(k) ==
  /\ saving'[k] = saving[k]
  /\ \A c \in CellsOf(k) : draft'[c] = draft[c]

LEMMA ReadsAnswer ==
  ASSUME PanelInv, Reads, NEW k \in Kinds
  PROVE  Closes(k) \/ Leaves(k)
<1>1. lcd # WakeAt(k)
  BY DEF Reads, Button, WakeAt
<1>2. \A c \in CellsOf(k) : c \in Cells /\ c[1] = k
  BY DEF CellsOf
<1>3. draft \in [Cells -> Drafts \cup {None}] /\ saving \in [Kinds -> Nat]
  BY DEF PanelInv, Types
<1>4. CASE saving[k] # 0 /\ data'.outcome[k].serial = saving[k]
  <2>1. copy # None /\ data' = copy
    BY <1>4 DEF Reads, NoOutcome
  <2>2. batch[k] = None /\ outcome[k] = copy.outcome[k]
    BY <1>1, <1>4, <2>1, AnswerIsTrue
  <2>3. saving'[k] = 0
    BY <1>3, <1>4 DEF Reads, Completed
  <2>4. \A c \in CellsOf(k) : draft'[c] = IF outcome[k].ok THEN None ELSE draft[c]
    BY <1>2, <1>3, <1>4, <2>1, <2>2 DEF Reads, Completed
  <2>5. outcome[k].ok \/ saveError'
    BY <1>4, <2>1, <2>2 DEF Reads, Completed
  <2> QED
    BY <1>4, <2>1, <2>2, <2>3, <2>4, <2>5 DEF Closes
<1>5. CASE ~(saving[k] # 0 /\ data'.outcome[k].serial = saving[k])
  BY <1>2, <1>3, <1>5 DEF Reads, Completed, Leaves
<1> QED
  BY <1>4, <1>5

LEMMA ReadsOK ==
  ASSUME PanelInv, Reads
  PROVE  PanelInv'
<1> USE DEF PanelInv
<1>1. \A k \in Kinds : Closes(k) \/ Leaves(k)
  BY ReadsAnswer
<1>2. \A c \in Cells : c[1] \in Kinds /\ c \in CellsOf(c[1])
  BY ConstantsAssumption DEF CellsOf
<1>3. saveError => saveError'
  BY DEF Reads, Completed
<1>4. Types'
  <2>1. draft' \in [Cells -> Drafts \cup {None}]
    BY DEF Types, Reads, Completed
  <2>2. saving' \in [Kinds -> Nat]
    BY DEF Types, Reads, Completed
  <2>3. saved' \in BOOLEAN /\ saveError' \in BOOLEAN
    BY ZenonT(60) DEF Types, Reads, Completed
  <2>4. UNCHANGED <<table, outcome, batch, copy, nextSerial>> /\ data' \in Copies
        /\ lcd' \in LcdLabels
    BY DEF Types, Reads, LcdLabels
  <2> QED
    BY <2>1, <2>2, <2>3, <2>4 DEF Types
<1>5. ASSUME NEW k \in Kinds PROVE BatchOK(k)' /\ SerialsOK(k)'
  <2>1. lcd # WakeAt(k) /\ lcd' # WakeAt(k)
    BY DEF Reads, Button, WakeAt
  <2>2. UNCHANGED <<outcome, batch, copy, nextSerial>>
    BY DEF Reads
  <2>3. CASE Closes(k)
    <3>1. BatchOK(k)'
      BY <2>1, <2>2, <2>3 DEF BatchOK, Closes, Waiting, WakeAt
    <3>2. SerialsOK(k)'
      BY <2>1, <2>2, <2>3 DEF SerialsOK, Closes, Types
    <3> QED
      BY <3>1, <3>2
  <2>4. CASE Leaves(k)
    <3>1. Edits(k)' = Edits(k)
      BY <1>2, <2>4 DEF Edits, Leaves
    <3>2. BatchOK(k)'
      BY <2>1, <2>2, <2>4, <3>1 DEF BatchOK, Leaves, Waiting, WakeAt, Serial
    <3>3. SerialsOK(k)'
      BY <2>1, <2>2, <2>4 DEF SerialsOK, Leaves
    <3> QED
      BY <3>2, <3>3
  <2> QED
    BY <1>1, <2>3, <2>4
<1>6. ButtonOK'
  <2>1. lcd \notin Button /\ lcd' = "ready"
    BY DEF Reads
  <2>2. ASSUME Saving', NEW k \in Kinds, HasDrafts(k)'
        PROVE  saving'[k] # 0 \/ saveError'
    <3>1. Saving
      BY <1>1, <2>2 DEF Saving, Closes, Leaves
    <3>2. CASE Closes(k)
      BY <2>2, <3>2 DEF Closes, HasDrafts
    <3>3. CASE Leaves(k)
      <4>1. HasDrafts(k)
        BY <2>2, <3>3 DEF Leaves, HasDrafts
      <4> QED
        BY <1>3, <2>1, <3>1, <3>3, <4>1 DEF ButtonOK, Leaves
    <3> QED
      BY <1>1, <3>2, <3>3
  <2> QED
    BY <2>1, <2>2 DEF ButtonOK, Button
<1>7. ASSUME saved' PROVE draft' = NoDrafts /\ ~saveError'
  <2>1. draft' \in [Cells -> Drafts \cup {None}]
    BY <1>4 DEF Types
  <2>2. CASE \E k \in Kinds : Closes(k)
    <3>1. ~saveError' /\ \A k \in Kinds : saving'[k] = 0
      BY <1>7, <2>2 DEF Closes, Reads, Completed, Types
    <3>2. Saving /\ lcd \notin Button
      BY <2>2 DEF Saving, Closes, Reads
    <3>3. ASSUME NEW c \in Cells PROVE draft'[c] = None
      <4>1. CASE Closes(c[1])
        BY <1>2, <3>1, <4>1 DEF Closes
      <4>2. CASE Leaves(c[1])
        <5>1. ~HasDrafts(c[1])
          BY <1>2, <1>3, <3>1, <3>2, <4>2 DEF ButtonOK, Leaves
        <5> QED
          BY <1>2, <4>2, <5>1 DEF Leaves, HasDrafts
      <4> QED
        BY <1>1, <1>2, <4>1, <4>2
    <3> QED
      BY <2>1, <3>1, <3>3 DEF NoDrafts
  <2>3. CASE \A k \in Kinds : ~Closes(k)
    <3>1. \A k \in Kinds : Leaves(k)
      BY <1>1, <2>3
    <3>2. \A k \in Kinds : ~(saving[k] # 0 /\ data'.outcome[k].serial = saving[k])
      BY <3>1 DEF Leaves, Reads, Completed
    <3>3. saved /\ ~saveError'
      BY <1>7, <3>2 DEF SavedMeansAll, Reads, Completed
    <3>4. \A c \in Cells : draft'[c] = None
      BY <1>2, <3>1, <3>3 DEF SavedMeansAll, NoDrafts, Leaves
    <3> QED
      BY <2>1, <3>3, <3>4 DEF NoDrafts
  <2> QED
    BY <2>2, <2>3
<1> QED
  BY <1>4, <1>5, <1>6, <1>7 DEF SavedMeansAll

(* While nothing is waited for there is no batch.                          *)
LEMMA AtRest ==
  ASSUME PanelInv, NEW k \in Kinds, saving[k] = 0, lcd # WakeAt(k)
  PROVE  batch[k] = None
BY DEF PanelInv, BatchOK, Waiting, WakeAt

LEMMA EditOK ==
  ASSUME PanelInv, NEW c \in Cells, EditCell(c)
  PROVE  PanelInv'
<1> USE DEF PanelInv
<1>1. PICK v \in ValsOf[c[1]] : Edit(c, v) /\ lcd' \in {"ready", "enter"}
  BY DEF EditCell, PickMode, Rename, Edit
<1>2. /\ lcd = "ready" /\ ~Saving
      /\ UNCHANGED <<table, outcome, batch, copy, saving, nextSerial, data>>
      /\ saved' = FALSE /\ saveError' = FALSE
  BY <1>1 DEF Edit, wifiSide, owned
<1>3. Types'
  <2>1. v \in Vals /\ data.cells[c] \in Vals
    BY ConstantsAssumption DEF Vals, Types, Copies
  <2>2. draft' \in [Cells -> Drafts \cup {None}]
    BY <1>1, <2>1 DEF Edit, Types, Drafts
  <2> QED
    BY <1>1, <1>2, <2>2 DEF Types, LcdLabels
<1>4. ASSUME NEW k \in Kinds PROVE BatchOK(k)' /\ SerialsOK(k)'
  <2>1. saving[k] = 0 /\ lcd # WakeAt(k) /\ lcd' # WakeAt(k)
    BY <1>1, <1>2 DEF Saving, WakeAt
  <2>2. batch'[k] = None /\ ~Waiting(k)'
    BY <1>2, <2>1, AtRest DEF Waiting, WakeAt
  <2> QED
    BY <1>2, <2>1, <2>2 DEF BatchOK, SerialsOK
<1>5. ButtonOK' /\ SavedMeansAll'
  BY <1>1, <1>2 DEF ButtonOK, SavedMeansAll, Button, Saving
<1> QED
  BY <1>3, <1>4, <1>5

LEMMA SaveButtonOK ==
  ASSUME PanelInv, SaveButton
  PROVE  PanelInv'
<1> USE DEF PanelInv
<1>1. /\ lcd = "ready" /\ ~Saving
      /\ \E k \in Kinds : HasDrafts(k)
      /\ lcd' = IF HasDrafts("mode") THEN "askMode" ELSE "askName"
      /\ UNCHANGED <<table, outcome, batch, copy, draft, saving, nextSerial, data>>
      /\ saved' = FALSE /\ saveError' = FALSE
  BY DEF SaveButton, wifiSide, owned
<1>2. Types'
  BY <1>1 DEF Types, LcdLabels
<1>3. ASSUME NEW k \in Kinds PROVE BatchOK(k)' /\ SerialsOK(k)'
  <2>1. saving[k] = 0 /\ lcd # WakeAt(k) /\ lcd' # WakeAt(k)
    BY <1>1 DEF Saving, WakeAt
  <2>2. batch'[k] = None /\ ~Waiting(k)'
    BY <1>1, <2>1, AtRest DEF Waiting, WakeAt
  <2> QED
    BY <1>1, <2>1, <2>2 DEF BatchOK, SerialsOK
<1>4. ButtonOK' /\ SavedMeansAll'
  BY <1>1 DEF ButtonOK, SavedMeansAll, Button, Saving, HasDrafts, Kinds
<1> QED
  BY <1>2, <1>3, <1>4

AskAt(k) == IF k = "mode" THEN "askMode" ELSE "askName"

(* The screen asks only when it waits for nothing: it is never refused.    *)
LEMMA AskGranted ==
  ASSUME PanelInv, NEW k \in Kinds, NEW next, lcd = AskAt(k), Ask(k, next)
  PROVE  /\ batch[k] = None /\ saving[k] = 0
         /\ nextSerial' = nextSerial + 1
         /\ batch' = [batch EXCEPT ![k] = [edits |-> Edits(k), serial |-> nextSerial + 1]]
         /\ lcd' = WakeAt(k)
         /\ UNCHANGED <<table, outcome, copy, draft, saving, saved, saveError, data>>
<1>1. saving[k] = 0 /\ lcd # WakeAt(k)
  BY DEF PanelInv, ButtonOK, AskAt, WakeAt, Kinds
<1>2. batch[k] = None
  BY <1>1, AtRest
<1> QED
  BY <1>1, <1>2 DEF Ask, Edits, WakeAt, owned

LEMMA AskOK ==
  ASSUME PanelInv, NEW k \in Kinds, NEW next, lcd = AskAt(k), Ask(k, next)
  PROVE  PanelInv'
<1> USE DEF PanelInv
<1>1. /\ batch[k] = None /\ saving[k] = 0
      /\ nextSerial' = nextSerial + 1
      /\ batch' = [batch EXCEPT ![k] = [edits |-> Edits(k), serial |-> nextSerial + 1]]
      /\ lcd' = WakeAt(k)
      /\ UNCHANGED <<table, outcome, copy, draft, saving, saved, saveError, data>>
  BY AskGranted
<1>2. Types'
  <2>1. [edits |-> Edits(k), serial |-> nextSerial + 1] \in Batches
    BY DEF Types, Edits, Batches
  <2>2. batch' \in [Kinds -> Batches \cup {None}]
    BY <1>1, <2>1 DEF Types
  <2> QED
    BY <1>1, <2>2 DEF Types, LcdLabels, WakeAt
<1>3. ASSUME NEW j \in Kinds PROVE SerialsOK(j)'
  <2>1. (lcd' = WakeAt(j)) => j = k
    BY <1>1 DEF WakeAt, Kinds
  <2>2. outcome[j].serial \in Nat /\ saving[j] \in Nat /\ nextSerial \in Nat
    BY DEF Types, Outcomes
  <2> QED
    BY <1>1, <2>1, <2>2 DEF SerialsOK
<1>4. BatchOK(k)'
  <2>1. batch'[k] = [edits |-> Edits(k), serial |-> nextSerial + 1]
    BY <1>1 DEF Types
  <2>2. batch'[k] # None
    <3>1. batch'[k] \in Batches
      BY <2>1 DEF Types, Edits, Batches
    <3> QED
      BY <3>1, ConstantsAssumption
  <2>3. Waiting(k)' /\ Edits(k)' = Edits(k) /\ Serial(k)' = nextSerial + 1
    BY <1>1 DEF Waiting, Edits, Serial, WakeAt
  <2>4. outcome[k].serial < nextSerial + 1
    BY DEF Types, Outcomes, SerialsOK
  <2> QED
    BY <1>1, <2>1, <2>2, <2>3, <2>4 DEF BatchOK
<1>5. ASSUME NEW j \in Kinds, j # k PROVE BatchOK(j)'
  <2>1. batch'[j] = batch[j]
    BY <1>1, <1>5 DEF Types
  <2>2. lcd # WakeAt(j) /\ lcd' # WakeAt(j)
    BY <1>1, <1>5 DEF AskAt, WakeAt, Kinds
  <2>3. (Waiting(j)' <=> Waiting(j)) /\ Edits(j)' = Edits(j) /\ Serial(j)' = Serial(j)
    BY <1>1, <2>2 DEF Waiting, Edits, Serial, WakeAt
  <2> QED
    BY <1>1, <2>1, <2>3 DEF BatchOK
<1>6. ButtonOK'
  BY <1>1 DEF ButtonOK, Button, AskAt, WakeAt, HasDrafts, Kinds
<1>7. SavedMeansAll'
  BY <1>1 DEF SavedMeansAll
<1> QED
  BY <1>2, <1>3, <1>4, <1>5, <1>6, <1>7

LEMMA WakeOK ==
  ASSUME PanelInv, NEW k \in Kinds, lcd = WakeAt(k),
         Wake(k, IF k = "mode" THEN AfterModes ELSE "ready")
  PROVE  PanelInv'
<1> USE DEF PanelInv
<1>1. /\ saving' = [saving EXCEPT ![k] = nextSerial]
      /\ lcd' = IF k = "mode" THEN AfterModes ELSE "ready"
      /\ UNCHANGED <<table, outcome, batch, copy, draft, nextSerial, saved, saveError, data>>
  BY DEF Wake, wifiSide, owned
<1>2. lcd' \in {"askName", "ready"}
  BY <1>1 DEF AfterModes
<1>3. Types'
  <2>1. saving' \in [Kinds -> Nat]
    BY <1>1 DEF Types
  <2> QED
    BY <1>1, <1>2, <2>1 DEF Types, LcdLabels
<1>4. saving'[k] = nextSerial /\ nextSerial > 0
  BY <1>1 DEF Types, SerialsOK
<1>5. ASSUME NEW j \in Kinds PROVE BatchOK(j)' /\ SerialsOK(j)'
  <2>1. lcd' # WakeAt(j)
    BY <1>2 DEF WakeAt
  <2>2. CASE j = k
    <3>1. Waiting(k) /\ Waiting(k)' /\ Serial(k)' = Serial(k) /\ Edits(k)' = Edits(k)
      BY <1>1, <1>4, <2>1, <2>2 DEF Waiting, WakeAt, Serial, Edits, Types
    <3>2. BatchOK(k)'
      BY <1>1, <3>1 DEF BatchOK
    <3>3. SerialsOK(k)'
      BY <1>1, <1>4, <2>1, <2>2 DEF SerialsOK, Types
    <3> QED
      BY <2>2, <3>2, <3>3
  <2>3. CASE j # k
    <3>1. saving'[j] = saving[j] /\ lcd # WakeAt(j)
      BY <1>1, <2>3 DEF Types, WakeAt, Kinds
    <3>2. (Waiting(j)' <=> Waiting(j)) /\ Serial(j)' = Serial(j) /\ Edits(j)' = Edits(j)
      BY <1>1, <2>1, <3>1 DEF Waiting, WakeAt, Serial, Edits
    <3>3. BatchOK(j)'
      BY <1>1, <3>2 DEF BatchOK
    <3>4. SerialsOK(j)'
      BY <1>1, <2>1, <3>1 DEF SerialsOK
    <3> QED
      BY <3>3, <3>4
  <2> QED
    BY <2>2, <2>3
<1>6. ButtonOK'
  <2>1. CASE k = "mode"
    BY <1>1, <1>4, <2>1 DEF ButtonOK, Button, WakeAt, AfterModes, HasDrafts, Saving, Kinds, Types
  <2>2. CASE k = "name"
    BY <1>1, <1>4, <2>2 DEF ButtonOK, Button, WakeAt, HasDrafts, Saving, Kinds, Types
  <2> QED
    BY <2>1, <2>2 DEF Kinds
<1>7. SavedMeansAll'
  BY <1>1 DEF SavedMeansAll
<1> QED
  BY <1>3, <1>5, <1>6, <1>7

LEMMA NextOK ==
  ASSUME PanelInv, [Next]_vars
  PROVE  PanelInv'
<1>1. CASE Quiet
  BY <1>1, QuietOK
<1>2. CASE \E c \in Cells : \E v \in ValsOf[c[1]] : HttpSave(c, v)
  BY <1>2, HttpSaveOK
<1>3. CASE SvcModes
  BY <1>3, SvcBatchOK DEF SvcModes, Kinds
<1>4. CASE SvcNames
  BY <1>4, SvcBatchOK DEF SvcNames, Kinds
<1>5. CASE SvcPublish \/ Reads
  BY <1>5, SvcPublishOK, ReadsOK
<1>6. CASE (\E c \in Cells : EditCell(c)) \/ SaveButton
  BY <1>6, EditOK, SaveButtonOK
<1>7. CASE AskModes
  BY <1>7, AskOK DEF AskModes, AskAt, Kinds
<1>8. CASE AskNames
  BY <1>8, AskOK DEF AskNames, AskAt, Kinds
<1>9. CASE WakeModes
  BY <1>9, WakeOK DEF WakeModes, WakeAt, Kinds
<1>10. CASE WakeNames
  BY <1>10, WakeOK DEF WakeNames, WakeAt, Kinds
<1> QED
  BY <1>1, <1>2, <1>3, <1>4, <1>5, <1>6, <1>7, <1>8, <1>9, <1>10, Steps

(* The page's locks, serials and copies always fit together.               *)
THEOREM PanelInvariant == Spec => []PanelInv
<1>1. Init => PanelInv
  BY InitOK
<1>2. PanelInv /\ [Next]_vars => PanelInv'
  BY NextOK
<1> QED
  BY <1>1, <1>2, PTL DEF Spec

(* The header says "saved" (SCREEN_HttpPanels.c:99) only if no draft of    *)
(* modes or names is left over and no save has failed.                     *)
THEOREM SavedIsAll == Spec => []SavedMeansAll
<1>1. PanelInv => SavedMeansAll
  BY DEF PanelInv
<1> QED
  BY <1>1, PanelInvariant, PTL

-----------------------------------------------------------------------------
(* For each kind of field the page is a DraftBatch.                        *)
Page(k) == INSTANCE DraftBatch
             WITH Cells <- CellsOf(k),
                  table <- [c \in CellsOf(k) |-> table[c]],
                  draft <- [c \in CellsOf(k) |-> draft[c]],
                  phase <- PhaseOf(k)

PageStep(k) == [Page(k)!Next]_(Page(k)!vars)

(* The cells of one kind that a step leaves alone.                         *)
TableStays(k) == \A c \in CellsOf(k) : table'[c] = table[c]
DraftStays(k) == \A c \in CellsOf(k) : draft'[c] = draft[c]

LEMMA Stutter ==
  ASSUME NEW k, TableStays(k), DraftStays(k), PhaseOf(k)' = PhaseOf(k)
  PROVE  PageStep(k)
<1>1. /\ [c \in CellsOf(k) |-> table[c]]' = [c \in CellsOf(k) |-> table[c]]
      /\ [c \in CellsOf(k) |-> draft[c]]' = [c \in CellsOf(k) |-> draft[c]]
  BY DEF TableStays, DraftStays, CellsOf
<1> QED
  BY <1>1 DEF PageStep, Page!vars

(* The phase depends on what is waited for, on the batch and its answer.   *)
LEMMA SamePhase ==
  ASSUME NEW k, Waiting(k)' <=> Waiting(k), batch'[k] = batch[k],
         outcome'[k] = outcome[k]
  PROVE  PhaseOf(k)' = PhaseOf(k)
BY DEF PhaseOf

LEMMA Phases ==
  ASSUME NEW k
  PROVE  /\ ~Waiting(k) => PhaseOf(k) = "idle"
         /\ Waiting(k) /\ batch[k] # None => PhaseOf(k) = "asked"
         /\ Waiting(k) /\ batch[k] = None =>
              PhaseOf(k) = IF outcome[k].ok THEN "committed" ELSE "refused"
BY DEF PhaseOf

LEMMA QuietStep ==
  ASSUME Quiet, NEW k \in Kinds
  PROVE  PageStep(k)
<1>1. Waiting(k)' <=> Waiting(k)
  BY DEF Quiet, core, Waiting, Button
<1>2. PhaseOf(k)' = PhaseOf(k)
  BY <1>1, SamePhase DEF Quiet, core
<1> QED
  BY <1>2, Stutter DEF Quiet, core, TableStays, DraftStays

LEMMA HttpSaveStep ==
  ASSUME PanelInv, NEW c \in Cells, NEW v \in ValsOf[c[1]], HttpSave(c, v),
         NEW k \in Kinds
  PROVE  PageStep(k)
<1> USE DEF HttpSave, ServeOnly, editor, screen
<1>1. PhaseOf(k)' = PhaseOf(k)
  BY SamePhase DEF Waiting
<1>2. DraftStays(k)
  BY DEF DraftStays
<1>3. CASE c \in CellsOf(k)
  <2>1. v \in Vals
    BY ConstantsAssumption DEF Vals
  <2>2. [d \in CellsOf(k) |-> table[d]]' =
          [[d \in CellsOf(k) |-> table[d]] EXCEPT ![c] = v]
    BY <1>3 DEF PanelInv, Types, CellsOf
  <2>3. [d \in CellsOf(k) |-> draft[d]]' = [d \in CellsOf(k) |-> draft[d]]
    BY <1>2 DEF DraftStays
  <2>4. Page(k)!Write(c, v)
    BY <1>1, <2>2, <2>3 DEF Page!Write
  <2> QED
    BY <1>3, <2>1, <2>4 DEF PageStep, Page!Next
<1>4. CASE c \notin CellsOf(k)
  <2>1. TableStays(k)
    BY <1>4 DEF TableStays, PanelInv, Types, CellsOf
  <2> QED
    BY <1>1, <1>2, <2>1, Stutter
<1> QED
  BY <1>3, <1>4

(* A batch commits over what its user saw, or is refused; the other kind   *)
(* of field is left alone.                                                 *)
LEMMA SvcBatchStep ==
  ASSUME PanelInv, NEW j \in Kinds, NEW next, SvcBatch(j, next), NEW k \in Kinds
  PROVE  PageStep(k)
<1>1. UNCHANGED <<draft, saving, lcd>>
  BY DEF SvcBatch, editor, screen
<1>2. DraftStays(k) /\ (Waiting(k)' <=> Waiting(k))
  BY <1>1 DEF DraftStays, Waiting
<1>3. CASE batch[j] = None
  <2>1. UNCHANGED <<table, batch, outcome>>
    BY <1>3 DEF SvcBatch
  <2> QED
    BY <1>2, <2>1, SamePhase, Stutter DEF TableStays
<1>4. CASE batch[j] # None
  <2>1. PICK ok \in BOOLEAN :
          /\ Applies(batch[j], ok)
          /\ outcome' = [outcome EXCEPT ![j] = [serial |-> batch[j].serial, ok |-> ok]]
          /\ batch' = [batch EXCEPT ![j] = None]
    BY <1>4 DEF SvcBatch
  <2>2. batch[j].edits = Edits(j) /\ Waiting(j)
    BY <1>4 DEF PanelInv, BatchOK
  <2>3. CASE k # j
    <3>1. batch'[k] = batch[k] /\ outcome'[k] = outcome[k]
      BY <2>1, <2>3 DEF PanelInv, Types
    <3>2. TableStays(k)
      BY <2>1, <2>2, <2>3 DEF TableStays, Applies, Edits, CellsOf
    <3> QED
      BY <1>2, <3>1, <3>2, SamePhase, Stutter
  <2>4. CASE k = j
    <3>1. outcome'[k].ok = ok /\ batch'[k] = None
      BY <2>1, <2>4 DEF PanelInv, Types
    <3>2. /\ PhaseOf(k) = "asked"
          /\ PhaseOf(k)' = IF ok THEN "committed" ELSE "refused"
      BY <1>2, <1>4, <2>2, <2>4, <3>1 DEF PhaseOf
    <3>3. [c \in CellsOf(k) |-> draft[c]]' = [c \in CellsOf(k) |-> draft[c]]
      BY <1>2 DEF DraftStays
    <3>4. CASE ok
      <4>1. \A c \in CellsOf(k) :
              /\ draft[c] # None => draft[c].base = table[c]
              /\ table'[c] = IF draft[c] = None THEN table[c] ELSE draft[c].new
        BY <2>1, <2>2, <2>4, <3>4 DEF Applies, Edited, Edits, CellsOf
      <4>2. Page(k)!Commit
        BY <3>2, <3>3, <3>4, <4>1 DEF Page!Commit
      <4> QED
        BY <4>2 DEF PageStep, Page!Next
    <3>5. CASE ~ok
      <4>1. TableStays(k)
        BY <2>1, <3>5 DEF TableStays, Applies
      <4>2. Page(k)!Refuse
        BY <3>2, <3>3, <3>5, <4>1 DEF Page!Refuse, TableStays
      <4> QED
        BY <4>2 DEF PageStep, Page!Next
    <3> QED
      BY <3>4, <3>5
  <2> QED
    BY <2>3, <2>4
<1> QED
  BY <1>3, <1>4

LEMMA PublishStep ==
  ASSUME SvcPublish, NEW k \in Kinds
  PROVE  PageStep(k)
BY SamePhase, Stutter
DEF SvcPublish, editor, screen, Waiting, TableStays, DraftStays

(* The answer that is read is the batch's own: the user is told the truth. *)
LEMMA ReadsStep ==
  ASSUME PanelInv, Reads, NEW k \in Kinds
  PROVE  PageStep(k)
<1>1. lcd # WakeAt(k) /\ lcd' # WakeAt(k)
  BY DEF Reads, Button, WakeAt
<1>2. UNCHANGED <<table, outcome, batch>>
  BY DEF Reads
<1>3. CASE Closes(k)
  <2>1. PhaseOf(k) = IF outcome[k].ok THEN "committed" ELSE "refused"
    BY <1>3 DEF Closes, PhaseOf, Waiting
  <2>2. PhaseOf(k)' = "idle"
    BY <1>1, <1>3 DEF Closes, PhaseOf, Waiting, WakeAt
  <2>3. [c \in CellsOf(k) |-> table[c]]' = [c \in CellsOf(k) |-> table[c]]
    BY <1>2
  <2>4. [c \in CellsOf(k) |-> draft[c]]' =
          IF outcome[k].ok THEN Page(k)!Given ELSE [c \in CellsOf(k) |-> draft[c]]
    BY <1>3 DEF Closes, Page!Given, CellsOf
  <2>5. Page(k)!Tell
    BY <2>1, <2>2, <2>3, <2>4 DEF Page!Tell
  <2> QED
    BY <2>5 DEF PageStep, Page!Next
<1>4. CASE Leaves(k)
  <2>1. Waiting(k)' <=> Waiting(k)
    BY <1>1, <1>4 DEF Leaves, Waiting, WakeAt
  <2> QED
    BY <1>2, <1>4, <2>1, SamePhase, Stutter DEF Leaves, TableStays, DraftStays
<1> QED
  BY <1>3, <1>4, ReadsAnswer

LEMMA EditStep ==
  ASSUME PanelInv, NEW c \in Cells, EditCell(c), NEW k \in Kinds
  PROVE  PageStep(k)
<1>1. PICK v \in ValsOf[c[1]] : Edit(c, v) /\ lcd' \in {"ready", "enter"}
  BY DEF EditCell, PickMode, Rename, Edit
<1>2. /\ lcd = "ready" /\ ~Saving
      /\ UNCHANGED <<table, outcome, batch, saving>>
  BY <1>1 DEF Edit, wifiSide, owned
<1>3. ~Waiting(k) /\ ~Waiting(k)'
  BY <1>1, <1>2 DEF Waiting, Saving
<1>4. PhaseOf(k) = "idle" /\ PhaseOf(k)' = "idle"
  BY <1>3 DEF PhaseOf
<1>5. CASE c \in CellsOf(k)
  <2>1. PICK d \in Page(k)!Drafts \cup {None} :
          d = IF v = data.cells[c] THEN None ELSE [new |-> v, base |-> data.cells[c]]
    <3>1. v \in Vals /\ data.cells[c] \in Vals
      BY ConstantsAssumption DEF Vals, PanelInv, Types, Copies
    <3> QED
      BY <3>1 DEF Page!Drafts
  <2>2. [b \in CellsOf(k) |-> draft[b]]' =
          [[b \in CellsOf(k) |-> draft[b]] EXCEPT ![c] = d]
    <3>1. draft' = [draft EXCEPT ![c] = d]
      BY <1>1, <2>1 DEF Edit
    <3> QED
      BY <1>5, <3>1 DEF PanelInv, Types, CellsOf
  <2>3. [b \in CellsOf(k) |-> table[b]]' = [b \in CellsOf(k) |-> table[b]]
    BY <1>2
  <2>4. Page(k)!Edit(c, d)
    BY <1>4, <2>2, <2>3 DEF Page!Edit
  <2> QED
    BY <1>5, <2>1, <2>4 DEF PageStep, Page!Next
<1>6. CASE c \notin CellsOf(k)
  <2>1. DraftStays(k)
    BY <1>1, <1>6 DEF DraftStays, Edit, PanelInv, Types, CellsOf
  <2> QED
    BY <1>2, <1>4, <2>1, Stutter DEF TableStays
<1> QED
  BY <1>5, <1>6

LEMMA SaveButtonStep ==
  ASSUME SaveButton, NEW k \in Kinds
  PROVE  PageStep(k)
<1>1. /\ lcd = "ready" /\ lcd' \in {"askMode", "askName"}
      /\ UNCHANGED <<table, outcome, batch, draft, saving>>
  BY DEF SaveButton, wifiSide, owned
<1>2. Waiting(k)' <=> Waiting(k)
  BY <1>1 DEF Waiting
<1> QED
  BY <1>1, <1>2, SamePhase, Stutter DEF TableStays, DraftStays

LEMMA AskStep ==
  ASSUME PanelInv, NEW j \in Kinds, NEW next, lcd = AskAt(j), Ask(j, next),
         NEW k \in Kinds
  PROVE  PageStep(k)
<1>1. /\ saving[j] = 0
      /\ batch' = [batch EXCEPT ![j] = [edits |-> Edits(j), serial |-> nextSerial + 1]]
      /\ lcd' = WakeAt(j)
      /\ UNCHANGED <<table, outcome, draft, saving>>
  BY AskGranted
<1>2. CASE k = j
  <2>1. lcd # WakeAt(k) /\ HasDrafts(k)
    BY <1>2 DEF PanelInv, ButtonOK, AskAt, WakeAt, Kinds
  <2>2. PhaseOf(k) = "idle"
    BY <1>1, <1>2, <2>1 DEF PhaseOf, Waiting, WakeAt
  <2>3. batch'[k] # None
    <3>1. batch'[k] = [edits |-> Edits(k), serial |-> nextSerial + 1]
      BY <1>1, <1>2 DEF PanelInv, Types
    <3>2. batch'[k] \in Batches
      BY <3>1 DEF PanelInv, Types, Edits, Batches
    <3> QED
      BY <3>2, ConstantsAssumption
  <2>4. PhaseOf(k)' = "asked"
    BY <1>1, <1>2, <2>3 DEF PhaseOf, Waiting, WakeAt
  <2>5. [c \in CellsOf(k) |-> draft[c]] # Page(k)!Given
    BY <2>1 DEF HasDrafts, Page!Given
  <2>6. Page(k)!Ask
    BY <1>1, <2>2, <2>4, <2>5 DEF Page!Ask
  <2> QED
    BY <2>6 DEF PageStep, Page!Next
<1>3. CASE k # j
  <2>1. batch'[k] = batch[k]
    BY <1>1, <1>3 DEF PanelInv, Types
  <2>2. Waiting(k)' <=> Waiting(k)
    BY <1>1, <1>3 DEF Waiting, AskAt, WakeAt, Kinds
  <2> QED
    BY <1>1, <2>1, <2>2, SamePhase, Stutter DEF TableStays, DraftStays
<1> QED
  BY <1>2, <1>3

LEMMA WakeStep ==
  ASSUME PanelInv, NEW j \in Kinds, lcd = WakeAt(j),
         Wake(j, IF j = "mode" THEN AfterModes ELSE "ready"), NEW k \in Kinds
  PROVE  PageStep(k)
<1>1. /\ saving' = [saving EXCEPT ![j] = nextSerial]
      /\ lcd' \in {"askName", "ready"}
      /\ UNCHANGED <<table, outcome, batch, draft>>
  BY DEF Wake, wifiSide, owned, AfterModes
<1>2. Waiting(k)' <=> Waiting(k)
  <2>1. nextSerial > 0
    BY DEF PanelInv, SerialsOK
  <2>2. CASE k = j
    BY <1>1, <2>1, <2>2 DEF Waiting, WakeAt, PanelInv, Types
  <2>3. CASE k # j
    BY <1>1, <2>3 DEF Waiting, WakeAt, PanelInv, Types, Kinds
  <2> QED
    BY <2>2, <2>3
<1> QED
  BY <1>1, <1>2, SamePhase, Stutter DEF TableStays, DraftStays

LEMMA NextStep ==
  ASSUME PanelInv, [Next]_vars, NEW k \in Kinds
  PROVE  PageStep(k)
<1>1. CASE Quiet
  BY <1>1, QuietStep
<1>2. CASE \E c \in Cells : \E v \in ValsOf[c[1]] : HttpSave(c, v)
  BY <1>2, HttpSaveStep
<1>3. CASE SvcModes
  BY <1>3, SvcBatchStep DEF SvcModes, Kinds
<1>4. CASE SvcNames
  BY <1>4, SvcBatchStep DEF SvcNames, Kinds
<1>5. CASE SvcPublish \/ Reads
  BY <1>5, PublishStep, ReadsStep
<1>6. CASE (\E c \in Cells : EditCell(c)) \/ SaveButton
  BY <1>6, EditStep, SaveButtonStep
<1>7. CASE AskModes
  BY <1>7, AskStep DEF AskModes, AskAt, Kinds
<1>8. CASE AskNames
  BY <1>8, AskStep DEF AskNames, AskAt, Kinds
<1>9. CASE WakeModes
  BY <1>9, WakeStep DEF WakeModes, WakeAt, Kinds
<1>10. CASE WakeNames
  BY <1>10, WakeStep DEF WakeNames, WakeAt, Kinds
<1> QED
  BY <1>1, <1>2, <1>3, <1>4, <1>5, <1>6, <1>7, <1>8, <1>9, <1>10, Steps

LEMMA PageInit ==
  ASSUME Init, NEW k \in Kinds
  PROVE  Page(k)!Init
<1>1. ~Waiting(k)
  BY DEF Init, Waiting
<1>2. table \in [Cells -> Vals]
  BY ConstantsAssumption DEF Init, Tables
<1> QED
  BY <1>1, <1>2 DEF Page!Init, Page!Given, PhaseOf, Init, NoDrafts, CellsOf

(* "Single immutable batch: all edited ports commit together or none do"   *)
(* (http_lcd_panels.c:22): the modes of any number of ports, and their     *)
(* names, behave as a DraftBatch, whatever browsers and the card do.       *)
THEOREM PageIsDraftBatch == Spec => ImplementsBatches
<1> DEFINE modes == Modes!Spec
           names == Names!Spec
<1>1. Init => Modes!Init /\ Names!Init
  <2>1. Init => Page("mode")!Init /\ Page("name")!Init
    BY PageInit DEF Kinds
  <2> QED
    BY <2>1 DEF Page!Init, Page!Given, Modes!Init, Modes!Given, Names!Init, Names!Given
<1>2. PanelInv /\ [Next]_vars => PageStep("mode") /\ PageStep("name")
  BY NextStep DEF Kinds
<1>3. PageStep("mode") => [Modes!Next]_(Modes!vars)
  BY DEF PageStep, Page!Next, Page!vars, Page!Write, Page!Edit, Page!Ask, Page!Commit,
         Page!Refuse, Page!Tell, Page!Given, Page!Drafts,
         Modes!Next, Modes!vars, Modes!Write, Modes!Edit, Modes!Ask, Modes!Commit,
         Modes!Refuse, Modes!Tell, Modes!Given, Modes!Drafts
<1>4. PageStep("name") => [Names!Next]_(Names!vars)
  BY DEF PageStep, Page!Next, Page!vars, Page!Write, Page!Edit, Page!Ask, Page!Commit,
         Page!Refuse, Page!Tell, Page!Given, Page!Drafts,
         Names!Next, Names!vars, Names!Write, Names!Edit, Names!Ask, Names!Commit,
         Names!Refuse, Names!Tell, Names!Given, Names!Drafts
<1>5. Spec => modes
  BY <1>1, <1>2, <1>3, PanelInvariant, PTL DEF Spec, Modes!Spec
<1>6. Spec => names
  BY <1>1, <1>2, <1>4, PanelInvariant, PTL DEF Spec, Names!Spec
<1> QED
  BY <1>5, <1>6 DEF ImplementsBatches

-----------------------------------------------------------------------------
(* Presses of a button.  relay_states.c toggles once for each of them; the *)
(* outcome is given by what the tile shows and by the parity of n.         *)
LEMMA SmallestOfNat ==
  ASSUME NEW T \in SUBSET Nat, T # {} PROVE \E k \in T : \A j \in T : k <= j
<1> DEFINE R == OpToRel(<, Nat)
<1>1. IsWellFoundedOn(R, Nat)
  BY NatLessThanWellFounded
<1>2. PICK k \in T : \A j \in T : ~(<<j, k>> \in R)
  BY <1>1, WFMin
<1>3. R = {ss \in Nat \X Nat : ss[1] < ss[2]}
  BY DEF OpToRel
<1> HIDE DEF R
<1>4. \A i, j \in Nat : i < j => <<i, j>> \in R
  BY <1>3
<1>5. ASSUME NEW j \in T PROVE k <= j
  <2>1. j \in Nat /\ k \in Nat /\ ~(j < k)
    BY <1>2, <1>4
  <2> QED BY <2>1
<1> QED BY <1>5

(* What RELAY_RequestToggle makes of an output: f[i] is it after i presses.*)
Toggling(u, f, n) ==
  f = [i \in 0..n |-> IF i = 0 THEN u ELSE RequestToggle(f[i - 1])]

LEMMA PressedIsToggling ==
  ASSUME NEW r, NEW report, NEW n,
         \E f : Toggling(UpdateState(r, report), f, n)
  PROVE  \E f : Toggling(UpdateState(r, report), f, n) /\ Pressed(r, report, n) = f[n]
<1> DEFINE a == CHOOSE f : Toggling(UpdateState(r, report), f, n)
<1>1. Pressed(r, report, n) = a[n]
  BY DEF Pressed, Toggling
<1>2. Toggling(UpdateState(r, report), a, n)
  OBVIOUS
<1> HIDE DEF a
<1> QED
  BY <1>1, <1>2

(* No two functions fit.                                                   *)
LEMMA TogglingUnique ==
  ASSUME NEW u, NEW n \in Nat, NEW f, NEW g, Toggling(u, f, n), Toggling(u, g, n)
  PROVE  f[n] = g[n]
<1> DEFINE T == {i \in 0..n : f[i] # g[i]}
<1>1. CASE T = {}
  BY <1>1
<1>2. CASE T # {}
  <2>0. T \in SUBSET Nat
    OBVIOUS
  <2>1. PICK k \in T : \A j \in T : k <= j
    <3> HIDE DEF T
    <3> QED
      BY <1>2, <2>0, SmallestOfNat
  <2>2. k \in 0..n /\ f[k] # g[k]
    BY <2>1
  <2>3. k # 0
    BY <2>2 DEF Toggling
  <2>4. k - 1 \in 0..n /\ ~(k <= k - 1)
    BY <2>2, <2>3
  <2>5. f[k - 1] = g[k - 1]
    BY <2>1, <2>4
  <2> QED
    BY <2>2, <2>3, <2>5 DEF Toggling
<1> QED
  BY <1>1, <1>2

LEMMA Parity ==
  /\ \A i \in Nat : i % 2 \in {0, 1} /\ (i + 1) % 2 = 1 - (i % 2)
  /\ 0 % 2 = 0 /\ 1 % 2 = 1
OBVIOUS

(* The state after i presses, in closed form.                              *)
After(u, i) ==
  IF i = 0 THEN u
  ELSE [u EXCEPT !.requested = IF DisplayState(u) = "on"
                               THEN (IF i % 2 = 1 THEN "off" ELSE "on")
                               ELSE (IF i % 2 = 1 THEN "on" ELSE "off")]

LEMMA AfterToggles ==
  ASSUME NEW u \in RelayState, NEW i \in Nat
  PROVE  After(u, i + 1) = RequestToggle(After(u, i))
<1>1. i + 1 # 0
  OBVIOUS
<1>2. CASE i = 0
  BY <1>2, Parity DEF After, RequestToggle
<1>3. CASE i # 0
  <2> DEFINE v == After(u, i)
  <2>1. /\ v.requested \in OnOff
        /\ v.requested = "on" <=> ((DisplayState(u) = "on") <=> (i % 2 # 1))
    BY <1>3 DEF After, RelayState, OnOff
  <2>2. DisplayState(v) = v.requested
    BY <2>1, ConstantsAssumption DEF DisplayState
  <2>3. \A x : [v EXCEPT !.requested = x] = [u EXCEPT !.requested = x]
    BY <1>3 DEF After, RelayState
  <2>4. RequestToggle(v) = [u EXCEPT !.requested = IF v.requested = "on" THEN "off" ELSE "on"]
    BY <2>2, <2>3 DEF RequestToggle
  <2> HIDE DEF v
  <2>5. i % 2 \in {0, 1} /\ (i + 1) % 2 = 1 - (i % 2)
    BY Parity
  <2>6. (IF v.requested = "on" THEN "off" ELSE "on")
          = IF DisplayState(u) = "on" THEN (IF (i + 1) % 2 = 1 THEN "off" ELSE "on")
                                      ELSE (IF (i + 1) % 2 = 1 THEN "on" ELSE "off")
    BY <2>1, <2>5
  <2> QED
    BY <1>1, <2>4, <2>6 DEF v, After
<1> QED
  BY <1>2, <1>3

LEMMA PressedIsAfter ==
  ASSUME NEW r, NEW report, UpdateState(r, report) \in RelayState, NEW n \in Nat
  PROVE  Pressed(r, report, n) = After(UpdateState(r, report), n)
<1> DEFINE u == UpdateState(r, report)
           w == [i \in 0..n |-> After(u, i)]
<1>1. ASSUME NEW i \in 0..n
      PROVE  w[i] = IF i = 0 THEN u ELSE RequestToggle(w[i - 1])
  <2>1. CASE i = 0
    BY <2>1 DEF After
  <2>2. CASE i # 0
    <3>1. i - 1 \in Nat /\ i - 1 \in 0..n /\ (i - 1) + 1 = i
      BY <2>2
    <3>2. After(u, i) = RequestToggle(After(u, i - 1))
      BY <3>1, AfterToggles
    <3> QED
      BY <2>2, <3>1, <3>2
  <2> QED
    BY <2>1, <2>2
<1> HIDE DEF u
<1>2. w = [i \in 0..n |-> w[i]]
  OBVIOUS
<1>3. w[n] = After(u, n)
  OBVIOUS
<1> HIDE DEF w
<1>4. Toggling(u, w, n)
  BY <1>1, <1>2 DEF Toggling
<1>5. PICK f : Toggling(u, f, n) /\ Pressed(r, report, n) = f[n]
  BY <1>4, PressedIsToggling DEF u
<1>6. f[n] = w[n]
  BY <1>4, <1>5, TogglingUnique
<1> QED
  BY <1>3, <1>5, <1>6 DEF u

(* n presses on an output whose report, if any, is the one at hand.        *)
LEMMA PressedTurns ==
  ASSUME NEW r \in RelayState, NEW report \in OnOff \cup {Unknown},
         r.on \in {Unknown, report}, NEW n \in Nat \ {0}
  PROVE  /\ Pressed(r, report, n) \in RelayState
         /\ Pressed(r, report, n).on \in {Unknown, report}
         /\ Pressed(r, report, n).requested =
              IF (ShownState(r, report) = "on") = (n % 2 = 1) THEN "off" ELSE "on"
<1> DEFINE u == UpdateState(r, report)
           q == Pressed(r, report, n)
<1>1. /\ u \in RelayState /\ u.requested = r.requested
      /\ u.on = IF report = Unknown THEN r.on ELSE report
  BY DEF UpdateState, RelayState
<1>2. u.on \in {Unknown, report}
  BY <1>1
<1>3. DisplayState(u) = "on" <=> ShownState(r, report) = "on"
  BY <1>1, ConstantsAssumption DEF DisplayState, ShownState, OnOff
<1>4. q = After(u, n)
  BY <1>1, PressedIsAfter
<1> HIDE DEF u, q
<1>5. q \in RelayState /\ q.on = u.on
  BY <1>1, <1>4 DEF After, RelayState, OnOff
<1>6. q.requested = IF DisplayState(u) = "on" THEN (IF n % 2 = 1 THEN "off" ELSE "on")
                                              ELSE (IF n % 2 = 1 THEN "on" ELSE "off")
  BY <1>1, <1>4 DEF After, RelayState
<1>7. ((ShownState(r, report) = "on") = (n % 2 = 1))
        <=> (DisplayState(u) = "on" <=> n % 2 = 1)
  BY <1>3
<1>8. q.requested = IF (ShownState(r, report) = "on") = (n % 2 = 1) THEN "off" ELSE "on"
  BY <1>6, <1>7
<1> QED
  BY <1>2, <1>5, <1>8 DEF q

-----------------------------------------------------------------------------
(* The output requests.                                                    *)

(* A hand that is not empty holds an output, and what an output reports is *)
(* what the refresh data said of it.                                       *)
OutputInv ==
  /\ relay \in [Outputs -> RelayState]
  /\ \A o \in Outputs : relay[o].on \in {Unknown, Report[o]}
  /\ todo \subseteq Outputs
  /\ hand \in Hands /\ (hand # EmptyHand => hand.port \in Outputs)
  /\ toggles \in [Outputs -> 0..MaxToggles]
  /\ slide \in [Outputs -> Percents \cup {None}]

Requests == <<relay, todo, hand, toggles, slide>>

(* The steps that are about outputs.                                       *)
LEMMA OutputSteps ==
  ASSUME [Next]_vars
  PROVE  \/ UNCHANGED Requests
         \/ UNCHANGED <<relay, hand, toggles, slide>> /\ todo' = Outputs
         \/ (\E o \in Outputs : SvcTake(o)) \/ SvcApply
         \/ HttpOutput
         \/ (\E o \in Outputs : Press(o))
         \/ \E o \in Outputs, percent \in Percents : Slide(o, percent)
<1> USE DEF Requests, owned, outputs
<1>1. SvcModes \/ SvcIdle \/ SvcPublish \/ SvcWanted \/ TimedOut \/ Woken \/ ServeDone
        \/ UartNotify
      => UNCHANGED Requests
  BY DEF SvcModes, SvcBatch, SvcIdle, SvcPublish, SvcWanted, TimedOut, Woken, ServeDone,
         UartNotify
<1>2. \A c \in Cells : \A v \in ValsOf[c[1]] : HttpSave(c, v) => UNCHANGED Requests
  BY DEF HttpSave, ServeOnly
<1>3. SvcNames => UNCHANGED <<relay, hand, toggles, slide>> /\ todo' = Outputs
  BY DEF SvcNames, SvcBatch
<1>4. Enter \/ Entered \/ Exit \/ Update \/ SaveButton \/ AskModes \/ AskNames
        \/ WakeModes \/ WakeNames \/ WakeOutputs \/ Release
      => UNCHANGED Requests
  BY DEF Enter, Entered, Exit, Update, SaveButton, AskModes, AskNames, Ask, WakeModes,
         WakeNames, Wake, WakeOutputs, Release, wifiSide
<1>5. \A c \in Cells : EditCell(c) => UNCHANGED Requests
  BY DEF EditCell, PickMode, Rename, Edit, wifiSide
<1>6. UNCHANGED vars => UNCHANGED Requests
  BY DEF vars
<1> QED
  BY <1>1, <1>2, <1>3, <1>4, <1>5, <1>6
  DEF Next, WifiStep, ServiceStep, LcdStep, LcdRuns, OutputStep

(* RELAY_RequestPwm.                                                       *)
LEMMA RequestPwmTyped ==
  ASSUME NEW r \in RelayState, NEW percent \in Percents
  PROVE  RequestPwm(r, percent) \in RelayState /\ RequestPwm(r, percent).on = r.on
BY DEF RequestPwm, RelayState, OnOff

(* What the hand does to its output.                                       *)
LEMMA DrivenOK ==
  ASSUME OutputInv, hand # EmptyHand
  PROVE  /\ Driven(hand) \in RelayState
         /\ Driven(hand).on \in {Unknown, Report[hand.port]}
         /\ hand.toggles > 0 /\ ModeOf(hand.port) = Relay =>
              Driven(hand).requested =
                IF (ShownState(relay[hand.port], Report[hand.port]) = "on")
                     = (hand.toggles % 2 = 1)
                THEN "off" ELSE "on"
<1> DEFINE o == hand.port
           r == relay[o]
           m == ModeOf(o)
<1>1. /\ o \in Outputs /\ r \in RelayState /\ r.on \in {Unknown, Report[o]}
      /\ Report[o] \in OnOff \cup {Unknown}
  BY ConstantsAssumption DEF OutputInv
<1>2. /\ hand.percent # None => hand.percent \in Percents
      /\ hand.toggles > 0 => hand.toggles \in Nat \ {0}
  BY ConstantsAssumption DEF OutputInv, Hands
<1>3. CASE hand.percent # None /\ m = Pwm
  <2>1. m # Relay
    BY <1>3, ConstantsAssumption
  <2>2. Driven(hand) = RequestPwm(r, hand.percent)
    BY <1>3, <2>1 DEF Driven
  <2> QED
    BY <1>1, <1>2, <1>3, <2>1, <2>2, RequestPwmTyped
<1>4. CASE hand.toggles > 0 /\ m = Relay
  <2>1. m # Pwm
    BY <1>4, ConstantsAssumption
  <2>2. Driven(hand) = Pressed(r, Report[o], hand.toggles)
    BY <1>4, <2>1 DEF Driven
  <2> QED
    BY <1>1, <1>2, <1>4, <2>2, PressedTurns
<1>5. CASE ~(hand.percent # None /\ m = Pwm) /\ ~(hand.toggles > 0 /\ m = Relay)
  <2>1. Driven(hand) = r
    BY <1>5 DEF Driven
  <2> QED
    BY <1>1, <1>5, <2>1
<1> QED
  BY <1>3, <1>4, <1>5

LEMMA OutputInit ==
  ASSUME Init
  PROVE  OutputInv
<1>1. Unreported \in RelayState /\ Unreported.on = Unknown
  BY DEF Unreported, RelayState
<1>2. EmptyHand \in Hands
  BY ConstantsAssumption DEF EmptyHand, Hands
<1>3. 0 \in 0..MaxToggles
  BY ConstantsAssumption
<1> QED
  BY <1>1, <1>2, <1>3 DEF Init, OutputInv

LEMMA OutputNext ==
  ASSUME OutputInv, [Next]_vars
  PROVE  OutputInv'
<1> USE DEF OutputInv
<1>1. CASE UNCHANGED Requests
  BY <1>1 DEF Requests
<1>2. CASE UNCHANGED <<relay, hand, toggles, slide>> /\ todo' = Outputs
  BY <1>2
<1>3. ASSUME NEW o \in Outputs, SvcTake(o) PROVE OutputInv'
  <2>1. /\ UNCHANGED relay /\ todo' = todo \ {o}
        /\ hand' = [port |-> o, toggles |-> toggles[o], percent |-> slide[o]]
        /\ toggles' = [toggles EXCEPT ![o] = 0] /\ slide' = [slide EXCEPT ![o] = None]
    BY <1>3 DEF SvcTake
  <2>2. hand' \in Hands /\ hand'.port \in Outputs
    BY <2>1 DEF Hands
  <2>3. toggles' \in [Outputs -> 0..MaxToggles]
    BY <2>1, ConstantsAssumption
  <2> QED
    BY <2>1, <2>2, <2>3
<1>4. CASE SvcApply
  <2>1. /\ hand # EmptyHand /\ hand' = EmptyHand
        /\ relay' = [relay EXCEPT ![hand.port] = Driven(hand)]
        /\ UNCHANGED <<todo, toggles, slide>>
    BY <1>4 DEF SvcApply, outputs
  <2>2. /\ Driven(hand) \in RelayState
        /\ Driven(hand).on \in {Unknown, Report[hand.port]}
    BY <2>1, DrivenOK
  <2>3. EmptyHand \in Hands
    BY ConstantsAssumption DEF EmptyHand, Hands
  <2> QED
    BY <2>1, <2>2, <2>3
<1>5. CASE HttpOutput
  <2>1. UNCHANGED <<todo, hand, toggles, slide>>
    BY <1>5 DEF HttpOutput, HttpToggle, HttpPwm, ServeOnly, outputs
  <2>2. PICK o \in Outputs, q \in RelayState :
          relay' = [relay EXCEPT ![o] = q] /\ q.on \in {Unknown, Report[o]}
    <3>1. ASSUME NEW o \in Outputs, HttpToggle(o)
          PROVE  \E q \in RelayState :
                   relay' = [relay EXCEPT ![o] = q] /\ q.on \in {Unknown, Report[o]}
      <4>1. relay' = [relay EXCEPT ![o] = Pressed(relay[o], Report[o], 1)]
        BY <3>1 DEF HttpToggle
      <4>2. Report[o] \in OnOff \cup {Unknown} /\ 1 \in Nat \ {0}
        BY ConstantsAssumption
      <4> QED
        BY <4>1, <4>2, PressedTurns
    <3>2. ASSUME NEW o \in Outputs, NEW percent \in Percents, HttpPwm(o, percent)
          PROVE  \E q \in RelayState :
                   relay' = [relay EXCEPT ![o] = q] /\ q.on \in {Unknown, Report[o]}
      <4>1. relay' = [relay EXCEPT ![o] = RequestPwm(relay[o], percent)]
        BY <3>2 DEF HttpPwm
      <4> QED
        BY <4>1, RequestPwmTyped
    <3> QED
      BY <1>5, <3>1, <3>2 DEF HttpOutput
  <2> QED
    BY <2>1, <2>2
<1>6. ASSUME NEW o \in Outputs, Press(o) PROVE OutputInv'
  <2>1. /\ UNCHANGED <<relay, todo, hand, slide>> /\ toggles[o] < MaxToggles
        /\ toggles' = [toggles EXCEPT ![o] = toggles[o] + 1]
    BY <1>6 DEF Press, wifiSide, owned
  <2>2. toggles[o] + 1 \in 0..MaxToggles
    BY <2>1, ConstantsAssumption
  <2> QED
    BY <2>1, <2>2
<1>7. ASSUME NEW o \in Outputs, NEW percent \in Percents, Slide(o, percent)
      PROVE  OutputInv'
  BY <1>7 DEF Slide, wifiSide, owned
<1> QED
  BY <1>1, <1>2, <1>3, <1>4, <1>5, <1>6, <1>7, OutputSteps

(* What every step owes to one output: see PressesObeyed.                  *)
Counted(o) ==
  \/ Presses(o)' = Presses(o)
  \/ lcd' = "wake" /\ lcd # "wake" /\ Presses(o)' = Presses(o) + 1
  \/ Emptied(o) /\ Presses(o)' = Presses(o) - hand.toggles
Turned(o) ==
  Emptied(o) /\ hand.toggles > 0 /\ ModeOf(o) = Relay =>
    relay'[o].requested =
      IF (ShownState(relay[o], Report[o]) = "on") = (hand.toggles % 2 = 1)
      THEN "off" ELSE "on"
SampleKept(o) == slide[o] # None /\ slide'[o] = None => hand'.percent = slide[o]

LEMMA StepObeys ==
  ASSUME OutputInv, [Next]_vars, NEW o \in Outputs
  PROVE  Counted(o) /\ Turned(o) /\ SampleKept(o)
<1>1. /\ EmptyHand.port = None /\ o # None /\ \A percent \in Percents : percent # None
      /\ EmptyHand.toggles = 0
  BY ConstantsAssumption DEF EmptyHand
<1>2. toggles[o] \in Nat /\ hand.toggles \in Nat
  BY ConstantsAssumption DEF OutputInv, Hands
<1> HIDE DEF EmptyHand
<1>3. CASE UNCHANGED <<hand, toggles, slide>>
  BY <1>1, <1>3 DEF Counted, Turned, SampleKept, Presses, Emptied
<1>4. ASSUME NEW p \in Outputs, SvcTake(p) PROVE Counted(o) /\ Turned(o) /\ SampleKept(o)
  <2>1. /\ hand = EmptyHand /\ hand'.port = p /\ hand'.toggles = toggles[p]
        /\ hand'.percent = slide[p]
        /\ toggles' = [toggles EXCEPT ![p] = 0] /\ slide' = [slide EXCEPT ![p] = None]
    BY <1>4 DEF SvcTake
  <2>2. Presses(o)' = Presses(o)
    BY <1>1, <1>2, <2>1 DEF Presses, OutputInv
  <2>3. SampleKept(o)
    BY <2>1 DEF SampleKept, OutputInv
  <2> QED
    BY <1>1, <2>1, <2>2, <2>3 DEF Counted, Turned, Emptied
<1>5. CASE SvcApply
  <2>1. /\ hand # EmptyHand /\ hand' = EmptyHand
        /\ relay' = [relay EXCEPT ![hand.port] = Driven(hand)]
        /\ UNCHANGED <<toggles, slide>>
    BY <1>5 DEF SvcApply, outputs
  <2>2. Turned(o)
    BY <2>1, DrivenOK DEF Turned, Emptied, OutputInv
  <2>3. Counted(o)
    BY <1>1, <1>2, <2>1 DEF Counted, Emptied, Presses
  <2> QED
    BY <2>1, <2>2, <2>3 DEF SampleKept
<1>6. CASE HttpOutput
  BY <1>3, <1>6 DEF HttpOutput, HttpToggle, HttpPwm, ServeOnly, outputs
<1>7. ASSUME NEW p \in Outputs, Press(p) PROVE Counted(o) /\ Turned(o) /\ SampleKept(o)
  <2>1. /\ UNCHANGED <<hand, slide>> /\ lcd = "ready" /\ lcd' = "wake"
        /\ toggles' = [toggles EXCEPT ![p] = toggles[p] + 1]
    BY <1>7 DEF Press, wifiSide, owned
  <2>2. Counted(o)
    BY <1>2, <2>1 DEF Counted, Presses, OutputInv
  <2> QED
    BY <1>1, <2>1, <2>2 DEF Turned, Emptied, SampleKept
<1>8. ASSUME NEW p \in Outputs, NEW percent \in Percents, Slide(p, percent)
      PROVE  Counted(o) /\ Turned(o) /\ SampleKept(o)
  <2>1. UNCHANGED <<hand, toggles>> /\ slide' = [slide EXCEPT ![p] = percent]
    BY <1>8 DEF Slide, wifiSide, owned
  <2>2. slide'[o] = slide[o] \/ slide'[o] = percent
    BY <2>1 DEF OutputInv
  <2> QED
    BY <1>1, <2>1, <2>2 DEF Counted, Presses, Turned, Emptied, SampleKept
<1> QED
  BY <1>3, <1>4, <1>5, <1>6, <1>7, <1>8, OutputSteps DEF Requests

(* "Slider samples coalesce; toggles are counted, never replaced"          *)
(* (http_lcd_panels.c): for any number of outputs and presses, n presses   *)
(* turn the output n times, and the last slider sample is not lost.        *)
THEOREM AlwaysPressesObeyed == Spec => PressesObeyed
<1>1. Init => OutputInv
  BY OutputInit
<1>2. OutputInv /\ [Next]_vars => OutputInv'
  BY OutputNext
<1>3. OutputInv /\ [Next]_vars =>
        [\A o \in Outputs :
           /\ \/ Presses(o)' = Presses(o)
              \/ lcd' = "wake" /\ lcd # "wake" /\ Presses(o)' = Presses(o) + 1
              \/ Emptied(o) /\ Presses(o)' = Presses(o) - hand.toggles
           /\ Emptied(o) /\ hand.toggles > 0 /\ ModeOf(o) = Relay =>
                relay'[o].requested =
                  IF (ShownState(relay[o], Report[o]) = "on") = (hand.toggles % 2 = 1)
                  THEN "off" ELSE "on"
           /\ slide[o] # None /\ slide'[o] = None => hand'.percent = slide[o]]_vars
  BY StepObeys DEF Counted, Turned, SampleKept
<1> HIDE DEF OutputInv, Init, Next, vars
<1> QED
  BY <1>1, <1>2, <1>3, PTL DEF Spec, PressesObeyed

-----------------------------------------------------------------------------
(* The rest of the types: values fit their cells, serials their bound.     *)
Fits == /\ table \in Tables
        /\ \A c \in Cells : draft[c] # None => draft[c].new \in ValsOf[c[1]]

(* The button was pressed with a serial left for every batch to come.      *)
SerialsFit ==
  /\ nextSerial <= MaxSerial
  /\ lcd = "askMode" =>
       nextSerial + (IF HasDrafts("name") THEN 2 ELSE 1) <= MaxSerial
  /\ lcd = "wakeMode" /\ HasDrafts("name") => nextSerial + 1 <= MaxSerial
  /\ lcd = "askName" => nextSerial + 1 <= MaxSerial

Flags == /\ command \in BOOLEAN /\ active \in BOOLEAN /\ notified \in BOOLEAN
         /\ shown \in BOOLEAN
         /\ wifi \in WifiLabels
         /\ writes \in 0..MaxWrites
         /\ drag \in Outputs \cup {None}

LEMMA FitsInit == ASSUME Init PROVE Fits
BY ConstantsAssumption DEF Init, Fits, NoDrafts

LEMMA TablesMade ==
  ASSUME NEW t \in [Cells -> Vals], \A c \in Cells : t[c] \in ValsOf[c[1]]
  PROVE  t \in Tables
BY DEF Tables

LEMMA FitsNext ==
  ASSUME PanelInv, Fits, [Next]_vars PROVE Fits'
<1>1. CASE UNCHANGED <<table, draft>>
  BY <1>1 DEF Fits
<1>2. ASSUME NEW c \in Cells, NEW v \in ValsOf[c[1]], HttpSave(c, v) PROVE Fits'
  <2>1. table' = [table EXCEPT ![c] = v] /\ UNCHANGED draft
    BY <1>2 DEF HttpSave, ServeOnly, editor
  <2>2. table' \in [Cells -> Vals] /\ \A d \in Cells : table'[d] \in ValsOf[d[1]]
    BY <2>1, ConstantsAssumption DEF Fits, Tables, Vals
  <2> QED
    BY <2>1, <2>2, TablesMade DEF Fits
<1>3. ASSUME NEW k \in Kinds, NEW next, SvcBatch(k, next) PROVE Fits'
  <2>1. UNCHANGED draft
    BY <1>3 DEF SvcBatch, editor
  <2>2. CASE batch[k] = None
    BY <1>1, <1>3, <2>1, <2>2 DEF SvcBatch
  <2>3. CASE batch[k] # None
    <3>1. PICK ok \in BOOLEAN : Applies(batch[k], ok)
      BY <1>3, <2>3 DEF SvcBatch
    <3>2. batch[k].edits = Edits(k)
      BY <2>3 DEF PanelInv, BatchOK
    <3>3. table \in [Cells -> Vals] /\ \A d \in Cells : table[d] \in ValsOf[d[1]]
      BY DEF Fits, Tables
    <3>4. \A d \in Cells : \/ Edits(k)[d] = None
                           \/ Edits(k)[d] = draft[d] /\ draft[d] # None
      BY DEF Edits
    <3>5. table' = IF ok THEN [c \in Cells |-> IF Edits(k)[c] = None THEN table[c]
                                               ELSE Edits(k)[c].new]
                   ELSE table
      BY <3>1, <3>2 DEF Applies
    <3>6. \A d \in Cells : ValsOf[d[1]] \subseteq Vals
      BY ConstantsAssumption DEF Vals
    <3>7. table' \in [Cells -> Vals] /\ \A d \in Cells : table'[d] \in ValsOf[d[1]]
      BY <3>3, <3>4, <3>5, <3>6 DEF Fits
    <3> QED
      BY <2>1, <3>7, TablesMade DEF Fits
  <2> QED
    BY <2>2, <2>3
<1>4. CASE Reads
  <2>1. UNCHANGED table /\ \A c \in Cells : draft'[c] \in {None, draft[c]}
    BY <1>4 DEF Reads, Completed
  <2> QED
    BY <2>1 DEF Fits
<1>5. ASSUME NEW c \in Cells, EditCell(c) PROVE Fits'
  <2>1. PICK v \in ValsOf[c[1]] : Edit(c, v)
    BY <1>5 DEF EditCell, PickMode, Rename
  <2>2. /\ UNCHANGED table
        /\ \A d \in Cells : d # c => draft'[d] = draft[d]
        /\ draft'[c] # None => draft'[c].new = v
    BY <2>1 DEF Edit, wifiSide, owned, PanelInv, Types
  <2> QED
    BY <2>2 DEF Fits
<1>6. Quiet \/ SvcPublish \/ SaveButton \/ AskModes \/ AskNames \/ WakeModes \/ WakeNames
        => UNCHANGED <<table, draft>>
  BY DEF Quiet, core, SvcPublish, SaveButton, AskModes, AskNames, Ask, WakeModes, WakeNames,
         Wake, wifiSide, owned, editor
<1> QED
  BY <1>1, <1>2, <1>3, <1>4, <1>5, <1>6, Steps DEF SvcModes, SvcNames, Kinds

LEMMA SerialsInit == ASSUME Init PROVE SerialsFit
BY ConstantsAssumption DEF Init, SerialsFit

(* How many batches the save button will ask for.                          *)
LEMMA CountDrafts ==
  ASSUME \E k \in Kinds : HasDrafts(k)
  PROVE  Cardinality({k \in Kinds : HasDrafts(k)})
           = IF HasDrafts("mode") /\ HasDrafts("name") THEN 2 ELSE 1
<1> DEFINE S == {k \in Kinds : HasDrafts(k)}
<1>1. /\ IsFiniteSet({"mode"}) /\ Cardinality({"mode"}) = 1
      /\ IsFiniteSet({"name"}) /\ Cardinality({"name"}) = 1
  BY FS_Singleton
<1>2. Cardinality({"mode"} \cup {"name"}) = 2
  BY <1>1, FS_AddElement
<1>3. CASE HasDrafts("mode") /\ HasDrafts("name")
  <2>1. S = {"mode"} \cup {"name"}
    BY <1>3 DEF Kinds
  <2> QED
    BY <1>2, <1>3, <2>1
<1>4. CASE HasDrafts("mode") /\ ~HasDrafts("name")
  <2>1. S = {"mode"}
    BY <1>4 DEF Kinds
  <2> QED
    BY <1>1, <1>4, <2>1
<1>5. CASE ~HasDrafts("mode") /\ HasDrafts("name")
  <2>1. S = {"name"}
    BY <1>5 DEF Kinds
  <2> QED
    BY <1>1, <1>5, <2>1
<1> QED
  BY <1>3, <1>4, <1>5 DEF Kinds

LEMMA SerialsNext ==
  ASSUME PanelInv, SerialsFit, [Next]_vars PROVE SerialsFit'
<1> USE DEF SerialsFit
<1>1. nextSerial \in Nat /\ MaxSerial \in Nat
  BY ConstantsAssumption DEF PanelInv, Types
<1>2. CASE UNCHANGED <<draft, nextSerial, lcd>>
  BY <1>2 DEF HasDrafts
<1>3. CASE UNCHANGED nextSerial /\ lcd' \notin {"askMode", "wakeMode", "askName"}
  BY <1>3
<1>4. CASE Quiet
  BY <1>2, <1>3, <1>4 DEF Quiet, core, Button
<1>5. (\E c \in Cells : \E v \in ValsOf[c[1]] : HttpSave(c, v))
        \/ SvcModes \/ SvcNames \/ SvcPublish
      => UNCHANGED <<draft, nextSerial, lcd>>
  BY DEF HttpSave, ServeOnly, SvcModes, SvcNames, SvcBatch, SvcPublish, editor, screen
<1>6. Reads \/ (\E c \in Cells : EditCell(c)) \/ WakeNames
      => UNCHANGED nextSerial /\ lcd' \notin {"askMode", "wakeMode", "askName"}
  BY DEF Reads, EditCell, PickMode, Rename, Edit, WakeNames, Wake
<1>7. CASE SaveButton
  <2>1. /\ UNCHANGED <<nextSerial, draft>>
        /\ lcd' = IF HasDrafts("mode") THEN "askMode" ELSE "askName"
        /\ \E k \in Kinds : HasDrafts(k)
        /\ nextSerial + Cardinality({k \in Kinds : HasDrafts(k)}) <= MaxSerial
    BY <1>7 DEF SaveButton
  <2>2. nextSerial + (IF HasDrafts("mode") /\ HasDrafts("name") THEN 2 ELSE 1) <= MaxSerial
    BY <2>1, CountDrafts
  <2>3. HasDrafts("name")' = HasDrafts("name")
    BY <2>1 DEF HasDrafts
  <2> QED
    BY <1>1, <2>1, <2>2, <2>3
<1>8. CASE AskModes
  <2>1. nextSerial' = nextSerial + 1 /\ lcd' = "wakeMode" /\ UNCHANGED draft
    BY <1>8, AskGranted DEF AskModes, AskAt, WakeAt, Kinds
  <2>2. lcd = "askMode" /\ HasDrafts("name")' = HasDrafts("name")
    BY <1>8, <2>1 DEF AskModes, HasDrafts
  <2> QED
    BY <1>1, <2>1, <2>2
<1>9. CASE AskNames
  <2>1. nextSerial' = nextSerial + 1 /\ lcd' = "wakeName"
    BY <1>9, AskGranted DEF AskNames, AskAt, WakeAt, Kinds
  <2> QED
    BY <1>1, <1>9, <2>1 DEF AskNames
<1>10. CASE WakeModes
  <2>1. /\ lcd = "wakeMode" /\ UNCHANGED <<nextSerial, draft>>
        /\ lcd' = IF HasDrafts("name") THEN "askName" ELSE "ready"
    BY <1>10 DEF WakeModes, Wake, AfterModes
  <2> QED
    BY <2>1
<1> QED
  BY <1>2, <1>3, <1>4, <1>5, <1>6, <1>7, <1>8, <1>9, <1>10, Steps

LEMMA FlagsInit == ASSUME Init PROVE Flags
<1>1. /\ command = FALSE /\ active = FALSE /\ notified = FALSE /\ shown = FALSE
      /\ wifi = "modes" /\ writes = 0 /\ drag = None
  BY DEF Init
<1>2. 0 \in 0..MaxWrites
  BY ConstantsAssumption
<1> QED
  BY <1>1, <1>2 DEF Flags, WifiLabels

LEMMA FlagsNext ==
  ASSUME Flags, OutputInv, [Next]_vars PROVE Flags'
<1> USE DEF Flags
<1>1. \A a, b : (a \/ b) \in BOOLEAN
  OBVIOUS
<1>2. command' \in BOOLEAN
  <2>1. UNCHANGED command \/ command' \in {TRUE, FALSE}
          \/ command' = (command \/ Obeyed(hand))
    BY DEF Next, WifiStep, ServiceStep, HttpOutput, LcdStep, LcdRuns, OutputStep,
       SvcModes, SvcNames, SvcBatch, SvcTake, SvcApply, SvcIdle, SvcPublish, SvcWanted,
       TimedOut, Woken, ServeDone, HttpSave, UartNotify, HttpToggle, HttpPwm, ServeOnly,
       Enter, Entered, Exit, Update, EditCell, PickMode, Rename, Edit, SaveButton,
       AskModes, AskNames, Ask, WakeModes, WakeNames, Wake, WakeOutputs, Press, Slide,
       Release, vars, owned, wifiSide
  <2> QED
    BY <1>1, <2>1
<1>3. ASSUME WifiStep \/ HttpOutput
      PROVE  /\ notified' \in BOOLEAN /\ UNCHANGED <<active, shown, drag>>
             /\ wifi' \in WifiLabels
  BY <1>3 DEF WifiStep, ServiceStep, HttpOutput, SvcModes, SvcNames, SvcBatch, SvcTake,
       SvcApply, SvcIdle, SvcPublish, SvcWanted, TimedOut, Woken, ServeDone, HttpSave,
       UartNotify, HttpToggle, HttpPwm, ServeOnly, screen, WifiLabels
<1>4. ASSUME WifiStep \/ HttpOutput
      PROVE  writes' \in 0..MaxWrites
  <2>1. UNCHANGED writes \/ (writes < MaxWrites /\ writes' = writes + 1)
    BY <1>4 DEF WifiStep, ServiceStep, HttpOutput, SvcModes, SvcNames, SvcBatch, SvcTake,
       SvcApply, SvcIdle, SvcPublish, SvcWanted, TimedOut, Woken, ServeDone, HttpSave,
       UartNotify, HttpToggle, HttpPwm, owned
  <2> QED
    BY <2>1, ConstantsAssumption
<1>5. ASSUME LcdStep
      PROVE  /\ UNCHANGED <<writes, wifi>>
             /\ active' \in BOOLEAN /\ notified' \in BOOLEAN /\ shown' \in BOOLEAN
             /\ drag' \in Outputs \cup {None}
  BY <1>5 DEF LcdStep, LcdRuns, OutputStep, Enter, Entered, Exit, Update, EditCell,
       PickMode, Rename, Edit, SaveButton, AskModes, AskNames, Ask, WakeModes, WakeNames,
       Wake, WakeOutputs, Press, Slide, Release, wifiSide, owned, screen
<1>6. CASE UNCHANGED vars
  BY <1>2, <1>6 DEF vars, owned
<1> QED
  BY <1>2, <1>3, <1>4, <1>5, <1>6 DEF Next

(* Every variable keeps its type: a batch never holds a value of another   *)
(* kind of field, no counter of presses and no serial passes its bound.    *)
THEOREM TypeCorrect == Spec => []TypeOK
<1> DEFINE Inv == Fits /\ SerialsFit /\ Flags /\ OutputInv
<1>1. Init => Inv
  BY FitsInit, SerialsInit, FlagsInit, OutputInit
<1>2. PanelInv /\ Inv /\ [Next]_vars => Inv'
  BY FitsNext, SerialsNext, FlagsNext, OutputNext
<1>3. PanelInv /\ Inv => TypeOK
  <2> SUFFICES ASSUME PanelInv, Inv PROVE TypeOK
    OBVIOUS
  <2>1. saving \in [Kinds -> 0..MaxSerial] /\ nextSerial \in 0..MaxSerial
    BY ConstantsAssumption DEF PanelInv, Types, SerialsOK, SerialsFit
  <2> QED
    BY <2>1 DEF TypeOK, PanelInv, Types, Fits, Flags, OutputInv
<1> HIDE DEF PanelInv, Inv, Init, Next, vars, TypeOK
<1> QED
  BY <1>1, <1>2, <1>3, PanelInvariant, PTL DEF Spec
=============================================================================
