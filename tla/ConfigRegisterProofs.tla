------------------------ MODULE ConfigRegisterProofs ------------------------
(***************************************************************************)
(* The storage adapters implement DurableRegister, and the table in RAM is *)
(* the one a boot would load, for every table of settings and any number   *)
(* of failures that are reported before they take effect.                  *)
(***************************************************************************)
EXTENDS ConfigStorageProofs

(* The faults under which RAM and card are promised to agree.  An error    *)
(* reported after the change was made leaves RAM behind the card; a read   *)
(* that fails during the load lets it fall back to an older backup; damage *)
(* changes what a boot would load; a bad write is only found by reading    *)
(* back.  The sensor adapter saves after a failed load as well, so nothing *)
(* may keep its load from going through.                                   *)
Reported ==
  \A a \in Adapters :
    /\ FaultsOf[a] \cap {"late", "loadGlitch", "damage"} = {}
    /\ a # "settings" => "badWrite" \notin FaultsOf[a]
    /\ a = "sensor" => FaultsOf[a] \cap {"lock", "eject"} = {}

(* What a load knows of the active file when it turns to the backup: its   *)
(* content, or that the card is gone (and cannot come back meanwhile).     *)
LoadKnows ==
  pc = "loadBackup" =>
    \/ seen.active = Classify(file["active"]) /\ file["active"] \notin Blobs
    \/ seen.active = "ioError" /\ ~card

(* A write that waits for a load has no answer yet, and none waits while   *)
(* nothing is done; whoever saves has loaded; the sensor adapter always    *)
(* has.                                                                    *)
Waits == /\ pc \in LoadLabels /\ pend # NoReq => reply = "none"
         /\ pc = "idle" => pend = NoReq
         /\ pc \in SaveLabels => loaded
         /\ adapter = "sensor" => card /\ (pc \in LoadLabels \/ loaded)

(* A save only ever unlinks an active file that a boot would not load.     *)
DropsNothing ==
  /\ Reinspects => /\ pc \in {"saveBackup", "stage", "verify"}
                        => seen.active \in {"valid", "missing"}
                   /\ pc # "dropActive"
  /\ ~Reinspects /\ loaded /\ pc \notin LoadLabels /\ Recovered
       => file["active"] \notin Blobs

(* RAM and card agree from the load to the rename that publishes the       *)
(* candidate; then the card is ahead until RAM follows.                    *)
Agrees == loaded /\ pc \notin LoadLabels
            => Recover(file) = IF pc = "commit" THEN cand ELSE ram

Agreement == /\ damages = 0
             /\ LoadKnows /\ Waits /\ DropsNothing /\ Agrees

Strong == IInv /\ Agreement

(* What Reported and the invariant say of the adapter at hand.             *)
LEMMA Honest ==
  ASSUME Reported, Strong
  PROVE  /\ adapter \in {"settings", "sensor", "lpc"}
         /\ FaultsOf[adapter] \cap {"late", "loadGlitch", "damage"} = {}
         /\ adapter = "sensor" => "lock" \notin FaultsOf[adapter]
                                 /\ "eject" \notin FaultsOf[adapter]
         /\ Trusted
         /\ Reinspects \/ Undisturbed
         /\ pc \in {"saveActive", "saveBackup", "rollback"} => Reinspects
         /\ file["active"] # Corrupt /\ file["backup"] # Corrupt
BY ConstantsAssumption
   DEF Reported, Strong, IInv, TypeOK, Trusted, ReadBack, SnapshotMoves, Agreement,
       Undisturbed, Reinspects, MemoryTrue

(* A load that goes through has read the table that a boot would load.     *)
LEMMA LoadedIsRecovered ==
  ASSUME Reported, Strong,
         \/ pc = "loadActive" /\ Classify(file["active"]) = "valid"
         \/ /\ pc = "loadBackup" /\ card
            /\ Classify(file["backup"]) \in {"valid", "missing"}
  PROVE  /\ pc = "loadActive" => file["active"] = Recover(file)
         /\ pc = "loadBackup" /\ Classify(file["backup"]) = "valid"
              => file["backup"] = Recover(file)
         /\ pc = "loadBackup" /\ Classify(file["backup"]) = "missing"
              => Recover(file) = DefaultBlob
BY Honest, ConstantsAssumption
   DEF Strong, IInv, TypeOK, Agreement, LoadKnows, Classify, Recover, FileNames, Contents

-----------------------------------------------------------------------------
(* One lemma per action: it preserves the agreement.                       *)

USE ConstantsAssumption
    DEF Strong, Agreement, LoadKnows, Waits, DropsNothing, Agrees, IInv, TypeOK,
        ReadBack, Reinspects, Recovered, LoadLabels, SaveLabels, FileNames, FileStates,
        Contents, disk, Fault, NoFault

LEMMA LoadLockAgrees ==
  ASSUME Reported, Strong, LoadLock, UNCHANGED adapter PROVE Agreement'
BY Honest DEF LoadLock, LoadFails

LEMMA LoadActiveAgrees ==
  ASSUME Reported, Strong, LoadActive, UNCHANGED adapter PROVE Agreement'
BY Honest, LoadedIsRecovered
   DEF LoadActive, LoadSucceeds, ReadFile, Classify, Recover

LEMMA LoadBackupAgrees ==
  ASSUME Reported, Strong, LoadBackup, UNCHANGED adapter PROVE Agreement'
BY Honest, LoadedIsRecovered
   DEF LoadBackup, LoadSucceeds, LoadFails, ReadFile, Classify, Recover

LEMMA SaveLockAgrees ==
  ASSUME Reported, Strong, SaveLock, UNCHANGED adapter PROVE Agreement'
BY Honest DEF SaveLock, SaveFails, Continue

LEMMA SaveActiveAgrees ==
  ASSUME Reported, Strong, SaveActive, UNCHANGED adapter PROVE Agreement'
BY Honest DEF SaveActive, ReadFile, Classify, SaveFails, Continue

LEMMA SaveBackupAgrees ==
  ASSUME Reported, Strong, SaveBackup, UNCHANGED adapter PROVE Agreement'
BY Honest DEF SaveBackup, ReadFile, Classify, SaveFails, Continue

LEMMA StageAgrees ==
  ASSUME Reported, Strong, Stage, UNCHANGED adapter PROVE Agreement'
BY Honest DEF Stage, SaveFails, Continue, AfterStaging, Recover, ChecksHold

LEMMA VerifyAgrees ==
  ASSUME Reported, Strong, Verify, UNCHANGED adapter PROVE Agreement'
BY Honest DEF Verify, SaveFails, Continue, AfterStaging, ChecksHold

LEMMA DropBackupAgrees ==
  ASSUME Reported, Strong, DropBackup, UNCHANGED adapter PROVE Agreement'
<1>1. file' \in {file, [file EXCEPT !["backup"] = Missing]}
  BY DEF DropBackup, Unlink, DirectoryOp
<1>2. \/ file["active"] \in Blobs
      \/ file["active"] = Missing /\ file["backup"] = Missing
  BY Honest DEF DropBackup, ChecksHold, MemoryTrue
<1>3. Recover(file') = Recover(file)
  BY <1>1, <1>2 DEF Recover
<1>4. /\ pc' \in {"rotate", "idle"}
      /\ pc' = "idle" => pend' = NoReq
      /\ UNCHANGED <<card, seen, ram, loaded, cand, damages>>
  BY DEF DropBackup, AfterRename, SaveFails, Continue
<1> QED
  BY <1>1, <1>3, <1>4, Honest DEF DropBackup

LEMMA RotateAgrees ==
  ASSUME Reported, Strong, Rotate, UNCHANGED adapter PROVE Agreement'
BY Honest DEF Rotate, AfterRename, Remember, AbsentIsFine, Rename, DirectoryOp, SaveFails,
   Continue, ChecksHold, MemoryTrue, Undisturbed, Recover

LEMMA PublishAgrees ==
  ASSUME Reported, Strong, Publish, UNCHANGED adapter PROVE Agreement'
BY Honest DEF Publish, AfterRename, Remember, Rename, DirectoryOp, SaveFails, Continue,
   SnapshotMoves, Recover

LEMMA RollbackAgrees ==
  ASSUME Reported, Strong, Rollback, UNCHANGED adapter PROVE Agreement'
<1>1. \/ file' = file
      \/ /\ file["active"] = Missing
         /\ file' = [file EXCEPT !["active"] = file["backup"], !["backup"] = Missing]
  BY Honest DEF Rollback, Rename, DirectoryOp
<1>2. file["backup"] \in Blobs
  BY Honest DEF Rollback, ChecksHold
<1>3. Recover(file') = Recover(file)
  BY <1>1, <1>2 DEF Recover
<1> QED
  BY <1>3, Honest DEF Rollback, SaveFails

LEMMA DropActiveAgrees ==
  ASSUME Reported, Strong, DropActive, UNCHANGED adapter PROVE Agreement'
<1>1. file' \in {file, [file EXCEPT !["active"] = Missing]}
  BY DEF DropActive, Unlink, DirectoryOp
<1>2. file["active"] \notin Blobs
  BY Honest DEF DropActive, MemoryTrue
<1>3. Recover(file') = Recover(file) /\ file'["active"] \notin Blobs
  BY <1>1, <1>2 DEF Recover
<1>4. /\ pc' \in {"promote", "idle"}
      /\ pc' = "idle" => pend' = NoReq
      /\ UNCHANGED <<card, seen, ram, loaded, cand, damages>>
  BY DEF DropActive, AfterRename, SaveFails, Continue
<1> QED
  BY <1>3, <1>4, Honest DEF DropActive

LEMMA PromoteAgrees ==
  ASSUME Reported, Strong, Promote, UNCHANGED adapter PROVE Agreement'
BY Honest DEF Promote, AfterRename, Remember, Rename, DirectoryOp, SaveFails, Continue,
   SnapshotMoves, Recover

LEMMA CommitRamAgrees ==
  ASSUME Reported, Strong, CommitRam, UNCHANGED adapter PROVE Agreement'
BY Honest DEF CommitRam, MemoryTrue, Undisturbed

LEMMA SubmitAgrees ==
  ASSUME Reported, Strong, NEW k \in Keys, NEW v \in Vals, Submit(k, v), UNCHANGED adapter
  PROVE  Agreement'
BY Honest DEF Submit, SaveRegistered, GateOnLoad

LEMMA OthersAgree ==
  ASSUME Reported, Strong, ReloadLpc \/ Crash \/ EjectCard \/ InsertCard,
         UNCHANGED adapter
  PROVE  Agreement'
<1>1. CASE ReloadLpc
  BY <1>1, Honest DEF ReloadLpc
<1>2. CASE Crash
  <2>1. pc' = "loadLock" /\ ~loaded' /\ pend' = NoReq /\ UNCHANGED <<card, damages>>
    BY <1>2 DEF Crash
  <2> QED
    BY <2>1, Honest
<1>3. CASE EjectCard
  <2>1. ~card' /\ UNCHANGED <<file, pc, seen, ram, loaded, cand, pend, reply, damages>>
    BY <1>3 DEF EjectCard
  <2>2. adapter # "sensor"
    BY <1>3, Honest DEF EjectCard
  <2> QED
    BY <2>1, <2>2, Honest
<1>4. CASE InsertCard
  <2>1. pc # "loadBackup" /\ UNCHANGED <<file, pc, seen, ram, loaded, cand, pend, reply, damages>>
    BY <1>4 DEF InsertCard
  <2>2. adapter # "sensor"
    BY <1>4, Honest DEF InsertCard
  <2> QED
    BY <2>1, <2>2, Honest
<1> QED
  BY <1>1, <1>2, <1>3, <1>4

LEMMA NoDamage ==
  ASSUME Reported, Strong, NEW name \in {"active", "backup"}, Damage(name) PROVE FALSE
BY Honest DEF Damage

HIDE DEF Strong, Agreement, LoadKnows, Waits, DropsNothing, Agrees, IInv, TypeOK,
         ReadBack, Reinspects, Recovered, LoadLabels, SaveLabels, FileNames, FileStates,
         Contents, disk, Fault, NoFault

LEMMA NextAgrees == ASSUME Reported, Strong, [Next]_vars PROVE Agreement'
<1>0. UNCHANGED adapter
  BY DEF Next, vars
<1>1. CASE TaskStep
  BY <1>0, <1>1, LoadLockAgrees, LoadActiveAgrees, LoadBackupAgrees, SaveLockAgrees,
     SaveActiveAgrees, SaveBackupAgrees, StageAgrees, VerifyAgrees, DropBackupAgrees,
     RotateAgrees, PublishAgrees, RollbackAgrees, DropActiveAgrees, PromoteAgrees,
     CommitRamAgrees, Zenon DEF TaskStep
<1>2. CASE UNCHANGED vars
  BY <1>2 DEF vars, Strong, Agreement, LoadKnows, Waits, DropsNothing, Agrees,
     Reinspects, Recovered
<1> QED
  BY <1>0, <1>1, <1>2, SubmitAgrees, OthersAgree, NoDamage DEF Next

LEMMA InitAgrees == ASSUME Init PROVE Agreement
BY DEF Init, Agreement, LoadKnows, Waits, DropsNothing, Agrees, LoadLabels, SaveLabels,
   Recovered, Reinspects

LEMMA StrongAlways == ASSUME Reported PROVE Spec => []Strong
<1>1. IInv /\ Agreement /\ [Next]_vars => Agreement'
  BY NextAgrees DEF Strong
<1>2. IInv /\ Agreement => Strong
  BY DEF Strong
<1> QED
  BY <1>1, <1>2, InitAgrees, Inductive, PTL DEF Spec

(* Between requests the table in RAM is the one the next boot would load,  *)
(* for all adapters, after any mixture of reported failures, rollbacks     *)
(* that failed, crashes and retried loads.                                 *)
THEOREM RamAlwaysMatchesCard == Reported => (Spec => []RamMatchesCard)
<1> SUFFICES ASSUME Reported PROVE Spec => []RamMatchesCard
  OBVIOUS
<1>1. Strong => RamMatchesCard
  BY DEF Strong, Agreement, Agrees, RamMatchesCard, LoadLabels
<1> QED
  BY <1>1, StrongAlways, PTL

-----------------------------------------------------------------------------
(* The refinement.  The register takes a request when the save begins,     *)
(* commits it with the rename that publishes the candidate, and answers    *)
(* when RAM has followed or the save is given up.                          *)

(* A statement of a save before the last: it goes on or gives up.          *)
SaveStep ==
  /\ pc \in SaveLabels \ {"commit"}
  /\ UNCHANGED <<loaded, ram, cand>>
  /\ \/ pc' \in SaveLabels /\ UNCHANGED reply
     \/ pc' = "idle" /\ reply' = "failed"

LEMMA SaveStepRefines ==
  ASSUME Strong, Agreement', SaveStep PROVE [Register!Next]_Register!vars
<1>1. /\ Recover(file) = ram
      /\ Recover(file') = IF pc' = "commit" THEN cand ELSE ram
  BY DEF Strong, Agreement, Agrees, Waits, SaveStep, SaveLabels, LoadLabels
<1>2. RegisterPhase = "asked"
  BY DEF SaveStep, RegisterPhase
<1>3. CASE pc' \in SaveLabels \ {"commit"}
  <2>1. RegisterPhase' = "asked" /\ UNCHANGED <<cand, reply>>
    BY <1>3 DEF SaveStep, RegisterPhase, SaveLabels
  <2> QED
    BY <1>1, <1>2, <1>3, <2>1 DEF Register!vars
<1>4. CASE pc' = "commit"
  <2>1. RegisterPhase' = "committed" /\ UNCHANGED <<cand, reply>>
    BY <1>4 DEF SaveStep, RegisterPhase
  <2>2. Register!Commit
    BY <1>1, <1>2, <1>4, <2>1 DEF Register!Commit
  <2> QED
    BY <2>2 DEF Register!Next
<1>5. CASE pc' = "idle" /\ reply' = "failed"
  <2>1. RegisterPhase' = "free" /\ UNCHANGED cand
    BY <1>5 DEF SaveStep, RegisterPhase, SaveLabels
  <2>2. Register!Refuse
    BY <1>1, <1>2, <1>5, <2>1 DEF Register!Refuse
  <2> QED
    BY <2>2 DEF Register!Next
<1> QED
  BY <1>3, <1>4, <1>5 DEF SaveStep

LEMMA SavesAreSaveSteps ==
  ASSUME \/ SaveLock \/ SaveActive \/ SaveBackup \/ Stage \/ Verify \/ DropBackup
         \/ Rotate \/ Publish \/ Rollback \/ DropActive \/ Promote
  PROVE  SaveStep
<1> USE DEF SaveStep, SaveLabels, SaveFails, Continue
<1>1. CASE SaveLock \/ SaveActive \/ SaveBackup
  BY <1>1 DEF SaveLock, SaveActive, SaveBackup
<1>2. CASE Stage \/ Verify
  BY <1>2 DEF Stage, Verify, AfterStaging
<1>3. CASE DropBackup \/ Rotate \/ Publish
  BY <1>3 DEF DropBackup, Rotate, Publish, AfterRename
<1>4. CASE Rollback \/ DropActive \/ Promote
  BY <1>4 DEF Rollback, DropActive, Promote, AfterRename
<1> QED
  BY <1>1, <1>2, <1>3, <1>4

(* A load answers a write that waited for it, or begins to save it.        *)
LEMMA LoadRefines ==
  ASSUME Strong, Agreement', LoadLock \/ LoadActive \/ LoadBackup
  PROVE  [Register!Next]_Register!vars
<1>1. /\ pc \in LoadLabels /\ UNCHANGED file
      /\ \/ pc' \in LoadLabels /\ UNCHANGED <<reply, cand>>
         \/ \E blob : /\ ram' = blob /\ loaded' /\ UNCHANGED reply
                      /\ IF pend = NoReq
                         THEN pc' = "idle" /\ UNCHANGED cand
                         ELSE pc' = "saveLock" /\ cand' = Patched(blob, pend)
         \/ /\ pc' = "idle" /\ UNCHANGED cand
            /\ reply' = IF pend = NoReq THEN reply ELSE "failed"
  BY DEF LoadLock, LoadActive, LoadBackup, LoadSucceeds, LoadFails, LoadLabels, disk
<1>2. RegisterPhase = "free"
  BY <1>1 DEF RegisterPhase, LoadLabels, SaveLabels
<1>3. CASE pc' \in LoadLabels \cup {"idle"} /\ UNCHANGED <<reply, cand>>
  <2>1. RegisterPhase' = "free"
    BY <1>3 DEF RegisterPhase, LoadLabels, SaveLabels
  <2> QED
    BY <1>1, <1>2, <1>3, <2>1 DEF Register!vars
<1>4. CASE pc' = "saveLock"
  <2>1. /\ loaded' /\ pend # NoReq /\ UNCHANGED reply
        /\ cand' = Patched(ram', pend)
    BY <1>1, <1>4 DEF LoadLabels
  <2>2. reply = "none" /\ pend \in Keys \X Vals
    BY <1>1, <2>1 DEF Strong, Agreement, Waits, IInv, TypeOK
  <2>3. ram' = Recover(file)
    BY <1>1, <1>4, <2>1 DEF Agreement, Agrees, LoadLabels
  <2>4. RegisterPhase' = "asked"
    BY <1>4 DEF RegisterPhase, SaveLabels
  <2>5. Register!Ask(pend[1], pend[2])
    BY <1>1, <1>2, <2>1, <2>2, <2>3, <2>4 DEF Register!Ask, Patched
  <2> QED
    BY <2>2, <2>5 DEF Register!Next
<1>5. CASE pc' = "idle" /\ UNCHANGED cand /\ reply' = "failed"
  <2>1. RegisterPhase' = "free"
    BY <1>5 DEF RegisterPhase, SaveLabels
  <2>2. Register!Reject
    BY <1>1, <1>2, <1>5, <2>1 DEF Register!Reject
  <2> QED
    BY <2>2 DEF Register!Next
<1> QED
  BY <1>1, <1>3, <1>4, <1>5

LEMMA CommitRamRefines ==
  ASSUME CommitRam PROVE [Register!Next]_Register!vars
<1>1. RegisterPhase = "committed" /\ RegisterPhase' = "free"
  BY DEF CommitRam, RegisterPhase, SaveLabels
<1>2. Register!Acknowledge
  BY <1>1 DEF CommitRam, Register!Acknowledge, disk
<1> QED
  BY <1>2 DEF Register!Next

LEMMA SubmitRefines ==
  ASSUME Strong, NEW k \in Keys, NEW v \in Vals, Submit(k, v), UNCHANGED adapter
  PROVE  [Register!Next]_Register!vars
<1>1. pc = "idle" /\ RegisterPhase = "free" /\ UNCHANGED file
  BY DEF Submit, RegisterPhase, SaveLabels, disk
<1>2. CASE SaveRegistered /\ pc' = "saveLock"
  <2>1. RegisterPhase' = "asked"
    BY <1>2 DEF RegisterPhase, SaveLabels
  <2>2. loaded
    BY <1>1, <1>2 DEF SaveRegistered, GateOnLoad, Strong, Agreement, Waits, LoadLabels
  <2>3. Recover(file) = ram
    BY <1>1, <2>2 DEF Strong, Agreement, Agrees, LoadLabels
  <2>4. Register!Ask(k, v)
    BY <1>1, <1>2, <2>1, <2>3 DEF Submit, Patched, Register!Ask
  <2> QED
    BY <2>4 DEF Register!Next
<1>3. CASE ~SaveRegistered
  <2>1. /\ pc' \in {"loadLock", "idle"} /\ UNCHANGED cand
        /\ reply' \in {"none", "failed"}
    BY <1>1, <1>3 DEF Submit
  <2>2. RegisterPhase' = "free"
    BY <2>1 DEF RegisterPhase, SaveLabels
  <2>3. Register!Reject
    BY <1>1, <2>1, <2>2 DEF Register!Reject
  <2> QED
    BY <2>3 DEF Register!Next
<1> QED
  BY <1>2, <1>3 DEF Submit

(* A power failure while the candidate is being written tears a file that  *)
(* no boot reads; anywhere else the register is already on one side.       *)
LEMMA CrashRefines ==
  ASSUME Strong, Crash PROVE [Register!Next]_Register!vars
<1>1. Recover(file') = Recover(file)
  BY DEF Crash, Recover, Strong, IInv, TypeOK, FileNames
<1>2. RegisterPhase' = "free" /\ reply' = "none" /\ cand' = DefaultBlob
  BY DEF Crash, RegisterPhase, SaveLabels
<1>3. Register!PowerCycle
  BY <1>1, <1>2 DEF Register!PowerCycle
<1> QED
  BY <1>3 DEF Register!Next

LEMMA OthersStutter ==
  ASSUME ReloadLpc \/ EjectCard \/ InsertCard \/ UNCHANGED vars
  PROVE  UNCHANGED Register!vars
<1>1. /\ UNCHANGED <<file, cand, reply>>
      /\ \/ pc' = pc
         \/ /\ pc = "idle"
            /\ pc' = "loadLock"
  BY DEF ReloadLpc, EjectCard, InsertCard, vars, disk
<1> QED
  BY <1>1 DEF Register!vars, RegisterPhase, SaveLabels

LEMMA StepRefines ==
  ASSUME Reported, Strong, [Next]_vars PROVE [Register!Next]_Register!vars
<1>1. Agreement'
  BY NextAgrees
<1>2. CASE TaskStep
  BY <1>1, <1>2, SavesAreSaveSteps, SaveStepRefines, LoadRefines, CommitRamRefines, Zenon
  DEF TaskStep
<1>3. CASE \E k \in Keys, v \in Vals : Submit(k, v)
  BY <1>3, SubmitRefines DEF Next, vars
<1> QED
  BY <1>2, <1>3, CrashRefines, OthersStutter, NoDamage DEF Next

(* "Save must return 1 only once its complete byte buffer is durably       *)
(* committed" (http_sensor_settings.h:27), with everything else a caller   *)
(* relies on: every adapter is one durable register, over which a request  *)
(* takes effect once and wholly or not at all, power failures included.    *)
THEOREM StorageIsRegister == Reported => (Spec => ImplementsRegister)
<1> SUFFICES ASSUME Reported PROVE Spec => ImplementsRegister
  OBVIOUS
<1>1. Init => Register!Init
  BY ConstantsAssumption
  DEF Init, Register!Init, RegisterPhase, SaveLabels, Recover, FileNames
<1>2. Strong /\ [Next]_vars => [Register!Next]_Register!vars
  BY StepRefines
<1> QED
  BY <1>1, <1>2, StrongAlways, PTL DEF Spec, ImplementsRegister, Register!Spec
=============================================================================
