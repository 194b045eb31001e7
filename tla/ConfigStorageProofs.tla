------------------------ MODULE ConfigStorageProofs ------------------------
(***************************************************************************)
(* Theorems about ConfigStorage, for every table of settings, every set of *)
(* faults and any number of them.                                          *)
(***************************************************************************)
EXTENDS ConfigStorage, TLAPS

(* What each statement of a save may rely on about the files it is about   *)
(* to move: the facts that were checked earlier are still true.            *)
ChecksHold ==
  Reinspects =>
    /\ pc = "saveBackup" => seen.active \in {"missing", "corrupt"}
    /\ pc \in {"stage", "verify"} =>
         /\ seen.active \in {"valid", "missing", "corrupt"}
         /\ seen.active = "valid" => file["active"] \in Blobs
         /\ seen.active = "corrupt" => file["backup"] \in Blobs
    /\ pc \in {"dropBackup", "rotate"} => file["active"] \in Blobs
    /\ pc \in {"publish", "rollback", "dropActive"} => file["backup"] \in Blobs

(* A save that got past its checks does not find two unusable files: the    *)
(* blockade is decided before the first file is touched.                   *)
Unblocked ==
  Reinspects =>
    /\ pc = "saveBackup" /\ seen.active = "missing" => file["active"] = Missing
    /\ pc \in {"stage", "verify"} /\ seen.active = "missing"
         => \/ file["backup"] \in Blobs
            \/ file["active"] = Missing /\ file["backup"] = Missing
    /\ pc = "promote"
         => \/ file["active"] \in Blobs \/ file["backup"] \in Blobs
            \/ file["active"] = Missing /\ file["backup"] = Missing

(* A bad write cannot pass: there is none, or the read-back finds it.      *)
Trusted == ReadBack \/ "badWrite" \notin FaultsOf[adapter]

(* The rotation then only ever moves the submitted snapshot and the files  *)
(* it replaces are sound.                                                  *)
SnapshotMoves ==
  Trusted =>
    /\ pc \in {"dropBackup", "rotate", "publish", "dropActive", "promote"}
         => file["staging"] = cand
    /\ pc = "commit" => file["active"] = cand
    /\ damages = 0 => file["active"] # Corrupt /\ file["backup"] # Corrupt

(* Nothing changes the LPC files behind the back of lpc_storage.c.         *)
Undisturbed == ~Reinspects /\ FaultsOf[adapter] \cap {"badWrite", "late", "damage"} = {}

(* Then what it remembers of them between the operations stays true.       *)
MemoryTrue ==
  Undisturbed =>
    /\ damages = 0
    /\ pc \notin {"saveActive", "saveBackup", "rollback"}
    /\ pc \in SaveLabels => loaded
    /\ pc = "loadBackup" => /\ seen.active # "valid"
                            /\ seen.active = "missing" => file["active"] = Missing
    /\ loaded /\ pc \notin LoadLabels =>
         IF Recovered
         THEN file["backup"] \in Blobs
         ELSE \/ file["active"] \in Blobs
              \/ file["active"] = Missing /\ file["backup"] = Missing
    /\ pc \in {"dropBackup", "rotate"} => ~Recovered
    /\ pc \in {"dropActive", "promote"} => Recovered

IInv == TypeOK /\ ChecksHold /\ Unblocked /\ SnapshotMoves /\ MemoryTrue

LEMMA DefaultBlobIsBlob == DefaultBlob \in Blobs
BY ConstantsAssumption DEF DefaultBlob, Blobs

(***************************************************************************)
(* One lemma per action: the action preserves the inductive invariant.     *)
(***************************************************************************)
USE ConstantsAssumption
    DEF IInv, TypeOK, ChecksHold, Unblocked, SnapshotMoves, MemoryTrue, Trusted,
        Undisturbed, Recovered, ReadBack, Reinspects, Blobs, Contents, FileNames,
        LoadLabels, SaveLabels, FileStates, Statuses, disk, Fault, NoFault

LEMMA LoadLockStep == IInv /\ LoadLock /\ UNCHANGED adapter => IInv'
<1>. SUFFICES ASSUME IInv, LoadLock, UNCHANGED adapter PROVE IInv'
  OBVIOUS
<1>1. loaded' \in BOOLEAN
  BY ZenonT(30) DEF LoadLock, LoadFails
<1>. QED
  BY <1>1 DEF LoadLock, LoadFails

LEMMA LoadActiveStep == IInv /\ LoadActive /\ UNCHANGED adapter => IInv'
<1>. SUFFICES ASSUME IInv, LoadActive, UNCHANGED adapter PROVE IInv'
  OBVIOUS
<1>1. loaded' \in BOOLEAN
  BY ZenonT(30) DEF LoadActive, LoadSucceeds
<1>. QED
  BY <1>1 DEF LoadActive, LoadSucceeds, ReadFile, Classify, Patched

LEMMA LoadBackupStep == IInv /\ LoadBackup /\ UNCHANGED adapter => IInv'
<1>. SUFFICES ASSUME IInv, LoadBackup, UNCHANGED adapter PROVE IInv'
  OBVIOUS
<1>1. loaded' \in BOOLEAN
  BY ZenonT(30) DEF LoadBackup, LoadSucceeds, LoadFails
<1>2. PICK out \in FileStates :
        /\ ReadFile("backup", "loadGlitch", out)
        /\ seen' = [seen EXCEPT !.backup = out]
        /\ \/ out = "valid" /\ LoadSucceeds(file["backup"], "recoveredBackup")
           \/ /\ out = "missing" /\ seen.active = "missing"
              /\ LoadSucceeds(DefaultBlob, "defaults")
           \/ LoadFails("corrupt")
           \/ LoadFails("ioError")
  BY DEF LoadBackup
<1>3. faults' \in 0..MaxFaults
  BY <1>2 DEF ReadFile
<1>4. CASE out = "valid" /\ LoadSucceeds(file["backup"], "recoveredBackup")
  <2>1. file["backup"] \in Blobs
    BY <1>2, <1>4 DEF ReadFile, Classify
  <2>2. /\ seen' \in [active : FileStates, backup : FileStates]
        /\ seen'.active = seen.active /\ seen'.backup = "valid"
    BY <1>2, <1>4
  <2>3. TypeOK'
    BY <1>1, <1>3, <1>4, <2>1, <2>2 DEF LoadSucceeds, Patched
  <2>4. ChecksHold' /\ Unblocked' /\ SnapshotMoves'
    BY <1>4, <2>1 DEF LoadSucceeds
  <2>5. MemoryTrue'
    <3>1. loaded' /\ file' = file /\ damages' = damages /\ pc' \in {"idle", "saveLock"}
      BY <1>4, Zenon DEF LoadSucceeds
    <3>2. ASSUME Undisturbed PROVE Recovered'
      BY <2>2, <3>2, <1>2, <1>4 DEF LoadBackup
    <3>3. Undisturbed' => Undisturbed
      OBVIOUS
    <3>. QED
      BY <2>1, <3>1, <3>2, <3>3
  <2>. QED
    BY <2>3, <2>4, <2>5
<1>5. CASE /\ out = "missing" /\ seen.active = "missing"
           /\ LoadSucceeds(DefaultBlob, "defaults")
  BY <1>1, <1>2, <1>3, <1>5, DefaultBlobIsBlob
     DEF LoadSucceeds, ReadFile, Classify, Patched
<1>6. CASE LoadFails("corrupt") \/ LoadFails("ioError")
  BY <1>1, <1>2, <1>3, <1>6 DEF LoadFails
<1>. QED
  BY <1>2, <1>4, <1>5, <1>6

LEMMA SaveLockStep == IInv /\ SaveLock /\ UNCHANGED adapter => IInv'
BY DEF SaveLock, SaveFails, Continue

LEMMA SaveActiveStep == IInv /\ SaveActive /\ UNCHANGED adapter => IInv'
BY DEF SaveActive, ReadFile, Classify, SaveFails, Continue

LEMMA SaveBackupStep == IInv /\ SaveBackup /\ UNCHANGED adapter => IInv'
BY DEF SaveBackup, ReadFile, Classify, SaveFails, Continue

LEMMA StageStep == IInv /\ Stage /\ UNCHANGED adapter => IInv'
BY DEF Stage, SaveFails, Continue, AfterStaging, TornStaging

LEMMA VerifyStep == IInv /\ Verify /\ UNCHANGED adapter => IInv'
BY DEF Verify, ReadFile, Classify, SaveFails, Continue, AfterStaging

LEMMA DropBackupStep == IInv /\ DropBackup /\ UNCHANGED adapter => IInv'
BY DEF DropBackup, AfterRename, Remember, AbsentIsFine, Unlink, Rename, DirectoryOp, SaveFails, Continue

LEMMA RotateStep == IInv /\ Rotate /\ UNCHANGED adapter => IInv'
BY DEF Rotate, AfterRename, Remember, AbsentIsFine, Unlink, Rename, DirectoryOp, SaveFails, Continue

LEMMA PublishStep == IInv /\ Publish /\ UNCHANGED adapter => IInv'
BY DEF Publish, AfterRename, Remember, AbsentIsFine, Unlink, Rename, DirectoryOp, SaveFails, Continue

LEMMA RollbackStep == IInv /\ Rollback /\ UNCHANGED adapter => IInv'
BY DEF Rollback, AfterRename, Unlink, Rename, DirectoryOp, SaveFails, Continue

LEMMA DropActiveStep == IInv /\ DropActive /\ UNCHANGED adapter => IInv'
BY DEF DropActive, AfterRename, Unlink, Rename, DirectoryOp, SaveFails, Continue

LEMMA PromoteStep == IInv /\ Promote /\ UNCHANGED adapter => IInv'
BY DEF Promote, AfterRename, Remember, AbsentIsFine, Unlink, Rename, DirectoryOp, SaveFails, Continue

LEMMA CommitRamStep == IInv /\ CommitRam /\ UNCHANGED adapter => IInv'
BY DEF CommitRam

LEMMA CrashStep == IInv /\ Crash /\ UNCHANGED adapter => IInv'
<1>. SUFFICES ASSUME IInv, Crash, UNCHANGED adapter PROVE IInv'
  OBVIOUS
<1>1. loaded' \in BOOLEAN
  BY ZenonT(30) DEF Crash
<1>. QED
  BY <1>1 DEF Crash, TornStaging, DefaultBlob

LEMMA EjectCardStep == IInv /\ EjectCard /\ UNCHANGED adapter => IInv'
<1>. SUFFICES ASSUME IInv, EjectCard, UNCHANGED adapter PROVE IInv'
  OBVIOUS
<1>1. card' \in BOOLEAN
  BY ZenonT(30) DEF EjectCard
<1>. QED
  BY <1>1 DEF EjectCard

LEMMA InsertCardStep == IInv /\ InsertCard /\ UNCHANGED adapter => IInv'
BY DEF InsertCard

LEMMA DamageStep == ASSUME NEW name \in {"active", "backup"}
                    PROVE  IInv /\ Damage(name) /\ UNCHANGED adapter => IInv'
BY DEF Damage

LEMMA SubmitStep == ASSUME NEW k \in Keys, NEW v \in Vals
                    PROVE  IInv /\ Submit(k, v) /\ UNCHANGED adapter => IInv'
BY DEF Submit, Patched, SaveRegistered, GateOnLoad

LEMMA ReloadLpcStep == IInv /\ ReloadLpc /\ UNCHANGED adapter => IInv'
BY DefaultBlobIsBlob DEF ReloadLpc

LEMMA InitStep == Init => IInv
<1>. SUFFICES ASSUME Init PROVE IInv
  OBVIOUS
<1>1. card \in BOOLEAN /\ loaded \in BOOLEAN
  BY ZenonT(30) DEF Init
<1>. QED
  BY <1>1, DefaultBlobIsBlob DEF Init

LEMMA StutterStep == IInv /\ UNCHANGED vars => IInv'
BY DEF vars

(***************************************************************************)
(* The theorems.                                                           *)
(***************************************************************************)
HIDE DEF IInv, TypeOK, ChecksHold, Unblocked, SnapshotMoves, MemoryTrue, Trusted,
         Undisturbed, Recovered, ReadBack, Reinspects, Blobs, Contents, FileNames,
         LoadLabels, SaveLabels, FileStates, Statuses, disk, Fault, NoFault

(* The strengthened invariant holds of every behaviour.                    *)
THEOREM Inductive == Spec => []IInv
<1>2. IInv /\ [Next]_vars => IInv'
  <2>. SUFFICES ASSUME IInv, [Next]_vars PROVE IInv'
    OBVIOUS
  <2>0. UNCHANGED adapter
    BY DEF Next, vars
  <2>1. CASE TaskStep
    BY <2>0, <2>1, LoadLockStep, LoadActiveStep, LoadBackupStep, SaveLockStep,
       SaveActiveStep, SaveBackupStep, StageStep, VerifyStep, DropBackupStep,
       RotateStep, PublishStep, RollbackStep, DropActiveStep, PromoteStep,
       CommitRamStep, Zenon DEF TaskStep
  <2>2. CASE \E k \in Keys, v \in Vals : Submit(k, v)
    BY <2>0, <2>2, SubmitStep
  <2>3. CASE ReloadLpc \/ Crash \/ EjectCard \/ InsertCard
    BY <2>0, <2>3, ReloadLpcStep, CrashStep, EjectCardStep, InsertCardStep
  <2>4. CASE \E name \in {"active", "backup"} : Damage(name)
    BY <2>0, <2>4, DamageStep
  <2>5. CASE UNCHANGED vars
    BY <2>5, StutterStep
  <2>. QED
    BY <2>1, <2>2, <2>3, <2>4, <2>5 DEF Next
<1>. QED
  BY InitStep, <1>2, PTL DEF Spec

(* Type correctness: in particular RAM only ever holds a valid table.      *)
THEOREM TypeCorrect == Spec => []TypeOK
<1>1. IInv => TypeOK
  BY DEF IInv
<1>. QED
  BY <1>1, Inductive, PTL

(* The silent bad writes an adapter may meet are found by its read-back.   *)
AllTrusted == \A a \in Adapters : a = "settings" \/ "badWrite" \notin FaultsOf[a]

LEMMA TrustedHolds == ASSUME AllTrusted, TypeOK PROVE Trusted
BY DEF AllTrusted, TypeOK, Trusted, ReadBack

(* A save that reports success has stored its snapshot: with the read-back *)
(* whatever the card does, without it on a card that reports its errors.   *)
THEOREM SavedIsStoredAlways == AllTrusted => (Spec => []SavedIsStored)
<1>. SUFFICES ASSUME AllTrusted PROVE Spec => []SavedIsStored
  OBVIOUS
<1>1. IInv => SavedIsStored
  BY TrustedHolds DEF IInv, SnapshotMoves, SavedIsStored
<1>. QED
  BY <1>1, Inductive, PTL

(* On the same terms the firmware cannot lock itself out of its            *)
(* configuration.                                                          *)
THEOREM NoSelfLockoutAlways == AllTrusted => (Spec => []NoSelfLockout)
<1>. SUFFICES ASSUME AllTrusted PROVE Spec => []NoSelfLockout
  OBVIOUS
<1>1. IInv => NoSelfLockout
  BY ConstantsAssumption, TrustedHolds
     DEF IInv, SnapshotMoves, NoSelfLockout, LockedOut, HasValid
<1>. QED
  BY <1>1, Inductive, PTL

(* The files of lpc_storage.c only change through it.                      *)
LpcUndisturbed ==
  \A a \in Adapters : a = "lpc" => FaultsOf[a] \cap {"badWrite", "late", "damage"} = {}

LEMMA InspectedOrUndisturbed ==
  ASSUME LpcUndisturbed, TypeOK PROVE Reinspects \/ Undisturbed
BY DEF LpcUndisturbed, TypeOK, Reinspects, Undisturbed

(* A step of the rotation moves valid files only where ChecksHold or       *)
(* MemoryTrue says that a second one is left.                              *)
LEMMA RotationKeepsValid ==
  IInv /\ (Reinspects \/ Undisturbed) /\ HasValid(file)
  /\ (DropBackup \/ Rotate \/ Publish \/ Rollback \/ DropActive \/ Promote)
  => HasValid(file')
<1>1. CASE Reinspects
  BY <1>1, ConstantsAssumption
     DEF IInv, TypeOK, ChecksHold, HasValid, FileNames, Contents, DropBackup,
         Rotate, Publish, Rollback, DropActive, Promote, Unlink, Rename,
         DirectoryOp
<1>2. CASE Undisturbed
  BY <1>2, ConstantsAssumption
     DEF IInv, TypeOK, MemoryTrue, HasValid, FileNames, Contents, DropBackup,
         SaveLabels, LoadLabels, Undisturbed, Fault,
         Rotate, Publish, Rollback, DropActive, Promote, Unlink, Rename,
         DirectoryOp
<1>. QED
  BY <1>1, <1>2

(* The steps that touch neither the active nor the backup file.            *)
LEMMA FilesUntouched ==
  ASSUME IInv,
         \/ LoadLock \/ LoadActive \/ LoadBackup \/ SaveLock \/ SaveActive
         \/ SaveBackup \/ Stage \/ Verify \/ CommitRam \/ EjectCard \/ InsertCard
         \/ Crash \/ ReloadLpc \/ \E k \in Keys, v \in Vals : Submit(k, v)
  PROVE  /\ file'["active"] = file["active"]
         /\ file'["backup"] = file["backup"]
<1>1. CASE Stage \/ Crash
  BY <1>1 DEF Stage, Crash, IInv, TypeOK, FileNames
<1>2. CASE ~(Stage \/ Crash)
  BY <1>2 DEF LoadLock, LoadActive, LoadBackup, LoadSucceeds, LoadFails,
              SaveLock, SaveActive, SaveBackup, Verify, CommitRam,
              EjectCard, InsertCard, ReloadLpc, Submit, disk
<1>. QED
  BY <1>1, <1>2

(* No adapter ever destroys the last valid copy, under any faults; the LPC *)
(* adapter as long as its files change only through it.                    *)
THEOREM ValidCopyAlwaysKept == LpcUndisturbed => (Spec => ValidCopyKept)
<1>. SUFFICES ASSUME LpcUndisturbed PROVE Spec => ValidCopyKept
  OBVIOUS
<1>1. ASSUME IInv, Next, HasValid(file), damages' = damages
      PROVE  HasValid(file')
  <2>1. CASE \E name \in {"active", "backup"} : Damage(name)
    BY <1>1, <2>1 DEF Damage, IInv, TypeOK
  <2>2. CASE DropBackup \/ Rotate \/ Publish \/ Rollback \/ DropActive \/ Promote
    BY <1>1, <2>2, RotationKeepsValid, InspectedOrUndisturbed DEF IInv
  <2>. QED
    BY <1>1, <2>1, <2>2, FilesUntouched DEF Next, TaskStep, HasValid
<1>2. IInv /\ [Next]_vars
        => [HasValid(file) /\ damages' = damages => HasValid(file')]_vars
  BY <1>1
<1>. QED
  BY <1>2, Inductive, PTL DEF Spec, ValidCopyKept

(* When neither file is usable and one is corrupt, no step of an adapter,   *)
(* no power failure and no further damage touches the two files.           *)
THEOREM SalvageAlwaysKept == LpcUndisturbed => (Spec => SalvageKept)
<1>. SUFFICES ASSUME LpcUndisturbed PROVE Spec => SalvageKept
  OBVIOUS
<1>1. ASSUME IInv, Next, LockedOut(file)
      PROVE  /\ file'["active"] = file["active"]
             /\ file'["backup"] = file["backup"]
  <2>0. Corrupt # Missing /\ Corrupt \notin Blobs
    BY ConstantsAssumption
  <2>1. Reinspects
    BY <1>1, InspectedOrUndisturbed
       DEF IInv, SnapshotMoves, MemoryTrue, Trusted, Undisturbed, LockedOut
  <2>2. CASE \E name \in {"active", "backup"} : Damage(name)
    BY <1>1, <2>2 DEF Damage, LockedOut, HasValid
  <2>3. CASE DropBackup \/ Rotate \/ Publish \/ Rollback \/ DropActive
    BY <1>1, <2>1, <2>3 DEF IInv, ChecksHold, LockedOut, HasValid, DropBackup,
                      Rotate, Publish, Rollback, DropActive
  <2>4. CASE Promote
    BY <1>1, <2>0, <2>1, <2>4 DEF IInv, Unblocked, LockedOut, HasValid, Promote
  <2>. QED
    BY <1>1, <2>2, <2>3, <2>4, FilesUntouched DEF Next, TaskStep
<1>2. IInv /\ [Next]_vars
        => [LockedOut(file) => /\ file'["active"] = file["active"]
                               /\ file'["backup"] = file["backup"]]_vars
  BY <1>1
<1>. QED
  BY <1>2, Inductive, PTL DEF Spec, SalvageKept
=============================================================================
