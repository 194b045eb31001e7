--------------------------- MODULE ConfigStorage ---------------------------
(***************************************************************************)
(* The three transactional configuration files of the firmware,            *)
(*   settings  h7conf.{bin,bak,tmp}   HTTP/http_settings_storage.c         *)
(*   sensor    h7sense.{bin,bak,tmp}  HTTP/http_sensor_storage.c           *)
(*   lpc       LPCSET.{BIN,BAK,TMP}   LPC2148/lpc_storage.c                *)
(* together with the part of their models that decides when a save is      *)
(* allowed and when its result reaches RAM (HTTP_SettingsModelInit and     *)
(* HTTP_SettingsApplyTarget; HTTP_SensorSettingsInit and ...SavePort;      *)
(* LPC_SettingsInit and LPC_ApplyTarget).                                  *)
(*                                                                         *)
(* The adapters run one protocol with differences; a behaviour belongs to  *)
(* one adapter, the variable of that name, which never changes:            *)
(*   ReadBack    the staging file is read back before the rotation, and    *)
(*               an HTTP write retries a failed load (settings);           *)
(*   GateOnLoad  nothing is saved until a load succeeded (not sensor);     *)
(*   Reinspects  a save looks at the files again before it touches one     *)
(*               (not lpc, which trusts what its load found).              *)
(*                                                                         *)
(* One step is one FatFs call (opening, writing, syncing and closing the   *)
(* staging file are one), so that power may fail between any two of them.  *)
(* A settings blob is a function from Keys to Vals: a key stands for what  *)
(* one form writes (a sensor port, a settings page), a blob is what one    *)
(* file holds.  Serialisation, CRC and schema are abstracted to the        *)
(* question whether ValidateBlob accepts the file.                         *)
(***************************************************************************)
EXTENDS Naturals

CONSTANTS Keys, Vals, DefaultVal,
          Adapters,             \* the adapters a behaviour may belong to
          Missing, Corrupt,     \* file contents other than a valid blob
          NoReq,                \* no write is being served
          FaultsOf,             \* kinds of fault that may happen to each
          MaxFaults,            \* how many of them in one behaviour
          MaxDamage             \* how many files go bad at rest

Blobs == [Keys -> Vals]
DefaultBlob == [k \in Keys |-> DefaultVal]

FaultKinds ==
  {"damage",     \* a file at rest goes bad
   "lock",       \* Semphr_cardSD is not free within 1000 ticks
   "loadGlitch", \* one read fails while the files are loaded
   "saveGlitch", \* one read fails while a save inspects the files
   "write",      \* open, write, sync or close of the staging file fails
   "badWrite",   \* the staging write reports success but stored other bytes
   "dir",        \* f_unlink or f_rename fails and changes nothing
   "late",       \* f_unlink or f_rename fails after the change was made
   "eject",      \* the card is pulled out
   "crash"}      \* power failure or watchdog reset

ASSUME ConstantsAssumption ==
  /\ DefaultVal \in Vals
  /\ Adapters \subseteq {"settings", "sensor", "lpc"}
  /\ Missing \notin Blobs
  /\ Corrupt \notin Blobs
  /\ Missing # Corrupt
  /\ NoReq \notin Keys \X Vals
  /\ FaultsOf \in [Adapters -> SUBSET FaultKinds]
  /\ MaxFaults \in Nat
  /\ MaxDamage \in Nat

FileNames == {"active", "backup", "staging"}
Contents == Blobs \cup {Missing, Corrupt}

VARIABLES
  adapter,  \* whose files these are
  file,     \* [FileNames -> Contents], what the card holds
  card,     \* the card is in the slot
  pc,       \* next statement of the WiFi task in this component
  seen,     \* activeState and backupState of the running operation; for
            \* lpc they outlive it, as the flag recovered_backup
  status,   \* storageStatus (lpc has none: the adapter's result)
  ram,      \* the model's table: settings[] / current_blob / current
  loaded,   \* settingsLoaded, settings_ready: the last load gave 0 or 1
  cand,     \* the blob handed to the save callback
  pend,     \* <<key, value>> of the write being served, or NoReq
  reply,    \* answer to the last write
  faults,   \* faults so far (bounds the behaviour)
  damages   \* files damaged at rest so far (bounds the behaviour)

disk == <<file, card>>
vars == <<adapter, file, card, pc, seen, status, ram, loaded, cand, pend, reply,
          faults, damages>>

LoadLabels == {"loadLock", "loadActive", "loadBackup"}
SaveLabels == {"saveLock", "saveActive", "saveBackup", "stage", "verify",
               "dropBackup", "rotate", "publish", "rollback",
               "dropActive", "promote", "commit"}
FileStates == {"missing", "valid", "corrupt", "ioError"}
Statuses == {"notInitialized", "ready", "defaults", "recoveredBackup",
             "corrupt", "ioError", "lockTimeout"}

TypeOK ==
  /\ adapter \in Adapters
  /\ file \in [FileNames -> Contents]
  /\ card \in BOOLEAN
  /\ pc \in {"idle"} \cup LoadLabels \cup SaveLabels
  /\ seen \in [active : FileStates, backup : FileStates]
  /\ status \in Statuses
  /\ ram \in Blobs
  /\ loaded \in BOOLEAN
  /\ cand \in Blobs
  /\ pend \in (Keys \X Vals) \cup {NoReq}
  /\ reply \in {"none", "saved", "failed"}
  /\ faults \in 0..MaxFaults
  /\ damages \in 0..MaxDamage

-----------------------------------------------------------------------------
(* FatFs and the card.                                                     *)

ReadBack == adapter = "settings"
GateOnLoad == adapter # "sensor"
Reinspects == adapter # "lpc"

Fault(kind) == /\ kind \in FaultsOf[adapter]
               /\ faults < MaxFaults
               /\ faults' = faults + 1
NoFault == UNCHANGED faults

(* What ReadFile says about a file the card can deliver.                   *)
Classify_NoValidation(c) == IF c = Missing THEN "missing" ELSE "valid"
Classify(c) == CASE c = Missing -> "missing"
                 [] c = Corrupt -> "corrupt"
                 [] OTHER -> "valid"

(* SettingsReadFile / SensorReadFile returns `out'.                        *)
ReadFile(name, glitch, out) ==
  \/ card /\ NoFault /\ out = Classify(file[name])
  \/ card /\ Fault(glitch) /\ out = "ioError"
  \/ ~card /\ NoFault /\ out = "ioError"

(* A directory operation with effect `after' returns FR_OK (ok) or not.    *)
DirectoryOp(after, ok) ==
  \/ card /\ ok /\ NoFault /\ file' = after
  \/ card /\ ~ok /\ Fault("dir") /\ UNCHANGED file
  \/ card /\ ~ok /\ Fault("late") /\ file' = after
  \/ ~card /\ ~ok /\ NoFault /\ UNCHANGED file

(* f_unlink; an absent file (FR_NO_FILE) is not an error to the callers.   *)
Unlink(name, ok) == DirectoryOp([file EXCEPT ![name] = Missing], ok)

(* f_rename refuses an absent source and an existing target.               *)
Rename(old, new, ok) ==
  IF file[old] = Missing \/ file[new] # Missing
  THEN ~ok /\ NoFault /\ UNCHANGED file
  ELSE DirectoryOp([file EXCEPT ![new] = file[old], ![old] = Missing], ok)

(* Contents an interrupted rewrite of the staging file may leave.          *)
TornStaging == {file["staging"], Missing, Corrupt, cand}

-----------------------------------------------------------------------------
(* The table a boot without faults would load.                             *)
Recover(f) == CASE f["active"] \in Blobs -> f["active"]
                [] f["active"] \notin Blobs /\ f["backup"] \in Blobs -> f["backup"]
                [] OTHER -> DefaultBlob

HasValid(f) == f["active"] \in Blobs \/ f["backup"] \in Blobs

(* The state in which the adapters refuse every load and every save.      *)
LockedOut(f) == ~HasValid(f) /\ Corrupt \in {f["active"], f["backup"]}

-----------------------------------------------------------------------------
Init == /\ adapter \in Adapters
        /\ file = [n \in FileNames |-> Missing]
        /\ card = TRUE
        /\ pc = "loadLock"
        /\ seen = [active |-> "missing", backup |-> "missing"]
        /\ status = "notInitialized"
        /\ ram = DefaultBlob
        /\ loaded = FALSE
        /\ cand = DefaultBlob
        /\ pend = NoReq
        /\ reply = "none"
        /\ faults = 0
        /\ damages = 0

(* A save is let through: always after HTTP_SensorSettingsInit, but only   *)
(* after a successful load in HTTP_SettingsModelInit and LPC_StorageInit.  *)
SaveRegistered_Always == TRUE
SaveRegistered == loaded \/ ~GateOnLoad
-----------------------------------------------------------------------------
(* Loading: SettingsLoad / SensorLoad / load, entered at boot, by          *)
(* RetryLoad and by the next request for an LPC page.                      *)

Patched(blob, req) == [blob EXCEPT ![req[1]] = req[2]]

(* The load returns 1 or 0.  A write waiting for it is applied to the      *)
(* table just loaded.                                                      *)
LoadSucceeds(blob, st) ==
  /\ status' = st
  /\ loaded' = TRUE
  /\ ram' = blob
  /\ IF pend = NoReq
     THEN pc' = "idle" /\ UNCHANGED cand
     ELSE pc' = "saveLock" /\ cand' = Patched(blob, pend)
  /\ UNCHANGED <<disk, pend, reply, damages>>

(* The load returns -1: the table keeps its defaults.                      *)
LoadFails(st) ==
  /\ status' = st
  /\ loaded' = FALSE
  /\ pc' = "idle"
  /\ pend' = NoReq
  /\ reply' = IF pend = NoReq THEN reply ELSE "failed"
  /\ UNCHANGED <<disk, ram, cand, damages>>

LoadLock ==
  /\ pc = "loadLock"
  /\ UNCHANGED seen
  /\ \/ Fault("lock") /\ LoadFails("lockTimeout")
     \/ /\ NoFault
        /\ pc' = "loadActive"
        /\ UNCHANGED <<disk, status, ram, loaded, cand, pend, reply, damages>>

LoadActive ==
  /\ pc = "loadActive"
  /\ \E out \in FileStates :
       /\ ReadFile("active", "loadGlitch", out)
       /\ seen' = [active |-> out, backup |-> "missing"]
       /\ IF out = "valid"
          THEN LoadSucceeds(file["active"], "ready")
          ELSE /\ pc' = "loadBackup"
               /\ UNCHANGED <<disk, status, ram, loaded, cand, pend, reply, damages>>

LoadBackup ==
  /\ pc = "loadBackup"
  /\ \E out \in FileStates :
       /\ ReadFile("backup", "loadGlitch", out)
       /\ seen' = [seen EXCEPT !.backup = out]
       /\ \/ out = "valid" /\ LoadSucceeds(file["backup"], "recoveredBackup")
          \/ /\ out = "missing" /\ seen.active = "missing"
             /\ LoadSucceeds(DefaultBlob, "defaults")
          \/ /\ out # "valid" /\ "corrupt" \in {out, seen.active}
             /\ LoadFails("corrupt")
          \/ /\ out # "valid" /\ "corrupt" \notin {out, seen.active}
             /\ "ioError" \in {out, seen.active}
             /\ LoadFails("ioError")

-----------------------------------------------------------------------------
(* Saving.                                                                 *)

(* A write that passed validation reaches HTTP_SettingsApplyTarget,        *)
(* HTTP_SensorSettingsSavePort or LPC_ApplyTarget: the candidate is the    *)
(* table in RAM with one entry replaced.  Without a save callback an HTTP  *)
(* write of the settings first retries the load (esp32wroom.c); a write    *)
(* from the LCD, and one to LPC pages that are not ready, fails at once.   *)
Submit(k, v) ==
  /\ pc = "idle"
  /\ \/ /\ SaveRegistered
        /\ pc' = "saveLock"
        /\ cand' = Patched(ram, <<k, v>>)
        /\ pend' = <<k, v>>
        /\ reply' = "none"
     \/ /\ ~SaveRegistered /\ ReadBack
        /\ pc' = "loadLock"
        /\ pend' = <<k, v>>
        /\ reply' = "none"
        /\ UNCHANGED cand
     \/ /\ ~SaveRegistered
        /\ reply' = "failed"
        /\ UNCHANGED <<pc, cand, pend>>
  /\ UNCHANGED <<disk, seen, status, ram, loaded, faults, damages>>

(* The save callback returns -1: status is set, the table keeps the old    *)
(* values and the requester is told.                                       *)
SaveFails(st) ==
  /\ pc' = "idle"
  /\ status' = st
  /\ pend' = NoReq
  /\ reply' = "failed"

Continue(label) == pc' = label /\ UNCHANGED <<status, pend, reply>>

SaveLock ==
  /\ pc = "saveLock"
  /\ \/ Fault("lock") /\ SaveFails("lockTimeout")
     \/ NoFault /\ Continue(IF Reinspects THEN "saveActive" ELSE "stage")
  /\ UNCHANGED <<disk, seen, ram, loaded, cand, damages>>

(* "Check the files again": an unreadable active file stops the save.      *)
SaveActive ==
  /\ pc = "saveActive"
  /\ \E out \in FileStates :
       /\ ReadFile("active", "saveGlitch", out)
       /\ seen' = [active |-> out, backup |-> "missing"]
       /\ CASE out = "ioError" -> SaveFails("ioError")
            [] out = "valid" -> Continue("stage")
            [] OTHER -> Continue("saveBackup")
  /\ UNCHANGED <<disk, ram, loaded, cand, damages>>

(* The backup decides whether the save may go on without an active file.   *)
SaveBackup_NoLockout ==
  /\ pc = "saveBackup"
  /\ \E out \in FileStates :
       /\ ReadFile("backup", "saveGlitch", out)
       /\ seen' = [seen EXCEPT !.backup = out]
       /\ IF out = "ioError" THEN SaveFails("ioError") ELSE Continue("stage")
  /\ UNCHANGED <<disk, ram, loaded, cand, damages>>
SaveBackup ==
  /\ pc = "saveBackup"
  /\ \E out \in FileStates :
       /\ ReadFile("backup", "saveGlitch", out)
       /\ seen' = [seen EXCEPT !.backup = out]
       /\ CASE out = "ioError" -> SaveFails("ioError")
            [] out # "ioError" /\ out # "valid"
               /\ "corrupt" \in {out, seen.active} -> SaveFails("corrupt")
            [] OTHER -> Continue("stage")
  /\ UNCHANGED <<disk, ram, loaded, cand, damages>>

(* recovered_backup of lpc_storage.c: the backup is the good copy.         *)
Recovered == seen.active # "valid" /\ seen.backup = "valid"

AfterStaging ==
  CASE ~Reinspects -> IF Recovered THEN "dropActive" ELSE "dropBackup"
    [] Reinspects /\ seen.active = "valid" -> "dropBackup"
    [] Reinspects /\ seen.active = "corrupt" -> "dropActive"
    [] OTHER -> "promote"

(* WriteStaging: create, write, sync, close.                               *)
Stage_CreateNew ==
  /\ pc = "stage"
  /\ NoFault
  /\ IF card /\ file["staging"] = Missing
     THEN /\ file' = [file EXCEPT !["staging"] = cand]
          /\ Continue(IF ReadBack THEN "verify" ELSE AfterStaging)
     ELSE UNCHANGED file /\ SaveFails("ioError")
  /\ UNCHANGED <<card, seen, ram, loaded, cand, damages>>
Stage ==
  /\ pc = "stage"
  /\ \/ /\ card /\ NoFault
        /\ file' = [file EXCEPT !["staging"] = cand]
        /\ Continue(IF ReadBack THEN "verify" ELSE AfterStaging)
     \/ /\ card /\ Fault("badWrite")
        /\ \E c \in (Blobs \cup {Corrupt}) \ {cand} :
             file' = [file EXCEPT !["staging"] = c]
        /\ Continue(IF ReadBack THEN "verify" ELSE AfterStaging)
     \/ /\ card /\ Fault("write")
        /\ \E c \in TornStaging : file' = [file EXCEPT !["staging"] = c]
        /\ SaveFails("ioError")
     \/ ~card /\ NoFault /\ UNCHANGED file /\ SaveFails("ioError")
  /\ UNCHANGED <<card, seen, ram, loaded, cand, damages>>

(* The staging file must validate and equal the submitted snapshot before  *)
(* the known-good configuration is rotated.                                *)
Verify_SchemaOnly ==
  /\ pc = "verify"
  /\ \E out \in FileStates :
       /\ ReadFile("staging", "saveGlitch", out)
       /\ IF out = "valid" THEN Continue(AfterStaging) ELSE SaveFails("ioError")
  /\ UNCHANGED <<disk, seen, ram, loaded, cand, damages>>
Verify_Skipped ==
  /\ pc = "verify"
  /\ NoFault
  /\ Continue(AfterStaging)
  /\ UNCHANGED <<disk, seen, ram, loaded, cand, damages>>
Verify ==
  /\ pc = "verify"
  /\ \E out \in FileStates :
       /\ ReadFile("staging", "saveGlitch", out)
       /\ IF out = "valid" /\ file["staging"] = cand
          THEN Continue(AfterStaging)
          ELSE SaveFails("ioError")
  /\ UNCHANGED <<disk, seen, ram, loaded, cand, damages>>

(* One directory operation of the rotation: on FR_OK the save goes on at   *)
(* `next', on an error it goes to `onError' or, from "idle", fails.        *)
AfterRename_Unchecked(ok, next, onError) ==
  Continue(next) /\ UNCHANGED <<card, ram, loaded, cand, damages>>
AfterRename(ok, next, onError) ==
  /\ IF ok THEN Continue(next)
     ELSE IF onError = "idle" THEN SaveFails("ioError")
     ELSE Continue(onError)
  /\ UNCHANGED <<card, ram, loaded, cand, damages>>

(* What a rename that succeeded says to lpc_storage.c about the files.     *)
Remember_Never(ok, active, backup) == UNCHANGED seen
Remember(ok, active, backup) ==
  seen' = IF ok /\ ~Reinspects
          THEN [active |-> active, backup |-> backup] ELSE seen

DropBackup ==
  /\ pc = "dropBackup"
  /\ \E ok \in BOOLEAN :
       Unlink("backup", ok) /\ AfterRename(ok, "rotate", "idle")
  /\ UNCHANGED seen

(* To lpc_storage.c an absent active file is no error here.                *)
AbsentIsFine == ~Reinspects /\ card /\ file["active"] = Missing

Rotate ==
  /\ pc = "rotate"
  /\ \E ok \in BOOLEAN :
       /\ Rename("active", "backup", ok)
       /\ AfterRename(ok \/ AbsentIsFine, "publish", "idle")
       /\ Remember(ok, "missing", "valid")

Publish ==
  /\ pc = "publish"
  /\ \E ok \in BOOLEAN :
       /\ Rename("staging", "active", ok)
       /\ AfterRename(ok, "commit", IF Reinspects THEN "rollback" ELSE "idle")
       /\ Remember(ok, "valid", "missing")

(* Put the old file back; the save fails whether or not that works.        *)
Rollback ==
  /\ pc = "rollback"
  /\ \E ok \in BOOLEAN : Rename("backup", "active", ok)
  /\ SaveFails("ioError")
  /\ UNCHANGED <<card, seen, ram, loaded, cand, damages>>

DropActive ==
  /\ pc = "dropActive"
  /\ \E ok \in BOOLEAN :
       Unlink("active", ok) /\ AfterRename(ok, "promote", "idle")
  /\ UNCHANGED seen

Promote ==
  /\ pc = "promote"
  /\ \E ok \in BOOLEAN :
       /\ Rename("staging", "active", ok)
       /\ AfterRename(ok, "commit", "idle")
       /\ Remember(ok, "valid", "missing")

(* The callback returns 1 and only then the model adopts the candidate.    *)
CommitRam ==
  /\ pc = "commit"
  /\ pc' = "idle"
  /\ status' = "ready"
  /\ ram' = cand
  /\ pend' = NoReq
  /\ reply' = "saved"
  /\ UNCHANGED <<disk, seen, loaded, cand, faults, damages>>

(* A request for an LPC page while its settings are not ready loads them.  *)
ReloadLpc ==
  /\ pc = "idle"
  /\ ~Reinspects /\ ~loaded
  /\ pc' = "loadLock"
  /\ ram' = DefaultBlob
  /\ UNCHANGED <<disk, seen, status, loaded, cand, pend, reply, faults, damages>>

-----------------------------------------------------------------------------
(* The environment.                                                        *)

(* Power fails or the watchdog fires: RAM is gone, a staging write in      *)
(* progress is torn, the task starts again with the load.                  *)
Crash ==
  /\ Fault("crash")
  /\ IF pc = "stage"
     THEN \E c \in TornStaging : file' = [file EXCEPT !["staging"] = c]
     ELSE UNCHANGED file
  /\ pc' = "loadLock"
  /\ seen' = [active |-> "missing", backup |-> "missing"]
  /\ status' = "notInitialized"
  /\ ram' = DefaultBlob
  /\ loaded' = FALSE
  /\ cand' = DefaultBlob
  /\ pend' = NoReq
  /\ reply' = "none"
  /\ UNCHANGED <<card, damages>>

EjectCard == /\ card
             /\ Fault("eject")
             /\ card' = FALSE
             /\ UNCHANGED <<file, pc, seen, status, ram, loaded, cand, pend,
                            reply, damages>>

(* A hand is slower than a file operation: the card returns between them.  *)
InsertCard == /\ ~card
              /\ pc \in {"idle", "loadLock"}
              /\ card' = TRUE
              /\ UNCHANGED <<file, pc, seen, status, ram, loaded, cand, pend,
                             reply, faults, damages>>

(* A file at rest becomes unreadable to the validator.                     *)
Damage(name) == /\ "damage" \in FaultsOf[adapter]
                /\ damages < MaxDamage
                /\ pc \in {"idle", "loadLock"}
                /\ file[name] \in Blobs
                /\ file' = [file EXCEPT ![name] = Corrupt]
                /\ damages' = damages + 1
                /\ UNCHANGED <<card, pc, seen, status, ram, loaded, cand, pend,
                               reply, faults>>

TaskStep == \/ LoadLock \/ LoadActive \/ LoadBackup
            \/ SaveLock \/ SaveActive \/ SaveBackup
            \/ Stage \/ Verify
            \/ DropBackup \/ Rotate \/ Publish \/ Rollback
            \/ DropActive \/ Promote
            \/ CommitRam

Next == /\ UNCHANGED adapter
        /\ \/ TaskStep
           \/ \E k \in Keys, v \in Vals : Submit(k, v)
           \/ ReloadLpc
           \/ Crash
           \/ EjectCard
           \/ InsertCard
           \/ \E name \in {"active", "backup"} : Damage(name)

Spec == Init /\ [][Next]_vars

(* The WiFi task keeps running: each FatFs call returns and each mutex     *)
(* wait is bounded by 1000 ticks.  Requests, faults and the user's hand    *)
(* on the card are not fair.                                               *)
FairSpec == Spec /\ WF_vars(TaskStep /\ UNCHANGED adapter)

-----------------------------------------------------------------------------
(* Properties.                                                             *)

(* A save that is about to report success has its snapshot in the active   *)
(* file: what http_sensor_settings.h:27 demands of every save callback,    *)
(* silent bad writes included.                                             *)
SavedIsStored == pc = "commit" => file["active"] = cand

(* The firmware never works itself into the state in which it refuses      *)
(* every later load and save; only damage from outside can cause it.       *)
NoSelfLockout == damages = 0 => ~LockedOut(file)

(* Between requests the table in RAM is the one a reboot would load, after *)
(* any mixture of failed saves, rollbacks that failed, crashes and retried *)
(* loads: no setting shown to the user is lost or resurrected by a reset.  *)
RamMatchesCard == pc = "idle" /\ loaded /\ damages = 0 => Recover(file) = ram

(* No step of the firmware and no power failure destroys the last valid    *)
(* copy of the configuration.                                              *)
ValidCopyKept ==
  [][HasValid(file) /\ damages' = damages => HasValid(file')]_vars

(* When neither file is usable and one is corrupt, both are kept for       *)
(* salvage and writing is blocked (sandwitch-sensor-settings.md:41).       *)
SalvageKept ==
  [][LockedOut(file) => /\ file'["active"] = file["active"]
                        /\ file'["backup"] = file["backup"]]_vars

(* Once faults have ceased and the card is in, the next write is answered  *)
(* with success, whatever the faults before it left behind.                *)
WritesRecover ==
  (pc \in {"saveLock", "loadLock"} /\ pend # NoReq /\ card /\ faults = MaxFaults)
    ~> (reply = "saved" \/ damages > 0)

(* The storage implements a durable register.                              *)
RegisterPhase == CASE pc = "commit" -> "committed"
                   [] pc \in SaveLabels \ {"commit"} -> "asked"
                   [] OTHER -> "free"

Register == INSTANCE DurableRegister
              WITH Initial <- DefaultBlob,
                   stored <- Recover(file),
                   phase <- RegisterPhase,
                   want <- cand,
                   reply <- reply

ImplementsRegister == Register!Spec
=============================================================================
