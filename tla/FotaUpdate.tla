----------------------------- MODULE FotaUpdate -----------------------------
(***************************************************************************)
(* An update from the server to the running firmware: the application's    *)
(* loop (checkAndUpdate() of README.md, loop() of LteFotaAndLogUpload.ino) *)
(* over checkForUpdate(), update(), triggerUpdate() and a reset, then the  *)
(* bootloader.  The download slot and the settings are what FotaDownload   *)
(* and SettingsStore are shown to implement: DownloadSlot and              *)
(* SettingsRegister.  The bootloader is not in the repository; it does     *)
(* what the contract in ilabs_fota_settings.h says of it.                  *)
(***************************************************************************)
EXTENDS Naturals

CONSTANTS
  MaxVersion,      \* firmware versions are 1..MaxVersion
  MaxRetries       \* swap attempts the bootloader makes for one staging

ASSUME UpdateAssumption == MaxVersion \in Nat \ {0} /\ MaxRetries \in Nat \ {0}

VARIABLES
  polls,           \* the loop asks checkForUpdate() first
  served,          \* what the server offers: manifest and image
  pc,              \* where the device is
  running,         \* version of the application in internal flash
  holds, call,     \* the download slot, see DownloadSlot
  held,            \* version of the image an earlier call left in it
  fetched,         \* version of the image of the last call
  initialised, value, op, new,   \* the settings, see SettingsRegister
  postponed        \* history: the bootloader once left UPDATE_PENDING set

slot == <<holds, call, held, fetched>>
settings == <<initialised, value, op, new>>
vars == <<polls, served, pc, running, slot, settings, postponed>>

Versions == 1..MaxVersion

(* The fields of the settings block the update depends on. *)
Settings == [ update_pending : BOOLEAN,
              download_slot_fw_version : Versions \cup {0},
              current_app_fw_version : Versions \cup {0},
              swap_retry_count : 0..MaxRetries ]

Zeroed == [ update_pending |-> FALSE, download_slot_fw_version |-> 0,
            current_app_fw_version |-> 0, swap_retry_count |-> 0 ]

(* A mutant of Staged: the block is made from zeros, and the version to    *)
(* guard against rollback is lost.                                         *)
StagedFromZero(s, v) ==
  [ Zeroed EXCEPT !.update_pending = TRUE, !.download_slot_fw_version = v ]

(* triggerUpdate() *)
Staged(s, v) ==
  [ s EXCEPT !.update_pending = TRUE, !.download_slot_fw_version = v,
             !.swap_retry_count = 0 ]

Slot == INSTANCE DownloadSlot

Register == INSTANCE SettingsRegister WITH
  Stage <- [ s \in Settings |-> [ v \in Versions |-> Staged(s, v) ] ]

(* The version in the header of the image in the slot. *)
ImageVersion == IF holds = "new" THEN fetched ELSE held

(* A device leaves the factory with an application, and nothing staged. *)
Init ==
  /\ polls \in BOOLEAN
  /\ served \in [ manifest : Versions, image : Versions ]
  /\ running \in Versions
  /\ pc = "off"
  /\ Slot!Init /\ holds = "none"
  /\ held = 1 /\ fetched = 1
  /\ Register!Init
  /\ postponed = FALSE

-----------------------------------------------------------------------------
(* The application. *)

(* Mutant of Newer: an offer of the running version is taken. *)
NewerOrSame == served.manifest >= running

(* The decision of checkForUpdate(). *)
Newer == served.manifest > running

(* update() is called: on the manifest's word, or in every cycle.  The     *)
(* slot keeps what it held under another name.                             *)
Update ==
  /\ pc = "loop" /\ (polls => Newer)
  /\ pc' = "update"
  /\ Slot!Start
  /\ held' = ImageVersion
  /\ fetched' = served.image
  /\ UNCHANGED <<polls, served, running, settings, postponed>>

(* The first sector of the slot is erased. *)
Spoil ==
  /\ pc = "update"
  /\ Slot!Spoil
  /\ UNCHANGED <<polls, served, pc, running, held, fetched, settings, postponed>>

(* update() returns true. *)
Committed ==
  /\ pc = "update"
  /\ Slot!Commit
  /\ pc' = "staged"
  /\ UNCHANGED <<polls, served, running, held, fetched, settings, postponed>>

(* A mutant of UpdateFails: the result of update() is not looked at. *)
UpdateFailsUnseen ==
  /\ pc = "update"
  /\ Slot!Stop
  /\ pc' = "staged"
  /\ UNCHANGED <<polls, served, running, held, fetched, settings, postponed>>

(* update() returns false, and the loop comes round again. *)
UpdateFails ==
  /\ pc = "update"
  /\ Slot!Stop
  /\ pc' = "loop"
  /\ UNCHANGED <<polls, served, running, held, fetched, settings, postponed>>

(* triggerUpdate(r.header_fw_version) is called. *)
Trigger ==
  /\ pc = "staged"
  /\ Register!BeginTrigger
  /\ new' = Staged(value, fetched)
  /\ pc' = "trigger"
  /\ UNCHANGED <<polls, served, running, slot, postponed>>

(* It returns true, and the application resets the device. *)
Triggered ==
  /\ pc = "trigger"
  /\ Register!Commit
  /\ pc' = "off"
  /\ UNCHANGED <<polls, served, running, slot, postponed>>

(* It returns false. *)
TriggerFails ==
  /\ pc = "trigger"
  /\ Register!Abandon
  /\ pc' = "loop"
  /\ UNCHANGED <<polls, served, running, slot, postponed>>

(* Power is lost.  If triggerUpdate() has taken effect by then, that is    *)
(* Triggered: it resets the device as well.                                *)
PowerLoss ==
  /\ pc # "off" /\ pc' = "off"
  /\ IF call = "running" THEN Slot!Stop ELSE UNCHANGED <<holds, call>>
  /\ IF op # "none" THEN Register!Abandon ELSE UNCHANGED settings
  /\ UNCHANGED <<polls, served, running, held, fetched, postponed>>

-----------------------------------------------------------------------------
(* The bootloader, as ilabs_fota_settings.h describes it. *)

Pending == value.update_pending

(* HEADER_INVALID or VERIFY_FAILED, VERSION_ROLLBACK, RETRY_EXHAUSTED. *)
Refused ==
  \/ holds = "none"
  \/ ImageVersion < value.current_app_fw_version
  \/ value.swap_retry_count = MaxRetries

Boots(version, s) ==
  /\ pc' = "loop"
  /\ running' = version
  /\ value' = [ s EXCEPT !.current_app_fw_version = version ]
  /\ initialised' = TRUE
  /\ UNCHANGED <<polls, served, slot, op, new, postponed>>

(* The application is booted as it is. *)
BootSame ==
  /\ pc = "off" /\ (Pending => Refused)
  /\ Boots(running, [ value EXCEPT !.update_pending = FALSE ])

(* The image is copied over the application. *)
BootNew ==
  /\ pc = "off" /\ Pending /\ ~Refused
  /\ Boots(ImageVersion, [ value EXCEPT !.update_pending = FALSE,
                                        !.swap_retry_count = 0 ])

(* A swap attempt is cut short; the next power-up tries again. *)
SwapFails ==
  /\ pc = "off" /\ Pending /\ ~Refused
  /\ value' = [ value EXCEPT !.swap_retry_count = @ + 1 ]
  /\ UNCHANGED <<polls, served, pc, running, slot, initialised, op, new, postponed>>

(* QSPI_ERROR: the bootloader reads neither the settings nor the slot and  *)
(* boots the application.                                                  *)
Postpone ==
  /\ pc = "off" /\ Pending
  /\ pc' = "loop"
  /\ postponed' = TRUE
  /\ UNCHANGED <<polls, served, running, slot, settings>>

(* A release is published or withdrawn: manifest and image are two files,  *)
(* replaced in any order.                                                  *)
Publish ==
  /\ \E v \in Versions, file \in {"manifest", "image"} :
        served' = [ served EXCEPT ![file] = v ]
  /\ UNCHANGED <<polls, pc, running, slot, settings, postponed>>

-----------------------------------------------------------------------------
Step == Update \/ Spoil \/ Committed \/ Trigger \/ Triggered \/ BootSame \/ BootNew

Fault == UpdateFails \/ TriggerFails \/ PowerLoss \/ SwapFails \/ Postpone

Next == Step \/ Fault \/ Publish

Spec == Init /\ [][Next]_vars

(* The application's loop runs and the device is powered. *)
FairSpec == Spec /\ WF_vars(Step)

-----------------------------------------------------------------------------
(* Properties. *)

(* Every variable keeps its type. *)
TypeOK ==
  /\ polls \in BOOLEAN
  /\ served \in [ manifest : Versions, image : Versions ]
  /\ pc \in {"off", "loop", "update", "staged", "trigger"}
  /\ running \in Versions /\ held \in Versions /\ fetched \in Versions
  /\ holds \in {"none", "old", "new"} /\ call \in {"idle", "running", "done"}
  /\ initialised \in BOOLEAN /\ postponed \in BOOLEAN
  /\ value \in Settings /\ new \in Settings
  /\ op \in {"none", "trigger"}

(* The settings announce an update only while the slot holds the image of  *)
(* the version they announce ("The bootloader treats UPDATE_PENDING as a   *)
(* commit point"), unless the bootloader once failed to act on it: update()*)
(* reuses the slot without taking the announcement back.                   *)
PendingMeansImage ==
  Pending /\ ~postponed =>
    holds # "none" /\ ImageVersion = value.download_slot_fw_version

(* Whatever the server offers and wherever power is lost, the firmware     *)
(* never gets older: triggerUpdate() keeps the version the bootloader      *)
(* compares with.                                                          *)
NeverRollsBack == [][running' >= running]_vars

(* Once failures and publications cease, the device ends up on the version *)
(* offered, or a newer one it had, and if it polls it stops downloading.   *)
(* Only a manifest that disagrees with its image keeps it from either.     *)
UpdateArrives ==
  ~[]<><<Fault \/ Publish>>_vars =>
    <>[]((polls => served.manifest = served.image) =>
            running >= served.image /\ (polls => call # "running"))
=============================================================================
