--------------------------- MODULE FotaUpdateProofs ---------------------------
(***************************************************************************)
(* What an update does to the version the device runs, for every range of  *)
(* versions, every number of swap attempts and every order of faults,      *)
(* resets and releases.  UpdateArrives is a liveness property and is left  *)
(* to TLC.                                                                 *)
(***************************************************************************)
EXTENDS FotaUpdate, TLAPS

(* The part of the program each place implies something about: what runs   *)
(* there, and that what triggerUpdate() announces has been downloaded.     *)
Places ==
  /\ call = "running" <=> pc = "update"
  /\ op = "trigger" <=> pc = "trigger"
  /\ pc \in {"staged", "trigger"} => holds = "new"
  /\ pc = "trigger" => new = Staged(value, fetched)

(* The application never runs with an announcement the bootloader had a    *)
(* chance to act on.                                                       *)
ActedOn == pc # "off" /\ Pending => postponed

(* From its first boot on, the version the bootloader compares with is the *)
(* one that runs.                                                          *)
VersionKept ==
  pc # "off" \/ Pending => value.current_app_fw_version = running

IInv == TypeOK /\ Places /\ ActedOn /\ VersionKept /\ PendingMeansImage

-----------------------------------------------------------------------------
(* Every block the update makes of a block is a block. *)
LEMMA BlockTypes ==
  ASSUME NEW s \in Settings, NEW v \in Versions
  PROVE  /\ Zeroed \in Settings /\ Staged(s, v) \in Settings
         /\ [ s EXCEPT !.update_pending = FALSE ] \in Settings
         /\ [ s EXCEPT !.update_pending = FALSE,
                       !.swap_retry_count = 0 ] \in Settings
         /\ [ s EXCEPT !.current_app_fw_version = v ] \in Settings
         /\ s.swap_retry_count # MaxRetries =>
              [ s EXCEPT !.swap_retry_count = @ + 1 ] \in Settings
<1>0. 0 \in 0..MaxRetries
  BY UpdateAssumption
<1>1. Zeroed \in Settings
  BY <1>0 DEF Settings, Zeroed
<1>2. Staged(s, v) \in Settings
  BY <1>0 DEF Settings, Staged
<1>3. /\ [ s EXCEPT !.update_pending = FALSE ] \in Settings
      /\ [ s EXCEPT !.update_pending = FALSE, !.swap_retry_count = 0 ] \in Settings
      /\ [ s EXCEPT !.current_app_fw_version = v ] \in Settings
  BY <1>0 DEF Settings
<1>4. s.swap_retry_count # MaxRetries =>
        [ s EXCEPT !.swap_retry_count = @ + 1 ] \in Settings
  <2> SUFFICES ASSUME s.swap_retry_count # MaxRetries
               PROVE  s.swap_retry_count + 1 \in 0..MaxRetries
    BY DEF Settings
  <2> QED BY UpdateAssumption, SMT DEF Settings
<1> QED BY <1>1, <1>2, <1>3, <1>4

(* The image in the slot has a version. *)
LEMMA ImageVersionType == TypeOK => ImageVersion \in Versions
BY DEF TypeOK, ImageVersion

LEMMA InitInv == Init => IInv
<1> SUFFICES ASSUME Init PROVE IInv
  OBVIOUS
<1>1. 1 \in Versions /\ Zeroed \in Settings
  BY UpdateAssumption, SMT DEF Versions, Zeroed, Settings
<1>2. TypeOK
  BY <1>1 DEF Init, TypeOK, Slot!Init, Register!Init
<1>3. ~Pending /\ op = "none" /\ pc = "off" /\ call = "idle"
  BY DEF Init, Pending, Zeroed, Slot!Init, Register!Init
<1> QED BY <1>2, <1>3 DEF IInv, Places, ActedOn, VersionKept, PendingMeansImage

-----------------------------------------------------------------------------
(* One lemma per action. *)

LEMMA UpdateInv == IInv /\ Update => IInv'
<1> SUFFICES ASSUME IInv, Update PROVE IInv'
  OBVIOUS
<1>1. TypeOK'
  BY ImageVersionType DEF IInv, TypeOK, Update, Slot!Start, settings
<1>2. (Places /\ ActedOn /\ VersionKept /\ PendingMeansImage)'
  BY DEF IInv, Places, ActedOn, VersionKept, PendingMeansImage, Pending, Update,
         Slot!Start, settings
<1> QED BY <1>1, <1>2 DEF IInv

LEMMA SpoilInv == IInv /\ Spoil => IInv'
BY DEF IInv, TypeOK, Places, ActedOn, VersionKept, PendingMeansImage, Pending,
       Spoil, Slot!Spoil, settings

LEMMA CommittedInv == IInv /\ Committed => IInv'
BY DEF IInv, TypeOK, Places, ActedOn, VersionKept, PendingMeansImage, Pending,
       Committed, Slot!Commit, settings

LEMMA UpdateFailsInv == IInv /\ UpdateFails => IInv'
BY DEF IInv, TypeOK, Places, ActedOn, VersionKept, PendingMeansImage, Pending,
       UpdateFails, Slot!Stop, settings

LEMMA TriggerInv == IInv /\ Trigger => IInv'
<1> SUFFICES ASSUME IInv, Trigger PROVE IInv'
  OBVIOUS
<1>1. Staged(value, fetched) \in Settings
  BY BlockTypes DEF IInv, TypeOK
<1>2. TypeOK'
  BY <1>1 DEF IInv, TypeOK, Trigger, Register!BeginTrigger, slot
<1>3. (Places /\ ActedOn /\ VersionKept /\ PendingMeansImage)'
  BY DEF IInv, Places, ActedOn, VersionKept, PendingMeansImage, Pending,
         ImageVersion, Trigger, Register!BeginTrigger, slot
<1> QED BY <1>2, <1>3 DEF IInv

(* The version announced is the one in the header of the image in the slot, *)
(* and the version compared with is the one that runs.                      *)
LEMMA TriggeredInv == IInv /\ Triggered => IInv'
<1> SUFFICES ASSUME IInv, Triggered PROVE IInv'
  OBVIOUS
<1>1. holds = "new" /\ value' = Staged(value, fetched) /\ value \in Settings
  BY DEF IInv, TypeOK, Places, Triggered, Register!Commit
<1>2. /\ value'.download_slot_fw_version = fetched
      /\ value'.current_app_fw_version = value.current_app_fw_version
  BY <1>1 DEF Staged, Settings
<1>3. TypeOK'
  BY <1>1, BlockTypes DEF IInv, TypeOK, Triggered, Register!Commit, slot
<1>4. (Places /\ ActedOn)'
  BY DEF IInv, Places, ActedOn, Triggered, Register!Commit, slot
<1>5. VersionKept'
  BY <1>2 DEF IInv, VersionKept, Triggered
<1>6. PendingMeansImage'
  BY <1>1, <1>2 DEF PendingMeansImage, ImageVersion, Triggered, slot
<1> QED BY <1>3, <1>4, <1>5, <1>6 DEF IInv

LEMMA TriggerFailsInv == IInv /\ TriggerFails => IInv'
<1> SUFFICES ASSUME IInv, TriggerFails PROVE IInv'
  OBVIOUS
<1>1. TypeOK'
  BY BlockTypes DEF IInv, TypeOK, TriggerFails, Register!Abandon, slot
<1>2. (Places /\ ActedOn /\ VersionKept /\ PendingMeansImage)'
  BY DEF IInv, Places, ActedOn, VersionKept, PendingMeansImage, Pending,
         ImageVersion, TriggerFails, Register!Abandon, slot
<1> QED BY <1>1, <1>2 DEF IInv

(* A download cut short may leave the slot empty, but then nothing was     *)
(* announced, or the bootloader had been given its chance.                 *)
LEMMA PowerLossInv == IInv /\ PowerLoss => IInv'
<1> SUFFICES ASSUME IInv, PowerLoss PROVE IInv'
  OBVIOUS
<1>1. CASE call = "running"
  <2>1. TypeOK'
    BY <1>1 DEF IInv, TypeOK, Places, PowerLoss, Slot!Stop, settings
  <2>2. (Places /\ ActedOn /\ VersionKept /\ PendingMeansImage)'
    BY <1>1 DEF IInv, TypeOK, Places, ActedOn, VersionKept, PendingMeansImage, Pending,
                PowerLoss, Slot!Stop, settings
  <2> QED BY <2>1, <2>2 DEF IInv
<1>2. CASE call # "running"
  <2>1. TypeOK'
    BY <1>2, BlockTypes DEF IInv, TypeOK, PowerLoss, Register!Abandon, settings
  <2>2. (Places /\ ActedOn /\ VersionKept /\ PendingMeansImage)'
    BY <1>2 DEF IInv, TypeOK, Places, ActedOn, VersionKept, PendingMeansImage, Pending,
                ImageVersion, PowerLoss, Register!Abandon, settings
  <2> QED BY <2>1, <2>2 DEF IInv
<1> QED BY <1>1, <1>2

(* What a boot leaves in the settings: no announcement, and the version    *)
(* that runs now.                                                          *)
LEMMA BootsInv ==
  ASSUME IInv, pc = "off", NEW v \in Versions, NEW s \in Settings,
         ~s.update_pending, Boots(v, s)
  PROVE  IInv'
<1>1. /\ value' \in Settings /\ ~value'.update_pending
      /\ value'.current_app_fw_version = v
  BY BlockTypes DEF Boots, Settings
<1>2. TypeOK'
  BY <1>1 DEF IInv, TypeOK, Boots, slot
<1>3. (Places /\ ActedOn /\ VersionKept /\ PendingMeansImage)'
  BY <1>1 DEF IInv, Places, ActedOn, VersionKept, PendingMeansImage, Pending,
              Boots, slot
<1> QED BY <1>2, <1>3 DEF IInv

LEMMA BootSameInv == IInv /\ BootSame => IInv'
<1> SUFFICES ASSUME IInv, BootSame PROVE IInv'
  OBVIOUS
<1> DEFINE s == [ value EXCEPT !.update_pending = FALSE ]
<1>1. s \in Settings /\ ~s.update_pending /\ running \in Versions
  BY BlockTypes DEF IInv, TypeOK, Settings
<1> QED BY <1>1, BootsInv DEF BootSame

LEMMA BootNewInv == IInv /\ BootNew => IInv'
<1> SUFFICES ASSUME IInv, BootNew PROVE IInv'
  OBVIOUS
<1> DEFINE s == [ value EXCEPT !.update_pending = FALSE, !.swap_retry_count = 0 ]
<1>1. s \in Settings /\ ~s.update_pending
  BY BlockTypes DEF IInv, TypeOK, Settings
<1> QED BY <1>1, ImageVersionType, BootsInv DEF BootNew, IInv

LEMMA SwapFailsInv == IInv /\ SwapFails => IInv'
<1> SUFFICES ASSUME IInv, SwapFails PROVE IInv'
  OBVIOUS
<1>1. /\ value' \in Settings
      /\ value'.update_pending = value.update_pending
      /\ value'.current_app_fw_version = value.current_app_fw_version
      /\ value'.download_slot_fw_version = value.download_slot_fw_version
  BY BlockTypes DEF IInv, TypeOK, Settings, SwapFails, Refused
<1>2. TypeOK'
  BY <1>1 DEF IInv, TypeOK, SwapFails, slot
<1>3. (Places /\ ActedOn /\ VersionKept /\ PendingMeansImage)'
  BY <1>1 DEF IInv, Places, ActedOn, VersionKept, PendingMeansImage, Pending,
              ImageVersion, SwapFails, slot
<1> QED BY <1>2, <1>3 DEF IInv

LEMMA PostponeInv == IInv /\ Postpone => IInv'
BY DEF IInv, TypeOK, Places, ActedOn, VersionKept, PendingMeansImage, Pending,
       Postpone, slot, settings

LEMMA PublishInv == IInv /\ Publish => IInv'
<1> SUFFICES ASSUME IInv, Publish PROVE IInv'
  OBVIOUS
<1>1. served' \in [ manifest : Versions, image : Versions ]
  BY DEF IInv, TypeOK, Publish
<1>2. IInv'
  BY <1>1 DEF IInv, TypeOK, Places, ActedOn, VersionKept, PendingMeansImage, Pending,
              ImageVersion, Publish, slot, settings
<1> QED BY <1>2

-----------------------------------------------------------------------------
(* The invariant, and what follows from it. *)

LEMMA NextInv == IInv /\ [Next]_vars => IInv'
<1> SUFFICES ASSUME IInv, [Next]_vars PROVE IInv'
  OBVIOUS
<1>1. CASE Step
  BY <1>1, UpdateInv, SpoilInv, CommittedInv, TriggerInv, TriggeredInv,
     BootSameInv, BootNewInv DEF Step
<1>2. CASE Fault
  BY <1>2, UpdateFailsInv, TriggerFailsInv, PowerLossInv, SwapFailsInv,
     PostponeInv DEF Fault
<1>3. CASE Publish
  BY <1>3, PublishInv
<1>4. CASE UNCHANGED vars
  BY <1>4 DEF IInv, TypeOK, Places, ActedOn, VersionKept, PendingMeansImage, Pending,
              ImageVersion, vars, slot, settings
<1> QED BY <1>1, <1>2, <1>3, <1>4 DEF Next

LEMMA Invariant == Spec => []IInv
BY InitInv, NextInv, PTL DEF Spec

(* Every variable keeps its type: among others, a block that is staged,    *)
(* retried or stamped with the running version stays within its fields.    *)
THEOREM TypeCorrect == Spec => []TypeOK
<1>1. IInv => TypeOK
  BY DEF IInv
<1> QED BY <1>1, Invariant, PTL

(* The settings announce an update only while the slot holds the image of  *)
(* the version they announce, unless the bootloader once failed to act on  *)
(* the announcement before update() took the slot again.                   *)
THEOREM PendingCorrect == Spec => []PendingMeansImage
<1>1. IInv => PendingMeansImage
  BY DEF IInv
<1> QED BY <1>1, Invariant, PTL

(* Only the bootloader changes the version that runs, and only to that of  *)
(* an image that is not older than the one it compares with: the running   *)
(* one, because triggerUpdate() keeps the field.                           *)
LEMMA StepNeverRollsBack == IInv /\ [Next]_vars => running' >= running
<1> SUFFICES ASSUME IInv, [Next]_vars PROVE running' >= running
  OBVIOUS
<1>1. running \in Nat /\ running >= running
  BY SMT DEF IInv, TypeOK, Versions
<1>2. CASE BootNew
  <2>1. /\ value.current_app_fw_version = running
        /\ ~(ImageVersion < value.current_app_fw_version)
        /\ running' = ImageVersion
    BY <1>2 DEF IInv, VersionKept, BootNew, Refused, Boots
  <2>2. ImageVersion \in Nat
    BY ImageVersionType, SMT DEF IInv, Versions
  <2> QED BY <1>1, <2>1, <2>2, SMT
<1>3. CASE ~BootNew
  <2>1. running' = running
    BY <1>3 DEF Next, Step, Fault, Update, Spoil, Committed, Trigger, Triggered,
       BootSame, Boots, UpdateFails, TriggerFails, PowerLoss, SwapFails, Postpone,
       Publish, vars
  <2> QED BY <1>1, <2>1
<1> QED BY <1>2, <1>3

(* Whatever the server offers and wherever power is lost, the firmware     *)
(* never gets older.                                                       *)
THEOREM NoRollBack == Spec => NeverRollsBack
<1>1. IInv /\ [Next]_vars => [running' >= running]_vars
  BY StepNeverRollsBack
<1> QED BY <1>1, Invariant, PTL DEF Spec, NeverRollsBack
=============================================================================
