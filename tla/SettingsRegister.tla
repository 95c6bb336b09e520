-------------------------- MODULE SettingsRegister --------------------------
(***************************************************************************)
(* What iLabsFotaQspi promises about the bootloader settings: one register *)
(* that outlives power loss.  A write either replaces the whole value or   *)
(* leaves it alone, a power loss or a flash fault in the middle of a write *)
(* does one or the other, and staging an update changes exactly the fields *)
(* that announce it (ilabs_fota_qspi.h, "Atomicity guarantee" and          *)
(* triggerUpdate()).                                                       *)
(***************************************************************************)
CONSTANTS
  Settings,         \* what a settings block can say
  Zeroed,           \* the settings a store that holds nothing reads as
  Versions,         \* firmware versions an update can announce
  Stage             \* Stage[s][v]: the settings s with update v staged

VARIABLES
  initialised,      \* FALSE until the first write takes effect
  value,            \* what a reader sees
  op,               \* the operation in progress, "none" between operations
  new               \* the value it may install

vars == <<initialised, value, op, new>>

Init ==
  /\ initialised = FALSE
  /\ value = Zeroed
  /\ op = "none"
  /\ new = Zeroed

(* A caller asks for a whole new value. *)
BeginWrite ==
  /\ op = "none"
  /\ op' = "write"
  /\ new' \in Settings
  /\ UNCHANGED <<initialised, value>>

(* A caller stages an update: a read-modify-write of the current value. *)
BeginTrigger ==
  /\ op = "none"
  /\ op' = "trigger"
  /\ \E v \in Versions : new' = Stage[value][v]
  /\ UNCHANGED <<initialised, value>>

(* The value changes in one indivisible step. *)
Commit ==
  /\ op # "none"
  /\ initialised' = TRUE
  /\ value' = new
  /\ op' = "none"
  /\ new' = Zeroed

(* A flash error or a power loss: the write leaves no trace. *)
Abandon ==
  /\ op # "none"
  /\ op' = "none"
  /\ new' = Zeroed
  /\ UNCHANGED <<initialised, value>>

Next == BeginWrite \/ BeginTrigger \/ Commit \/ Abandon

Spec == Init /\ [][Next]_vars
=============================================================================
