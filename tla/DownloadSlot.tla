---------------------------- MODULE DownloadSlot ----------------------------
(***************************************************************************)
(* What ilabs_fota_download() promises about the download slot to whoever  *)
(* looks at it after a reset.  Before a call touches the slot it still     *)
(* holds what it held; then it holds nothing valid; the image of the call  *)
(* appears whole, in one step, and a call that reports success has made    *)
(* that step.  A call may stop anywhere, by an error or a loss of power.   *)
(***************************************************************************)
VARIABLES
  holds,           \* the valid image in the slot: "none", the one an "old"
                   \* call left there, or the "new" one of the last call
  call             \* "idle", "running", or "done": returned success

vars == <<holds, call>>

Init == holds \in {"none", "old"} /\ call = "idle"

(* Once another call starts, what the slot holds is an old image. *)
Start ==
  /\ call # "running"
  /\ call' = "running"
  /\ holds' = IF holds = "none" THEN "none" ELSE "old"

(* The first sector is erased, and the header with it. *)
Spoil ==
  /\ call = "running"
  /\ holds' = "none"
  /\ UNCHANGED call

(* The header is programmed in front of the complete payload. *)
Commit ==
  /\ call = "running" /\ holds = "none"
  /\ holds' = "new"
  /\ call' = "done"

(* The call returns false, or power is lost, at any point: also while a    *)
(* sector is being erased, or the header programmed.                       *)
Stop ==
  /\ call = "running"
  /\ holds' \in {holds, "none"} \cup (IF holds = "none" THEN {"new"} ELSE {})
  /\ call' = "idle"

Next == Start \/ Spoil \/ Commit \/ Stop

Spec == Init /\ [][Next]_vars
=============================================================================
