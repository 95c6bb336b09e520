---------------------------- MODULE SettingsStore ----------------------------
(***************************************************************************)
(* The bootloader settings block of ilabs_fota_qspi.cpp: two flash sectors *)
(* A and B, each holding one block or nothing usable.  readSettings()      *)
(* picks the active block, writeSettings() programs the other one, and     *)
(* triggerUpdate() reads, edits and writes back.  Power can fail between   *)
(* and in the middle of any two flash operations.                          *)
(*                                                                         *)
(* A block is what settings_block_valid() says of it (magic, size, version *)
(* and CRC together), its sequence number and the fields callers set.  The *)
(* sequence is a natural number: its 32 bits outlast the 10^5 erase cycles *)
(* of the sector that stores it.                                           *)
(***************************************************************************)
EXTENDS Naturals

CONSTANTS
  Versions,      \* non-zero firmware versions
  NoVersion,     \* the zero of a version field
  MaxSeq,        \* bound: no call is made once a block has this sequence
  ReadFaults     \* TRUE if read_abs() may fail on a sector

ASSUME StoreAssumption ==
  /\ MaxSeq \in Nat \ {0}
  /\ ReadFaults \in BOOLEAN

VARIABLES
  blk,           \* flash: what each settings sector holds
  pc,            \* where the driver is
  req,           \* the caller's struct, writeSettings()'s `in`
  kind,          \* which entry point was called
  target,        \* the sector writeSettings() chose to overwrite
  seq,           \* the sequence number it composed
  ret            \* what the last call returned

vars == <<blk, pc, req, kind, target, seq, ret>>
locals == <<req, kind, target, seq, ret>>

Sectors == {"A", "B"}

(* The fields triggerUpdate() treats differently.  `current` stands for     *)
(* every field it preserves (current_app_fw_version, backup_slot_fw_version,*)
(* boot_attempt_count, the other flag bit) and `dirty` says that            *)
(* swap_retry_count or last_status_code is not zero.                        *)
Settings == [ update_pending : BOOLEAN,
              download_slot_fw_version : Versions \cup {NoVersion},
              current : Versions \cup {NoVersion},
              dirty : BOOLEAN ]

Zeroed == [ update_pending |-> FALSE, download_slot_fw_version |-> NoVersion,
            current |-> NoVersion, dirty |-> FALSE ]

Blocks == [ valid : BOOLEAN, sequence : 0..MaxSeq, body : Settings ]

(* An erased sector, and one torn by an interrupted erase or program. *)
Invalid == [ valid |-> FALSE, sequence |-> 0, body |-> Zeroed ]

Fresh == [ valid |-> TRUE, sequence |-> seq, body |-> req ]

-----------------------------------------------------------------------------
(* Reading. `seen` is the set of sectors whose block was read and is valid. *)

Readable == IF ReadFaults THEN SUBSET Sectors ELSE {Sectors}

ValidIn(readable) == { s \in readable : blk[s].valid }

Newest(seen) == { s \in seen : \A t \in seen : blk[t].sequence <= blk[s].sequence }

(* The higher sequence wins; a tie prefers A. *)
ActiveSector(seen) == IF "A" \in Newest(seen) THEN "A" ELSE "B"

(* What readSettings() fills in, or zeros where triggerUpdate() does. *)
ReadOrZero(seen) == IF seen = {} THEN Zeroed ELSE blk[ActiveSector(seen)].body

(* A mutant of Target: a lone valid block is overwritten. *)
TargetLive(seen) ==
  IF seen = {"A"} THEN "A"
  ELSE IF seen = {"B"} THEN "B"
  ELSE IF blk["A"].sequence < blk["B"].sequence THEN "A" ELSE "B"

(* writeSettings(): the sector to overwrite is one without a usable block, *)
(* A before B, and the older one if both have one.                         *)
Target(seen) ==
  IF "A" \notin seen THEN "A"
  ELSE IF "B" \notin seen THEN "B"
  ELSE IF blk["A"].sequence < blk["B"].sequence THEN "A" ELSE "B"

(* A mutant of CurrentSeq: the generation is bumped here and again when    *)
(* the block is composed.                                                  *)
CurrentSeqBumped(seen) ==
  IF seen = {} THEN 1 ELSE blk[ActiveSector(seen)].sequence + 1

CurrentSeq(seen) == IF seen = {} THEN 0 ELSE blk[ActiveSector(seen)].sequence

(* The edit of triggerUpdate(). *)
Staged(s, v) == [ s EXCEPT !.update_pending = TRUE,
                           !.download_slot_fw_version = v,
                           !.dirty = FALSE ]

-----------------------------------------------------------------------------
(* A device leaves the factory with both sectors erased. *)
Init ==
  /\ blk = [ s \in Sectors |-> Invalid ]
  /\ pc = "idle"
  /\ req = Zeroed
  /\ kind = "none"
  /\ target = "A"
  /\ seq = 0
  /\ ret = "none"

BelowBound == \A s \in Sectors : blk[s].sequence < MaxSeq

(* writeSettings(in), called by the sketch or, under the same discipline,  *)
(* by the bootloader.                                                      *)
CallWrite ==
  /\ pc = "idle" /\ BelowBound
  /\ \E in \in Settings : req' = in
  /\ pc' = "choose"
  /\ kind' = "write"
  /\ ret' = "none"
  /\ UNCHANGED <<blk, target, seq>>

(* A mutant of CallTrigger: the struct is zeroed whether or not the read   *)
(* succeeded.                                                              *)
CallTriggerFromZero ==
  /\ pc = "idle" /\ BelowBound
  /\ \E v \in Versions : req' = Staged(Zeroed, v)
  /\ pc' = "choose"
  /\ kind' = "trigger"
  /\ ret' = "none"
  /\ UNCHANGED <<blk, target, seq>>

(* triggerUpdate(v) up to its call of writeSettings(). *)
CallTrigger ==
  /\ pc = "idle" /\ BelowBound
  /\ \E v \in Versions, readable \in Readable :
        req' = Staged(ReadOrZero(ValidIn(readable)), v)
  /\ pc' = "choose"
  /\ kind' = "trigger"
  /\ ret' = "none"
  /\ UNCHANGED <<blk, target, seq>>

(* A mutant of Choose: the fresh block keeps the sequence of the active    *)
(* one.                                                                    *)
ChooseSameSequence ==
  /\ pc = "choose"
  /\ \E readable \in Readable :
        LET seen == ValidIn(readable) IN
        /\ target' = Target(seen)
        /\ seq' = CurrentSeq(seen)
  /\ pc' = "erase"
  /\ UNCHANGED <<blk, req, kind, ret>>

(* writeSettings() reads both blocks and composes the fresh one. *)
Choose ==
  /\ pc = "choose"
  /\ \E readable \in Readable :
        LET seen == ValidIn(readable) IN
        /\ target' = Target(seen)
        /\ seq' = CurrentSeq(seen) + 1
  /\ pc' = "erase"
  /\ UNCHANGED <<blk, req, kind, ret>>

Return(outcome) ==
  /\ pc' = "idle"
  /\ ret' = outcome
  /\ UNCHANGED <<req, kind, target, seq>>

EraseTarget ==
  /\ pc = "erase"
  /\ blk' = [ blk EXCEPT ![target] = Invalid ]
  /\ pc' = "program"
  /\ UNCHANGED locals

(* eraseSector() reports failure: the sector is as it was, or half erased. *)
EraseFails ==
  /\ pc = "erase"
  /\ \E left \in {blk[target], Invalid} : blk' = [ blk EXCEPT ![target] = left ]
  /\ Return("failed")

ProgramTarget ==
  /\ pc = "program"
  /\ blk' = [ blk EXCEPT ![target] = Fresh ]
  /\ Return("ok")

(* writeBuffer() comes up short: what it left fails the CRC. *)
ProgramFails ==
  /\ pc = "program"
  /\ UNCHANGED blk
  /\ Return("failed")

(* What an interrupted flash operation leaves in the target sector. *)
Interrupted ==
  {blk[target]} \cup IF pc = "erase" THEN {Invalid}
                    ELSE IF pc = "program" THEN {Fresh} ELSE {}

(* Power is lost at any point and the device boots again; RAM is gone. *)
PowerLoss ==
  /\ \E left \in Interrupted : blk' = [ blk EXCEPT ![target] = left ]
  /\ pc' = "idle"
  /\ req' = Zeroed
  /\ kind' = "none"
  /\ target' = "A"
  /\ seq' = 0
  /\ ret' = "none"

Next ==
  \/ CallWrite \/ CallTrigger \/ Choose
  \/ EraseTarget \/ EraseFails
  \/ ProgramTarget \/ ProgramFails
  \/ PowerLoss

Spec == Init /\ [][Next]_vars

-----------------------------------------------------------------------------
(* Properties. *)

Good == ValidIn(Sectors)
Active == ActiveSector(Good)

(* Every variable keeps its type, and no sequence passes the bound. *)
TypeOK ==
  /\ blk \in [Sectors -> Blocks]
  /\ pc \in {"idle", "choose", "erase", "program"}
  /\ req \in Settings
  /\ kind \in {"none", "write", "trigger"}
  /\ target \in Sectors
  /\ seq \in 0..MaxSeq
  /\ ret \in {"none", "ok", "failed"}

(* Two valid blocks are consecutive generations: never a tie, which both   *)
(* readSettings() and writeSettings() would give to A, nor a gap that a    *)
(* block of an unfinished write has left behind.                           *)
ConsecutiveGenerations ==
  Good = Sectors =>
    \/ blk["A"].sequence = blk["B"].sequence + 1
    \/ blk["B"].sequence = blk["A"].sequence + 1

(* The sector about to be erased or programmed is never the one the next   *)
(* boot would read, unless nothing valid exists (ilabs_fota_qspi.h, "the   *)
(* previously active block is left intact").                               *)
TargetIsInactive ==
  pc \in {"erase", "program"} /\ Good # {} => target # Active

(* A call that returned true is what every later reader sees, until the    *)
(* next call: writeSettings() never "succeeds" into a block that loses.    *)
AcknowledgedIsVisible ==
  pc = "idle" /\ ret = "ok" => Good # {} /\ blk[Active].body = req

(* No step, whether a flash fault or a power loss, turns a store that      *)
(* holds settings into one that holds none.                                *)
SettingsSurvive == [][ Good # {} => Good' # {} ]_vars

(* The strengthening that makes them inductive: a write in progress aims   *)
(* at the sector beside the newest block, one generation above it.         *)
Other(s) == IF s = "A" THEN "B" ELSE "A"

Aimed ==
  \/ Good = {}
  \/ /\ blk[Other(target)].valid
     /\ seq = blk[Other(target)].sequence + 1
     /\ blk[target].valid => seq = blk[target].sequence + 2

WriteAimed ==
  /\ pc = "choose" => BelowBound
  /\ pc \in {"erase", "program"} => Aimed
  /\ pc # "idle" => kind # "none"

(* The two sectors behave as one register that changes atomically and that *)
(* triggerUpdate() edits in place: no torn value, no lost field.           *)
Register == INSTANCE SettingsRegister WITH
  Stage <- [ s \in Settings |-> [ v \in Versions |-> Staged(s, v) ] ],
  initialised <- (Good # {}),
  value <- ReadOrZero(Good),
  op <- IF pc = "idle" THEN "none" ELSE kind,
  new <- IF pc = "idle" THEN Zeroed ELSE req

IsAtomicRegister == Register!Spec
=============================================================================
