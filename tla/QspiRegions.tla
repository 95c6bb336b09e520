---------------------------- MODULE QspiRegions ----------------------------
(***************************************************************************)
(* The calls of iLabsFotaQspi that reach the flash, over the power model   *)
(* of QspiPower: the raw calls of an in-house partition below the FOTA     *)
(* reservation, and the calls that take an offset into a slot.  Addresses  *)
(* are words of the processor, Word of them, and arithmetic on them wraps. *)
(*                                                                         *)
(* The flash decodes as many address bits as it has bytes, so an address   *)
(* past its end is one inside it.                                          *)
(***************************************************************************)
EXTENDS QspiPower

CONSTANTS
  SectorSize,      \* kSectorSize
  SlotSize,        \* ILABS_FOTA_SLOT_SIZE
  ChipSize,        \* ILABS_FOTA_QSPI_SIZE
  Word,            \* values of uint32_t and size_t
  Lengths          \* the lengths callers ask for

ASSUME RegionsAssumption ==
  /\ SectorSize \in Nat \ {0} /\ SlotSize \in Nat /\ ChipSize \in Nat \ {0}
  /\ Word \in Nat
  /\ 2 * SectorSize < SlotSize /\ 2 * SlotSize < ChipSize /\ ChipSize <= Word
  /\ SlotSize % SectorSize = 0 /\ ChipSize % SectorSize = 0
  /\ Lengths \subseteq 0..(Word - 1)

VARIABLE
  access           \* the last call: which one, the bytes of the flash it
                   \* reached, and what it returned

regionVars == <<vars, access>>

(* The partition map. *)
DownloadSlotAddr == ChipSize - SlotSize
DownloadSlotUsable == SlotSize - 2 * SectorSize
BackupSlotAddr == ChipSize - 2 * SlotSize
BackupSlotUsable == SlotSize
UserRegionBytes == BackupSlotAddr

Words == 0..(Word - 1)

(* The bytes of the flash that n bytes from an address on are. *)
Bytes(addr, n) == { a % ChipSize : a \in addr..(addr + n - 1) }

(* Unsigned addition in 32 bits. *)
Plus(a, b) == (a + b) % Word

NoAccess == [ call |-> "none", bytes |-> {}, ok |-> FALSE ]

RegionsInit == Init /\ access = NoAccess

-----------------------------------------------------------------------------
(* A call returns; `bytes` is what it reached of the flash. *)
Answers(call, bytes, ok) ==
  /\ access' = [ call |-> call, bytes |-> bytes, ok |-> ok ]
  /\ UNCHANGED vars

(* erase_one_sector_abs(): refused, or the flash erases or does not. *)
EraseOneSectorAbs(call, addr) ==
  IF ~ready \/ addr % SectorSize # 0 THEN Answers(call, {}, FALSE)
  ELSE \E ok \in BOOLEAN : Answers(call, Bytes(addr, SectorSize), ok)

(* write_abs() and read_abs(). *)
TransferAbs(call, addr, n) ==
  IF ~ready \/ n = 0 THEN Answers(call, {}, FALSE)
  ELSE \E ok \in BOOLEAN : Answers(call, Bytes(addr, n), ok)

RawErase ==
  \E addr \in Words :
    IF Plus(addr, SectorSize) > UserRegionBytes THEN Answers("rawErase", {}, FALSE)
    ELSE EraseOneSectorAbs("rawErase", addr)

(* rawWrite() and rawRead() *)
RawTransfer(call) ==
  \E addr \in Words, n \in Lengths :
    IF Plus(addr, n) > UserRegionBytes THEN Answers(call, {}, FALSE)
    ELSE TransferAbs(call, addr, n)

(* eraseDownloadSlot(): sector by sector, up to the first that fails. *)
EraseDownloadSlot ==
  IF ~ready THEN Answers("eraseDownload", {}, FALSE)
  ELSE \E n \in 1..(DownloadSlotUsable \div SectorSize), ok \in BOOLEAN :
         /\ ok => n * SectorSize = DownloadSlotUsable
         /\ Answers("eraseDownload", Bytes(DownloadSlotAddr, n * SectorSize), ok)

EraseDownloadSector ==
  \E o \in Words :
    IF o >= DownloadSlotUsable THEN Answers("eraseDownload", {}, FALSE)
    ELSE EraseOneSectorAbs("eraseDownload", Plus(DownloadSlotAddr, o))

(* A mutant of WithinSlot: the sum is taken in 32 bits. *)
WithinSlotWrapped(offset, n, usable) == Plus(offset, n) <= usable

(* The bound of the slot calls, in 64 bits. *)
WithinSlot(offset, n, usable) == offset + n <= usable

(* writeDownload(), readDownload() and readBackup() *)
SlotTransfer(call, base, usable) ==
  \E o \in Words, n \in Lengths :
    IF ~WithinSlot(o, n, usable) THEN Answers(call, {}, FALSE)
    ELSE TransferAbs(call, Plus(base, o), n)

Call ==
  \/ RawErase \/ RawTransfer("rawWrite") \/ RawTransfer("rawRead")
  \/ EraseDownloadSlot \/ EraseDownloadSector
  \/ SlotTransfer("writeDownload", DownloadSlotAddr, DownloadSlotUsable)
  \/ SlotTransfer("readDownload", DownloadSlotAddr, DownloadSlotUsable)
  \/ SlotTransfer("readBackup", BackupSlotAddr, BackupSlotUsable)

Power == Next /\ access' = NoAccess

RegionsNext ==
  \/ (\E t \in Tasks : pc[t] = "run") /\ Call
  \/ Power

RegionsSpec == RegionsInit /\ [][RegionsNext]_regionVars

-----------------------------------------------------------------------------
(* Properties. *)

Region(base, usable) == base..(base + usable - 1)

(* A call that takes an offset into a slot reaches that slot only, for all *)
(* offsets and lengths: neither the settings above the download slot, nor  *)
(* what a sum that wrapped points at.                                      *)
SlotCallsStayInSlot ==
  /\ access.call \in {"eraseDownload", "writeDownload", "readDownload"} =>
       access.bytes \subseteq Region(DownloadSlotAddr, DownloadSlotUsable)
  /\ access.call = "readBackup" =>
       access.bytes \subseteq Region(BackupSlotAddr, BackupSlotUsable)

(* No call reaches a flash that sleeps or has no peripheral in front of    *)
(* it, whatever resume() and suspend() calls, failed wakes and resets came *)
(* before: it returns false instead.                                       *)
ReachesAwakeChip == access.bytes # {} => chip = "awake" /\ periph

(* The raw calls are "bounds-checked against kUserRegionBytes so a         *)
(* misbehaving client can't stomp on the FOTA region".                     *)
RawStaysBelow ==
  access.call \in {"rawErase", "rawWrite"} =>
    access.bytes \subseteq Region(0, UserRegionBytes)
=============================================================================
