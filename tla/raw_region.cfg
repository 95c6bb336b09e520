SPECIFICATION RegionsSpec
CONSTANTS
  a = a
  Tasks = {a}
  WakeAttempts = 5
  MaxMisses = 0
  MaxNest = 1
  SectorSize = 2
  SlotSize = 6
  ChipSize = 16
  Word = 32
  Lengths = {1}
INVARIANTS
  RawStaysBelow
