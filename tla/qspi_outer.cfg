SPECIFICATION RegionsSpec
CONSTANTS
  b = b
  a = a
  Tasks = {a, b}
  WakeAttempts = 5
  MaxMisses = 0
  MaxNest = 1
  SectorSize = 2
  SlotSize = 6
  ChipSize = 16
  Word = 32
  Lengths = {1}
PROPERTIES
  BroughtUpByOuter
