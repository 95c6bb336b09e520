SPECIFICATION RegionsSpec
CONSTANTS
  a = a
  Tasks = {a}
  WakeAttempts = 5
  MaxMisses = 6
  MaxNest = 4
  SectorSize = 2
  SlotSize = 6
  ChipSize = 16
  Word = 32
  Lengths = {0, 1, 3, 31}
INVARIANTS
  HeldMeansReady
  OnlyBeginLeavesItUp
  SlotCallsStayInSlot
  ReachesAwakeChip
PROPERTIES
  BacksOutAfterAllAttempts
