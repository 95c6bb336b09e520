SPECIFICATION Spec
SYMMETRY VersionSymmetry
CONSTANTS
  Versions = {v1, v2}
  NoVersion = NoVersion
  MaxSeq = 3
  ReadFaults = FALSE
INVARIANTS
  ConsecutiveGenerations
  AcknowledgedIsVisible
PROPERTIES
  SettingsSurvive
  IsAtomicRegister
