SPECIFICATION Spec
CONSTANTS
  Versions = {v1}
  NoVersion = NoVersion
  MaxSeq = 3
  ReadFaults = TRUE
PROPERTY
  SettingsSurvive
