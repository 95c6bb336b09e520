SPECIFICATION Spec
CONSTANTS
  HeaderSize = 2
  SectorSize = 4
  SlotSectors = 2
  OutBuf = 3
  AccSize = 5
  GzHeader = 1
  Footer = 1
  Megachunk = 4
  MaxStalls = 1
  MaxPiece = 3
  Images <- EmptyImages
  OldLens <- MCOldLens
  Faults <- NoFaults
INVARIANT
  CommitMeansImage
