SPECIFICATION FairSpec
CONSTANTS
  ChunkRawMax = 3
  MinRaw = 1
  Frame = 1
  MaxBody = 2
  CapFloor = 3
  MaxChunks = 2
  MaxAttempts = 2
  ReplyLen = 2
  KeyEnd = 1
  ReplyBuf = 2
  MaxLog = 5
  Faults <- AllFaults
INVARIANTS
  MarkedIsArchived
  OnlyDoubtedRepeat
  MemberFits
  FrozenWhileReading
PROPERTIES
  IsLogDelivery
  Returns
  EverythingArrives
