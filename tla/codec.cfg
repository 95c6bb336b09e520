SPECIFICATION CodecSpec
CONSTANTS
  Ring = 5
  Page = 2
  MaxDist = 3
  MaxLen = 8
  Garbage = Garbage
  MaxText = 7
  Inputs <- Texts
  Plans <- TokenPlans
  Files <- EncodedFiles
  HashBits = 2
  DictSize = 4
  Window = 32768
  BlockSize = 6
  LengthSize = 2
  Radix = 256
  MaxMessage = 14
  MaxHashes = 2
INVARIANTS
  DrainedRight
  TokensMeanData
  ReadsWhatWasWritten
  NineBitsAByte
  HashesTheMessage
PROPERTIES
  ReplayFinishes
