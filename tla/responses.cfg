SPECIFICATION MCSpec
CONSTANTS
  Documents <- MCDocuments
  Base = 2
  WordSize = 4
  BufSize = 15
  UrlMax = 3
  ChunkSizes = {1, 4}
  Versions = {0, 1, 2}
  DeviceTypes = {1, 2}
  Period = 3
  LogBudget = 2
  CmdCap = 2
  BodyMax = 5
  PieceMax = 3
  LeadIn = 16
  CapDefault = 22
  CapBuffer = 25
  CapMin = 20
  PostMaxes = {0, 19, 20, 21, 23, 30}
  Lens = {2, 19, 20, 21, 22, 23, 24, 25}
INVARIANTS
  OfferIsNewer
  OfferUrlIsUntorn
  WholeManifestIsJudged
  VerdictIsRight
  CommandIsReply
  BodyIsJson
