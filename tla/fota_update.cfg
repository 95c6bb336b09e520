SPECIFICATION FairSpec
CONSTANTS
  MaxVersion = 3
  MaxRetries = 1
INVARIANTS
  PendingMeansImage
PROPERTIES
  NeverRollsBack
  UpdateArrives
