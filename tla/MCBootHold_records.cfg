CONSTANTS
  NumClaims = 2
  ClaimSpecs <- HoldingSpecs
  Templates <- PausedTemplate
  MaxInstances = 1
  MaxWait = 2
  Disturbances <- RecordDisturbances
  MaxChanges = 3
SPECIFICATION FairSpec
PROPERTIES ResumesOnlyBoots HoldEnds
