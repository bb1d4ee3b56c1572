CONSTANTS
  NumClaims = 1
  ClaimSpecs <- AllSpecs
  Templates <- AllTemplates
  MaxInstances = 2
  MaxWait = 1
  Disturbances <- AllDisturbances
  MaxChanges = 2
SPECIFICATION FairSpec
INVARIANTS TypeOK RecordsAreTrue
PROPERTIES HoldEnds StatusSettles
