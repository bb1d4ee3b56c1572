CONSTANTS
  NumClaims = 1
  ClaimSpecs <- InvalidSpec
  Templates <- PausedTemplate
  MaxInstances = 1
  MaxWait = 1
  Disturbances <- NoDisturbances
  MaxChanges = 0
SPECIFICATION FairSpec
PROPERTY InvalidNeverHolds
