CONSTANTS
  NumClaims = 1
  ClaimSpecs <- OneSpec
  Templates <- PausedTemplate
  MaxInstances = 2
  MaxWait = 1
  Disturbances <- RestartDisturbances
  MaxChanges = 1
SPECIFICATION Spec
PROPERTY ResumesWhatItDecidedOn
