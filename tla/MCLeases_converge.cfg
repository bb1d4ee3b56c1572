CONSTANTS
  k1 = k1
  k2 = k2
  Controllers = {k1}
  NumDevices = 2
  NumClaims = 2
  Selectors <- SomeSelectors
  Disturbances <- AllDisturbances
  MaxChanges = 2
SPECIFICATION FairSpec
PROPERTIES LeaseEndsByOwnerOrDeath Converges
