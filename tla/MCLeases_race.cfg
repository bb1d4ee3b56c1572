CONSTANTS
  k1 = k1
  k2 = k2
  Controllers = {k1, k2}
  NumDevices = 1
  NumClaims = 2
  Selectors <- OneSelector
  Disturbances <- RaceDisturbances
  MaxChanges = 2
SPECIFICATION Spec
INVARIANT TypeOK
PROPERTIES LeaseSpec LostOnlyIfSilent
SYMMETRY ControllerSymmetry
