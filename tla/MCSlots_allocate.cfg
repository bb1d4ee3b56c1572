CONSTANTS
  NumVms = 2
  NumClaims = 3
  NumSlots = 2
  Pins <- FewPins
  Disturbances <- AllDisturbances
  MaxChanges = 2

SPECIFICATION FairSpec
INVARIANTS TypeOK NoSharedSlot PinsWin NoSlotWasted
PROPERTIES SlotsAreStable SlotsSettle
