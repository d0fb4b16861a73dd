SPECIFICATION Spec
CONSTANTS
  c = c
  k = k
  Player = {c, k}
  Creator = c
  DayLength = 6
  Dawn = 1
  Dusk = 4
  Morning = 2
  DecayTicks = 3
  Threshold <- SmallThreshold
  MaxTicks <- FewTicks
  MaxActions <- FewActions
  MaxViolations = 1
CONSTRAINT OthersHere
INVARIANTS
  TypeOK
  CountsAddUp
  NoDipUnseen
PROPERTIES
  AwardsAreEarned
