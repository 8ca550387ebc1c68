\* three slots with the band between blaming and forgiving: two people and one object, or one person and two objects
CONSTANTS
  MaxObjects = 3
  Positions <- AxisWide
  Drifts <- NoDrift
  Elapsed = {1}
  LifeInit = 3
  DistThresh = 16
  Hysteresis = 7
  DistMax = 100
  MatchThresh = 10
  IdWrap = 2
  MaxMeasurements = 2
SPECIFICATION Spec
INVARIANTS OwnerIndexInv BlameInv PassSettled
PROPERTIES OwnershipFinal

VIEW OwnersView
