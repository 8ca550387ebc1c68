\* two slots, three calls of life, ids 1..2, drifting predictions, fair calls
CONSTANTS
  MaxObjects = 2
  Positions <- AxisShort
  Drifts <- Drifting
  Elapsed = {0, 1}
  LifeInit = 3
  DistThresh = 16
  Hysteresis = 7
  DistMax = 100
  MatchThresh = 10
  IdWrap = 3
  MaxMeasurements = 2
SPECIFICATION FairSpec
INVARIANTS TableAgrees RecentIdsDistinct
PROPERTIES ImplementsLeasePool UnseenExpire
