\* three slots, boxes within and out of reach of each other
CONSTANTS
  MaxObjects = 3
  Positions <- Axis
  Drifts <- NoDrift
  Elapsed = {0, 1}
  LifeInit = 2
  DistThresh = 10
  Hysteresis = 2
  DistMax = 100
  MatchThresh = 10
  BoxLimit = 3
  IdSize = 4
SPECIFICATION Spec
INVARIANTS FrameReported ClassesNeverForgotten
PROPERTIES NeverRefreshed
CHECK_DEADLOCK FALSE
