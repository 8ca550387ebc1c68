\* two cells with scores of 4.5 and more, all above the threshold of the argument
CONSTANTS
  NCells = 2
  Scores <- HalfScores
  Unit = 2
  Logit = 2
  BoxLimit = 2
SPECIFICATION Spec
INVARIANT ThresholdUsed
CHECK_DEADLOCK FALSE
