\* four cells, every set of candidates and overlaps, lists of at most two boxes
CONSTANTS
  NCells = 4
  Scores <- HalfScores
  Unit = 2
  Logit = 2
  BoxLimit = 2
SPECIFICATION Spec
INVARIANTS ListIsGreedy BoxesApart MissingForAReason
CHECK_DEADLOCK FALSE
