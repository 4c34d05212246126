CONSTANTS
  Configs <- EveryRun
  Bounds <- SupervisedBounds
SPECIFICATION FairSpec
PROPERTIES
  SupervisedProgress
CHECK_DEADLOCK FALSE
