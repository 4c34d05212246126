CONSTANTS
  Configs <- LabelRuns
  Bounds <- LabelBounds
SPECIFICATION FairSpec
PROPERTIES
  ValidatedIsLeft
CHECK_DEADLOCK FALSE
