CONSTANTS
  Configs <- EveryRun
  Bounds <- SafetyBounds
SPECIFICATION Spec
INVARIANTS
  TypeOK
  CompleteMeansDone
  StagesInOrder
  OneLiveJob
  ActiveRootKept
PROPERTIES
  NeverAbandonLive
