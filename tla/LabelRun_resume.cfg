SPECIFICATION FairSpec
CONSTANTS
  Plans <- MCPlans
  Targets <- MCTargets
  BatchSize = 2
  MaxAttempts = 1
  None = None
  MaxKills = 1
  MaxFaults = 1
  MaxStops = 1
INVARIANTS
  TypeOK
  LabelledOnce
  UploadedIsRemote
PROPERTIES
  OutputKept
  BookSpec
  RunPublished
