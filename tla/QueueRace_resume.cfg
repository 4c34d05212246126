CONSTANTS
  Jobs = {j1, j2, j3}
  NoJob = NoJob
  MaxCandidates = 1
  Attempts = 2
  RepliesLost = TRUE
  MaxCrashes = 2
  Restarts = {"resume"}
SPECIFICATION FairSpec
INVARIANTS
  TypeOK
  Accounted
  OneFallbackOneTrial
  NothingLiveWhenDone
PROPERTIES
  NeverCancelRecorded
  RaceSettles
