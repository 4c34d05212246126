CONSTANTS
  Jobs = {j1, j2, j3, j4, j5}
  NoJob = NoJob
  MaxCandidates = 1
  Attempts = 1
  RepliesLost = FALSE
  MaxCrashes = 2
  Restarts = {"resume", "run"}
SPECIFICATION Spec
SYMMETRY JobSymmetry
INVARIANTS
  OneFallbackOneTrial
