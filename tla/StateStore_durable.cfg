CONSTANTS
  Procs = {p1, p2}
  NoProc = NoProc
  Phases = {created, later}
  Created = created
  Tokens = {t1, t2}
  Missing = Missing
  Torn = Torn
  MaxKills = 1
  MaxLosses = 1
SPECIFICATION FairSpec
INVARIANTS
  TypeOK
  AckedSurvive
PROPERTIES
  RegisterSpec
  LockReleased
