SPECIFICATION FairSpec
CONSTANTS
  Tables <- MCTables
  MaxChanges = 2
  MaxMishaps = 1
  None = None
  Malformed = Malformed
  NoText = NoText
INVARIANTS
  TypeOK
  ExportIsInventory
  ExportIsFaithful
  OutputKept
PROPERTIES
  CheckpointsKept
  RunExports
