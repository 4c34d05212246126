CONSTANTS
  c1 = c1
  c2 = c2
  NoText = NoText
  NoCell = NoCell
  None = None
  Worlds <- SomeWorlds
  PolygonRank <- PolygonRanks
  CellRank <- CellRanks
  SentenceRank <- SentenceRanks
  Targets = {5, 12}
  BatchSize = 2
  MaxKills = 2
SPECIFICATION FairSpec
INVARIANTS
  TypeOK
  LedgerCoversBest
  SampleIsReference
  SamplesNested
PROPERTIES
  SampleAccepted
