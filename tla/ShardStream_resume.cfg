CONSTANTS
  Drivers = {d1, d2}
  NoDriver = NoDriver
  Shards = {1, 2}
  Voyage = {1}
  Sizes <- SomeSizes
  None = None
  MaxFaults = 2
  MaxOverlaps = 1
SPECIFICATION FairSpec
INVARIANTS
  TypeOK
  LedgerOnHub
  PartialResumable
PROPERTIES
  EvictedOnlyWhenUploaded
  NeverRepeatBatch
  ShardRecorded
