CONSTANTS
  Drivers = {d1}
  NoDriver = NoDriver
  Shards = {1}
  Voyage = {1}
  Sizes <- SomeSizes
  None = None
  MaxFaults = 1
  MaxOverlaps = 0
SPECIFICATION Spec
INVARIANT AllInputsUploaded
