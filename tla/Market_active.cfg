SPECIFICATION ActiveSpec
CONSTANTS
  Assets = {a}
  MaxPending = 1
  Capacity = 2
  Sessions = {0, 1}
  MaxWire = 1
  MaxBatch = 2
  MaxTicks = 1
  MaxFaults = 1
INVARIANTS TypeOK SoundBook OneBatch
PROPERTY BookRecovers
