SPECIFICATION Spec
CONSTANTS
  Files <- TwoFiles
  MaxStates = 5
  CompactAt = 2
  Faults = {"kill", "power", "write", "sync", "metadata"}
INVARIANTS TypeOK CheckpointBehind StaysReadable
PROPERTY StoreImplemented
