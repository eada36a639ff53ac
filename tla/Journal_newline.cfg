SPECIFICATION Spec
CONSTANTS
  Files <- TwoFiles
  MaxStates = 2
  CompactAt = 3
  Faults = {"power", "newline"}
INVARIANT StaysReadable
