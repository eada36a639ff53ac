SPECIFICATION Spec
CONSTANTS
  Assets = {a}
  Ids = {1, 2}
  One = 5
  StartingCash = 4
  FeeRate = 0
  Participation = 3
  Tick = 1
  MinSpread = 2
  MinOrder = 2
  Sizes = {5}
  Books <- ExactBooks
  Trades <- ExactTrades
  MaxOrders = 2
  WriteFails = FALSE
INVARIANT RunsWithinReserve
