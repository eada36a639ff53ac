SPECIFICATION Spec
CONSTANTS
  Assets = {a}
  Ids = {1, 2}
  One = 5
  StartingCash = 7
  FeeRate = 1
  Participation = 3
  Tick = 1
  MinSpread = 2
  MinOrder = 2
  Sizes = {5}
  Books <- SmallBooks
  Trades <- SmallTrades
  MaxOrders = 3
  WriteFails = TRUE
INVARIANTS TypeOK PositionReserved LiquidityOnce NoSelfCross EquityReported
