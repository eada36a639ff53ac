SPECIFICATION Spec
CONSTANTS
  Watched <- TwoWallets
  PageSize = 2
  MaxPages = 3
  MaxSeen = 4
  WatchCapacity = 1
  Malformed <- RefusedTrades
  PerSecond = 2
  MaxTrades <- TradeBounds
  MaxFailedFetches = 1
  Symbols = {"BTC", "ETH"}
  MaxAge = 1
  QuoteCapacity = 1
  MaxClock = 4
  MaxFrames = 3
  MaxOnWire = 2
  MaxWireFaults = 1
  MaxOpen = 2
  MaxCrashes = 2
  RateLimit = 2
  RateWindow = 3
  MaxInstant = 8
  MaxSetBack = 2
INVARIANTS NeverReplays NoneMissed GateWhole LatchHeld RateBounded RetryHonest
PROPERTIES TradesAreSeen NeverBack NoOrderUnderLatch
CHECK_DEADLOCK FALSE
