SPECIFICATION FairSpec
CONSTANTS
  t1 = t1
  t2 = t2
  t3 = t3
  o1 = o1
  o2 = o2
  Trades = {t1}
  Fill <- TwoFills
  One = 10
  RateUnit = 20
  Quantum = 2
  StartCash = 20
  StartSize = 3
  Mark = 3
  QueueCapacity = 2
  Course = {"matched", "failed"}
  Faults = {"crash", "late"}
PROPERTY PendingSettles
