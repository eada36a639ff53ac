SPECIFICATION Spec
CONSTANTS
  up = up
  down = down
  o1 = o1
  o2 = o2
  NoOrder = NoOrder
  Assets = {up}
  Orders = {o1}
  AssetOf <- OneAsset
  MaxRevision = 2
  QueueCapacity = 1
  MaxHeartbeatFailures = 2
  Faults = {"crash", "loss", "trade", "answer", "journal", "gate"}
INVARIANTS TypeOK LatchedLocked FeedInOrder LiveOrdersRecoverable NothingUntracked
PROPERTIES PostsOnlyCaughtUp LifeKept
