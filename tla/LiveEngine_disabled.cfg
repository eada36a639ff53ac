SPECIFICATION Spec
CONSTANTS
  up = up
  down = down
  o1 = o1
  o2 = o2
  NoOrder = NoOrder
  Assets = {up}
  Orders = {o1}
  AssetOf <- OneAsset
  MaxRevision = 1
  QueueCapacity = 1
  MaxHeartbeatFailures = 1
  Faults = {"crash"}
PROPERTY NoPostWhileDisabled
