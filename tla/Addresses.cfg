SPECIFICATION MCSpec
CONSTANTS
  MetaLen = 4
  NodeSize = 2
  PageSize = 3
  NodeStripeLen = 1
  PageStripeLen = 1
  PageNodeRatio = 2
  FirstCapacity = 4
  NULL = NULL
  Unreadable = Unreadable
  Unsaved = Unsaved
  Object = {"o1", "o2"}
  LastAddress = 17
  PageAddress <- MCPageAddress
  NodeAddress <- MCNodeAddress
  Hash <- MCHash
  MaxChanges = 4
INVARIANTS
  ObjectsAreApart
PROPERTIES
  ImplementsTableStore
