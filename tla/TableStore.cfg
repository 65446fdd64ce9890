SPECIFICATION MCSpec
CONSTANTS
  n1 = n1
  n2 = n2
  p1 = p1
  o1 = o1
  o2 = o2
  Unreadable = Unreadable
  None = None
  Unsaved = Unsaved
  CacheSize = 1
  NodeAddr <- MCNodeAddr
  PageAddr <- MCPageAddr
  Object <- MCObject
  Parent <- MCParent
INVARIANTS
  TypeOK
  CacheMatchesFile
  IdleTableMatchesFile
  NothingBeyondAllocated
PROPERTIES
  ImplementsStore
