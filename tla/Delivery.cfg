CONSTANTS
  e1 = e1
  e2 = e2
  h1 = h1
  h2 = h2
  Events = {e1, e2}
  Rank <- InOrder
  Handlers = {h1, h2}
  NoEvent = NoEvent
  NoHandler = NoHandler
  MaxPosts = 2
  MaxAttempts = 3
  MaxTimeouts = 2
  Faults = {"slow", "crash", "dberror", "reorder", "resent", "lostreply", "abandoned"}
  FaultBound = 1
SPECIFICATION FairSpec
INVARIANTS
  TypeOK
  ProcessedInOrder
  ProcessedOnce
PROPERTIES
  QueueDrains
  PostedIsAnswered
CHECK_DEADLOCK FALSE
