SPECIFICATION BubbleSpec
CONSTANTS
  NoEvent = NoEvent
  QueueSize = 2
INVARIANTS
  RefusesOnlyAtWork
  PurpleEnds
  UnheardIsMarked
PROPERTY
  ActionReturns
CHECK_DEADLOCK FALSE
