CONSTANTS
  p1 = p1
  Producers = {p1}
  Capacity = 2
  MaxPosts = 3
  Loop = Loop
  NoThread = NoThread
  NoEvent = NoEvent
SPECIFICATION FairSpec
INVARIANTS NoMissedWakeup
PROPERTIES QueueSpec EventsRun QuitReturns
CHECK_DEADLOCK FALSE
