CONSTANTS
  w1 = w1
  Workers = {w1}
  Loop = Loop
  Main = Main
  NoThread = NoThread
  Capacity = 2
  PacketSize = 2
  Room = 1
  Numbers = 4
  MaxRequests = 1
  Disconnects = TRUE
SPECIFICATION FairSpec
INVARIANTS FlushLostOnlyToReadOrStop BackOnlyIfOvertaken
PROPERTIES WireInOrder DataLeaves
CHECK_DEADLOCK FALSE
