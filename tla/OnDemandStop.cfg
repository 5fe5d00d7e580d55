CONSTANTS
  c1 = c1
  c2 = c2
  s1 = s1
  s2 = s2
  Conns = {c1,c2}
  Sessions = {s1}
  Fds = {1}
  Transports <- OverUdp
  Targets <- OneSession
  Loop = Loop
  NoConn = NoConn
  NoSession = NoSession
  NoFd = NoFd
  NoThread = NoThread
  Stopping = TRUE
SPECIFICATION FairSpec
CHECK_DEADLOCK FALSE
INVARIANTS DescribedHasHandler NoCloseForgotten
PROPERTIES CloseCompletes StopOnlyWaitsForUnswept
