CONSTANTS
  c1 = c1
  live = live
  saved = saved
  Conns = {c1}
  Live = {live}
  OnDemand = {saved}
  MulticastPort <- LivePort
  ClientPorts = {1, 2}
  ServerPorts = {0, 3}
  CSeqs = 3
  NoConn = NoConn
  NoUrl = NoUrl
  NoReceiver = NoReceiver
SPECIFICATION FairSpec
INVARIANTS AnswersAreAwaited PlayedReachesReceiver
PROPERTIES CallsReturn
CHECK_DEADLOCK FALSE
