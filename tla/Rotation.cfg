CONSTANTS
  c1 = c1
  Clients = {c1}
  TcpClients = {c1}
  CameraFails = TRUE
  MaxVideos = 2
  MaxPeriods = 4
  NoFile = NoFile
  NoClient = NoClient
SPECIFICATION FairSpec
INVARIANTS ReadersKeepTheirVideo ListedAreTheLatest
PROPERTIES StopReturns
CHECK_DEADLOCK FALSE
