CONSTANTS
  c1 = c1
  c2 = c2
  s1 = s1
  s2 = s2
  Conns = {c1,c2}
  Sessions = {s1,s2}
  Fds = {1}
  Transports <- SecondOverTcp
  Targets <- FirstAnySession
  Loop = Loop
  NoConn = NoConn
  NoSession = NoSession
  NoFd = NoFd
  NoThread = NoThread
  Stopping = FALSE
SPECIFICATION Spec
CHECK_DEADLOCK FALSE
INVARIANTS HandlerOutlivesThread OpenStaysRegistered
PROPERTIES RegistrySpec
