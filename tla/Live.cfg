SPECIFICATION Spec
CONSTANTS
  s1 = s1
  s2 = s2
  c1 = c1
  c2 = c2
  g1 = g1
  g2 = g2
  Sessions = {s1, s2}
  Conns = {c1, c2}
  Fds = {1, 2}
  Groups = {g1, g2}
  Transports = {"multicast", "udp", "tcp"}
  MaxPackets = 1
  MaxDescribes = 2
  None = None
INVARIANTS StraysOnlyIfDescribed SdpNamesGroup StuckOnlyByTcp
PROPERTIES SilentOnlyIfDeafClient
SYMMETRY Interchangeable
CHECK_DEADLOCK FALSE
