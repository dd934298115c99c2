SPECIFICATION Spec
CONSTANTS
  s1 = s1
  s2 = s2
  s3 = s3
  c1 = c1
  c2 = c2
  user = user
  web = web
  None = None
  Session = {s1, s2, s3}
  Own = {s1, s2}
  Config = {c1, c2}
  Group = {}
  Recognised = {}
  Supported = {}
  Lossy = TRUE
  MaxQueue = 1
  FaultyCalls = {"NewTunnel", "LogForward", "Connect", "Disconnect", "Status", "List", "Ready", "Queue", "Provide", "Watch"}
  Reports <- FewReports
SYMMETRY Symmetry
INVARIANTS
  NoOrphan
  OneChain
  AtMostOneLive
  TunnelIsWanted
PROPERTIES
  ImplementsSingleSession
