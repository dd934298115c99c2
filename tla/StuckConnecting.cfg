SPECIFICATION Spec
CONSTANTS
  s1 = s1
  s2 = s2
  s3 = s3
  c1 = c1
  c2 = c2
  user = user
  web = web
  None = None
  Session = {s1, s2}
  Own = {s1, s2}
  Config = {c1, c2}
  Group = {user}
  Recognised = {user}
  Supported = {user}
  Lossy = FALSE
  MaxQueue = 1
  FaultyCalls = {"NewTunnel"}
  Reports <- FewReports
SYMMETRY Symmetry
INVARIANTS
  ConnectingHasSession
