SPECIFICATION RestartSpec
CONSTANTS
  s1 = s1
  s2 = s2
  x1 = x1
  c1 = c1
  None = None
  Session = {s1, s2, x1}
  Own = {s1, s2}
  Config = {c1}
  Group = {}
  Recognised = {}
  Supported = {}
  Lossy = FALSE
  MaxQueue = 1
  FaultyCalls = {}
  Reports <- EndReports
  MaxCrashes = 2
SYMMETRY Symmetry
INVARIANTS
  NoneIsLost
  OneLiveAcrossRestarts
  FoundStopsFirst
  GoneIsSignalled
