SPECIFICATION AppletSpec
CONSTANTS
  s1 = s1
  s2 = s2
  c1 = c1
  c2 = c2
  user = user
  n1 = n1
  n2 = n2
  None = None
  Session = {s1, s2}
  Own = {s1, s2}
  Config = {c1}
  Group = {user}
  Recognised = {user}
  Supported = {user}
  Lossy = FALSE
  MaxQueue = 1
  FaultyCalls = {}
  Reports <- DialReports
  Name = {n1}
  DisplayName <- Plain
  FaultyConfigCalls = {}
  TerminalActs = {}
  MaxCommands = 2
  Buttons = {}
  MaxSnapshots = 1
SYMMETRY Symmetry
INVARIANTS
  NothingIsRetained
