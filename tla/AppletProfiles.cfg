SPECIFICATION AppletSpec
CONSTANTS
  s1 = s1
  s2 = s2
  c1 = c1
  c2 = c2
  user = user
  n1 = n1
  n2 = n2
  None = None
  Session = {s1}
  Own = {s1}
  Config = {c1, c2}
  Group = {}
  Recognised = {}
  Supported = {}
  Lossy = TRUE
  MaxQueue = 0
  FaultyCalls = {}
  Reports <- NoReports
  Name = {n1, n2}
  DisplayName <- Stem
  FaultyConfigCalls = {"Fetch"}
  TerminalActs = {"Gone"}
  MaxCommands = 1
  Buttons = {"Manage", "Import"}
  MaxSnapshots = 1
SYMMETRY Symmetry
INVARIANTS
  AppletTypeOK
  MenuIsTrue
PROPERTIES
  DeleteWasArmedHere
  RunningProfileIsKept
  ImplementsWorker
