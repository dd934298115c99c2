SPECIFICATION Spec
CONSTANTS
  s1 = s1
  s2 = s2
  None = None
  Session = {s1, s2}
  Own = {s1, s2}
  Config = {}
  Group <- Known2
  Recognised <- Known2
  Supported <- Prompted
  MajorsOnWire <- NarrowMajors
  MinorsOnWire <- NarrowMinors
  TypesOnWire <- NarrowTypes
  GroupsOnWire <- NarrowGroups
  EventsOnWire <- NarrowEvents
INVARIANT TypeOK
PROPERTIES
  TableImplemented
  RequestNeverSwallowed
  OnlyDestroyedEnds
