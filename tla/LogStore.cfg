SPECIFICATION Spec
CONSTANTS
  Session = {s1, s2, s3}
  Config = {c1}
  Line = {a, b}
  Requested = 2
  None = None
SYMMETRY Symmetry
INVARIANTS
  TypeOK
PROPERTIES
  ImplementsPromise
