CONSTANTS
  Release = {r1, r2}
  Build = {b1, b2}
  GitHub = {r2}
  Absent = Absent
  None = None
  NoCatalog = NoCatalog
  Publisher = {p1, p2}
  MaxRuns = 2
SYMMETRY Symmetry
SPECIFICATION Spec
INVARIANTS
  TypeOK
  DownloadsAreServed
PROPERTIES
  ImplementsReleaseCatalog
CHECK_DEADLOCK FALSE
