\* The system stops when the run is over and its processes have ended.
CONSTANTS
  Proc = {child, p1, p2}
  Child = child
  Cap = 2
  MaxWrites = 3
SPECIFICATION Spec
INVARIANTS
  TypeOK
  OkIsWhole
  ContainmentHolds
PROPERTIES
  EveryRunEnds
  ImplementsProviderCommand
CHECK_DEADLOCK FALSE
