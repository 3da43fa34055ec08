CONSTANTS
  Setup = {s1, s2}
  Version = {v1, v2, v3}
  Browser = {b1, b2}
  None = None
  Foreign = Foreign
  MaxVersions = 2
  MaxCrashes = 1
  MaxOutside = 1
SYMMETRY Symmetry
SPECIFICATION Spec
INVARIANTS
  TypeOK
  RegistrationsLaunch
  EverythingIsOwned
PROPERTIES
  ForeignIsKept
  SuccessIsComplete
