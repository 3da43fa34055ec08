CONSTANTS
  Setup = {s1, s2}
  Version = {v1, v2}
  Browser = {"chrome", "brave", "edge"}
  None = None
  Root = Root
  Hosts = Hosts
  MaxVersions = 2
  MaxCrashes = 1
  MaxOutside = 1
SYMMETRY Symmetry
SPECIFICATION Spec
INVARIANTS
  TypeOK
  RegistrationsLaunch
  EverythingIsOwned
  BridgeFindsTheHelper
PROPERTIES
  ForeignIsKept
  SuccessIsComplete
