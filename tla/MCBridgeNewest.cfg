CONSTANTS
  Setup = {s1}
  Version = {1, 2}
  Browser = {"chrome"}
  None = None
  Root = Root
  Hosts = Hosts
  MaxVersions = 2
  MaxCrashes = 0
  MaxOutside = 0
SPECIFICATION Spec
PROPERTIES
  BridgeRunsTheNewest
