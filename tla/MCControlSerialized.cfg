CONSTANTS
  Helper = {h1, h2}
  Nobody = Nobody
  Packaged <- MCPackaged
  MaxOrphans = 2
SPECIFICATION Spec
INVARIANT ConnectCommandsSerialized
