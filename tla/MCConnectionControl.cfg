CONSTANTS
  Helper = {h1, h2}
  Nobody = Nobody
  Packaged <- MCPackagedIvpn
  MaxOrphans = 2
SPECIFICATION FairSpec
INVARIANTS
  TypeOK
  HolderOnly
  RefusedMeansNotStarted
PROPERTIES
  NoSecondTunnel
  NeverBesideADoubtfulProvider
  LockIsFreed
