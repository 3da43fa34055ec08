CONSTANTS
  Port = {p1, p2}
  Asking = {p1}
  MaxLaunches = 1
  Copy = {c1, c2}
  None = None
SPECIFICATION FairSpec
INVARIANTS
  TypeOK
  ListenerIsReachable
  ServedWhileUp
  NeverNotRunningInALaunch
PROPERTIES
  EveryRequestAnswered
