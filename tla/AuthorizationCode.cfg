CONSTANTS
  s1 = s1
  s2 = s2
  port1 = port1
  AnyPort = AnyPort
  None = None
  Sessions = {s1, s2}
  Config <- Mixed
  Families = {"v4", "v6"}
  Ports = {port1}
  Timeouts = {2, 12}
  InstantMax = 9
  MaxLoads = 2
  LastStart = 1
  LocalRequests <- Programs
SPECIFICATION FairSpec
INVARIANTS
  TypeOK
  OwnCodeOnly
  SignedInMeansApproved
  DenialIsOwn
  WaitIsBounded
  ListenersOwned
  LoopbackReachable
PROPERTY PortReleased
CHECK_DEADLOCK FALSE
