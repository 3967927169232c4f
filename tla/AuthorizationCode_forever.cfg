CONSTANTS
  s1 = s1
  s2 = s2
  port1 = port1
  AnyPort = AnyPort
  None = None
  Sessions = {s1, s2}
  Config <- SamePort
  Families = {"v4"}
  Ports = {port1}
  Timeouts = {12}
  InstantMax = 9
  MaxLoads = 1
  LastStart = 1
  LocalRequests <- OneError
SPECIFICATION Spec
PROPERTY WaitBlocks
CHECK_DEADLOCK FALSE
