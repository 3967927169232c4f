CONSTANTS
  browser = browser
  device = device
  keyed = keyed
  unknown = unknown
  None = None
  Callers = {c1, c2}
  Providers = {keyed}
  Methods <- DeclaredMethods
  Rotates = {keyed}
  Keeps = {}
  Serialized = FALSE
  Exchanges = {x1, x2}
  MaxGrants = 3
SPECIFICATION FairSpec
INVARIANTS
  TypeOK
  TokenDeathExplained
PROPERTY RefreshReturns
