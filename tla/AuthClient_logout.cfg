CONSTANTS
  browser = browser
  device = device
  keyed = keyed
  unknown = unknown
  None = None
  Callers = {c1, c2}
  Providers = {browser}
  Methods <- DeclaredMethods
  Rotates = {browser}
  Keeps = {}
  Serialized = FALSE
  Exchanges = {x1, x2}
  MaxGrants = 2
SPECIFICATION Spec
PROPERTY SignedOutUntilSignIn
