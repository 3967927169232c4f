CONSTANTS
  browser = browser
  device = device
  keyed = keyed
  unknown = unknown
  None = None
  Callers = {c1, c2}
  Providers = {device}
  Methods <- DeclaredMethods
  Rotates = {device}
  Keeps = {}
  Serialized = FALSE
  Exchanges = {x1, x2}
  MaxGrants = 2
SPECIFICATION Spec
PROPERTY RefreshableIsServed
