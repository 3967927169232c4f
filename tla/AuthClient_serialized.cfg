CONSTANTS
  browser = browser
  device = device
  keyed = keyed
  unknown = unknown
  None = None
  Callers = {c1, c2}
  Providers = {browser, device}
  Methods <- DeclaredMethods
  Rotates = {browser}
  Keeps = {browser}
  Serialized = TRUE
  Exchanges = {x1, x2}
  MaxGrants = 3
SPECIFICATION Spec
SYMMETRY Interchangeable
INVARIANT TokenDeathExplainedSerialized
PROPERTIES
  RefreshStaysRefreshable
  LifecycleSpec
