CONSTANTS
  Threads = {t1, t2}
  Providers = {p1, p2}
  Secrets = {s1, s2}
  Keys = {k1, k2}
  None = None
SPECIFICATION Spec
SYMMETRY Interchangeable
INVARIANT TypeOK
PROPERTY MapSpec
