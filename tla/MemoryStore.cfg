CONSTANTS
  Threads = {t1, t2, t3}
  Providers = {p1, p2}
  Secrets = {s1, s2}
  None = None
SPECIFICATION Spec
SYMMETRY Interchangeable
INVARIANT TypeOK
PROPERTY MapSpec
