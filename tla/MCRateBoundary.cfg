CONSTANTS
  None = None
  a = a
  b = b
  c = c
  d = d
  k = k
  l = l
  Call = {a, b, c, d}
  Bucket = {k, l}
  KeyOf <- MCKeyOf
  Limit = 1
  Window = 3
  Retention = 3
  Second = 2
  MaxLatency = 2
  LastReading = 7
SPECIFICATION RateSpec
SYMMETRY Same
INVARIANTS
  ExactBoundary
CHECK_DEADLOCK FALSE
