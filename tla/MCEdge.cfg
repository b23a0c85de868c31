CONSTANTS
  None = None
  List = List
  Empty = Empty
  other = other
  mine = mine
  theirs = theirs
  r1 = r1
  r2 = r2
  r3 = r3
  Call = {r1, r2, r3, other}
  Bucket = {mine, theirs}
  KeyOf <- MCKeyOf
  Limit = 2
  Window = 3
  Retention = 5
  Second = 2
  MaxLatency = 2
  LastReading = 6
  Issuer = {"i1", "i2"}
  Config <- MCConfig
  Key <- AllKeys
  Token <- AllTokens
  Request = {r1, r2, r3}
  Ttl = 2
  Timeout = 1
  UnknownCooldown = 2
  ClockSkew = 1
  MaxKeys = 2
  MinBits = 2048
  MaxTime = 3
  MaxChanges = 2
  Client = {"c1", "c2"}
  Proxy = {"p1", "p2"}
  Trusted = {"p1"}
  Allowed = {"h1", "h2"}
  Materials <- MCMaterials
  Spelling = {"plain", "mapped"}
  Sets <- MCSets
  Sources <- MCSources
  Forwards <- MCForwards
  Hosts <- MCHosts
  Requests <- MCRequests
  ServerTime = {"t1", "t2"}
  Environments <- MCEnvironments
  Good <- MCGood
SPECIFICATION Spec
SYMMETRY Symmetry
INVARIANTS
  IntakeSound
  RateSound
  ConfigurationSound
  KeysSound
  IngressSound
PROPERTIES
  KeysFresh
CHECK_DEADLOCK FALSE
