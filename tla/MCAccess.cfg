CONSTANTS
  None = None
  admin1 = admin1
  admin2 = admin2
  Request = {"act", "show", "look", "list", "audit", "fund", "plan", "late"}
  Cell = {"cell", "other"}
  Sent <- MCSent
  Terms <- MCTerms
  Records <- MCRecords
  Destination = {"d1", "d2"}
  Contexts <- MCContexts
  MaxTime = 3
  MaxChanges = 2
  Principal = {"alice", "gate"}
  Actor = {"a1", "a2"}
  Identity = {"i1", "i2"}
  Administrator = {admin1, admin2}
  Resolution = {"r1"}
  Changes <- MCChanges
  MaxVersion = 4
  Caller = {"o1", "o2", "u"}
  Operator = {"o1", "o2"}
  Command = {"k1"}
  Registered = {"alice"}
  Requests <- MCRequests
  Candidates <- MCCandidates
  Mode = {"ENFORCE", "SHADOW"}
  MaxTtl = 3
  Skew = 1
  MaxRealTime = 4
  MaxCalls = 3
SPECIFICATION Spec
SYMMETRY Symmetry
INVARIANTS
  PrincipalsSound
  ResolvedFresh
  QuarantineHolds
  PartiesOnly
  FundedAsAgreed
CHECK_DEADLOCK FALSE
