CONSTANTS
  alice = alice
  bob = bob
  carol = carol
  NoActor = NoActor
  Absent = Absent
  k1 = k1
  k2 = k2
  p = p
  q = q
  w1 = w1
  w2 = w2
  Actor = {alice, bob, carol}
  Cell = {k1, k2}
  Worker = {w1, w2}
  ProviderTx = {p, q}
  CommandId = {"c1", "c2", "c3"}
  MaxSends = 3
  Amount <- MCAmount
  Time <- MCTime
  Requests <- MCRequests
  InitialRows <- MCInitialRows
SPECIFICATION SuiteSpec
SYMMETRY Symmetry
INVARIANTS
  RetryReplays
CHECK_DEADLOCK FALSE
