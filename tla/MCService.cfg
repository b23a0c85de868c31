CONSTANTS
  None = None
  req1 = req1
  req2 = req2
  req3 = req3
  ask1 = ask1
  ask2 = ask2
  q1 = q1
  q2 = q2
  q3 = q3
  Request = {req1, req2, req3, "probe"}
  Probe = {"probe"}
  MaxConcurrent = 2
  Migrator = {"m1", "m2"}
  Server = {"s1"}
  Databases <- MCDatabases
  NewReceipt <- MCNewReceipt
  NewEvent <- MCNewEvent
  MaxStarts = 3
  Input <- MCInput
  Threshold <- MCThreshold
  Window = 2
  Interval = 2
  MaxTime = 5
  MaxEvents = 3
  Caller = {ask1, ask2}
  Query = {q1, q2, q3}
  Timeout = 2
  CacheFor = 3
SPECIFICATION Spec
SYMMETRY Symmetry
INVARIANTS
  RuntimeSound
  MigrationSound
  AlertsSound
  ReadinessSound
PROPERTIES
  StepsSound
CHECK_DEADLOCK FALSE
