CONSTANTS
  None = None
  Absent = Absent
  NoActor = NoActor
  alice = alice
  bob = bob
  carol = carol
  k1 = k1
  p = p
  q = q
  call1 = call1
  call2 = call2
  call3 = call3
  mine = mine
  theirs = theirs
  w1 = w1
  w2 = w2
SPECIFICATION FairSpec
PROPERTIES
  RequestsEnd
  ServicesProgress
CHECK_DEADLOCK FALSE
