CONSTANTS
  alice = alice
  bob = bob
  carol = carol
  NoActor = NoActor
  Actor = {alice, bob, carol}
  Amount <- MCAmount
  Time <- MCTime
  Terms <- MCTerms
SPECIFICATION Spec
INVARIANTS
  TypeOK
  StreamReadable
  HistorySound
  SettlementAuthorised
  ExitExists
PROPERTIES
  DisputeFreezes
  TermsImmutable
  ImplementsCustody
CHECK_DEADLOCK FALSE
