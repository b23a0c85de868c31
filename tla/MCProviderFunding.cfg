CONSTANTS
  None = None
  w1 = w1
  w2 = w2
  r1 = r1
  r2 = r2
  Worker = {w1, w2}
  Intents <- MCIntents
  Routes <- MCRoutes
  Hints <- MCHints
  Observations <- MCObservations
  MaxDeliveries = 2
  Resolver = {r1, r2}
  ReceiptAmount = 2
  Funded = 1
  Time = {1, 2}
  Negatives <- MCNegatives
  Proofs <- MCProofs
  Disputes <- MCDisputes
  MaxRequests = 2
  Caller <- MCCallers
  WorkerOf <- MCWorkerOf
  Deliveries <- MCEvent
  LeaseMs = 2
  MaxAge = 1
  MaxTroubles = 3
SPECIFICATION Spec
SYMMETRY Symmetry
INVARIANTS
  CorrelationsJustified
  ReversalsRecorded
  ResolutionsSound
  InboxSound
  MemorySound
PROPERTIES
  SettledUnblocked
CHECK_DEADLOCK FALSE
