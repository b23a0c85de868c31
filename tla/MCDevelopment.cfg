CONSTANTS
  None = None
  Role = {"payer", "payee"}
  MaxChoices = 3
  MaxClicks = 2
  MaxFaults = 2
  Operator = {"launcher", "operator"}
  SPECS <- MCSpecs
  Foreign <- MCForeign
  MaxChanges = 2
  MaxRuns = 2
  Request <- MCRequest
  Sent <- MCSent
  Terms <- MCTerms
  MaxTime = 3
SPECIFICATION Spec
INVARIANTS
  FrontendSound
  ProvisioningSound
  PrototypeSound
CHECK_DEADLOCK FALSE
