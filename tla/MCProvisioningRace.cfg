CONSTANTS
  Operator = {"launcher", "operator"}
  SPECS <- MCSpecs
  Foreign <- MCForeign
  MaxChanges = 0
  MaxRuns = 1
SPECIFICATION ProvisioningSpec
INVARIANTS
  RacersAgree
CHECK_DEADLOCK FALSE
