CONSTANTS
  bronze = bronze
  silver = silver
  reconciled = reconciled
  gold = gold
  records = records
  evidence = evidence
  manifest = manifest
  Layers = {bronze, silver}
  Files = {records, evidence, manifest}
  Manifest = manifest
  Outputs <- MCOutputs
  Reads <- MCReads
  Sealed = {}
  Strict = {bronze}
  Quarantining = {bronze}
  Rechecks = {silver}
  Serial = TRUE
  MaxAttempts = 3
  MaxFaults = 1
SPECIFICATION Spec
INVARIANTS OnlyFailuresMix NoOlderInput
CHECK_DEADLOCK FALSE
