CONSTANTS
  bronze = bronze
  silver = silver
  reconciled = reconciled
  gold = gold
  records = records
  evidence = evidence
  manifest = manifest
  Layers = {silver, reconciled, gold}
  Files = {records, evidence, manifest}
  Manifest = manifest
  Outputs <- MCOutputs
  Reads <- MCReads
  Sealed = {gold}
  Strict = {}
  Quarantining = {}
  Rechecks = {}
  Serial = TRUE
  MaxAttempts = 2
  MaxFaults = 1
SPECIFICATION Spec
INVARIANTS SealedIsWhole ReadersFindFiles
PROPERTY SealedIsFinal
CHECK_DEADLOCK FALSE
