CONSTANTS
  Registrars = {p1, p2}
  Versions = {v1, v2}
  Files = {manifest, products, failures}
  Manifest = manifest
  None = None
  MaxFaults = 2
  MaxRecoveries = 1
SPECIFICATION FairSpec
INVARIANTS SucceededIsComplete OneCodeVersion
PROPERTY IntakeSettles
