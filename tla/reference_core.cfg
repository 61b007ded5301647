SPECIFICATION Spec
CONSTANTS
  c1 = c1
  c2 = c2
  v1 = v1
  v2 = v2
  b1 = b1
  january = january
  february = february
  Calls = {c1, c2}
  Validators = {v1, v2}
  Bronzes = {b1}
  Exports = {january, february}
  None = None
  MaxCrashes = 2
INVARIANTS ManifestIsTrue BronzeReadsWhatItNames
PROPERTY RegistrationIsFinal
SYMMETRY Symmetry
