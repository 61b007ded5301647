SPECIFICATION Spec
CONSTANTS
  p1 = p1
  p2 = p2
  onion = onion
  n1 = n1
  n2 = n2
  Products = {p1, p2}
  Names = {onion}
  Codes = {n1, n2}
  Deliveries <- MCDeliveries
  Exports <- MCExports
  Absent = Absent
  MaxEdits = 1
INVARIANT UncertainNeverApproved
