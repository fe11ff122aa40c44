CONSTANTS
  None = None
  Booking = {b1}
  Intent = {i1, i2}
  Handler = {p1}
  Faults = {{"lost"}}
SPECIFICATION Spec
SYMMETRY PaymentSymmetry
CHECK_DEADLOCK FALSE
INVARIANT
  MismatchesAreListed
