CONSTANTS
  b1 = b1
  b2 = b2
  ann = ann
  None = None
  Booking = {b1, b2}
  Nanny = {ann}
  NannyOf <- OneNanny
  Stars = {1, 5}
  Handler = {p1, p2}
  MaxActions = 2
SPECIFICATION Spec
CHECK_DEADLOCK FALSE
INVARIANT
  RatingIsBacked
