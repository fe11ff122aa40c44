CONSTANTS
  a1 = a1
  a2 = a2
  b1 = b1
  b2 = b2
  mum = mum
  dad = dad
  ann = ann
  None = None
  Booking = {a1, a2, b1, b2}
  ParentOf <- Parents
  NannyOf <- OneNanny
  Request = {r1}
  Handler = {p1, p2}
  Slot <- TwoSlots
  MaxTime = 0
SPECIFICATION CalendarSpec
SYMMETRY CalendarSymmetry
CHECK_DEADLOCK FALSE
INVARIANTS
  NoDoubleBooking
  NoDuplicateBooking
