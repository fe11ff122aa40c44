CONSTANTS
  b1 = b1
  mum = mum
  ann = ann
  None = None
  Booking = {b1}
  ParentOf <- ParentOfOne
  NannyOf <- NannyOfOne
  Request = {r1, r2}
  Handler = {p1, p2}
  Slot <- ApartSlots
  MaxTime = 4
SPECIFICATION Spec
SYMMETRY RequestSymmetry
CHECK_DEADLOCK FALSE
INVARIANTS
  AgreedCancelHolds
PROPERTIES
  EarlyCompletionOnlyByReschedule
  MovedOnlyByConsent
  ResolutionIsFinal
  ImplementsLifecycle
