CONSTANTS
  b1 = b1
  b2 = b2
  ann = ann
  c1 = c1
  None = None
  Booking = {b1, b2}
  Nanny = {ann}
  NannyOf <- OneNanny
  Stars = {1, 5}
  Handler = {p1, p2}
  MaxActions = 2
  Conversation = {c1, c2}
  Sender = {p1, p2}
  MaxTexts = 2
  Nobody = None
  Step = {docs, references, interview}
  Officer = {p1, p2}
  MaxTrail = 5
SPECIFICATION ModerationSpec
SYMMETRY ReviewSymmetry
CHECK_DEADLOCK FALSE
INVARIANTS
  ReviewedAfterService
  AuditMatches
  RatingCountsReviews
  NoDeadlock
  SentTwiceOnlyIfTold
PROPERTIES
  ClearedOnlyIfStored
  ImplementsVerification
