CONSTANTS
  None = None
  Booking = {b1}
  Intent = {i1, i2}
  Handler = {p1, p2}
  Faults = {{}, {"async", "crash"}, {"async", "lost"}, {"decline", "lost", "crash"}}
  Card = {i1, i2}
  Customer = {c1, c2}
  Sitting = {v1}
  Asker = {p1, p2}
  MaxFailures = 1
  Missing = Missing
  Account = {a1, a2}
  Caller = {p1, p2}
  MaxChanges = 3
  MaxDrops = 1
  NoAccount = NoAccount
  Worker = {p1, p2}
  Visit = {i1, i2}
  Lookahead = 1
  Horizon = 4
  Off = Off
  Parts = {"charge", "cards", "reminders"}
SPECIFICATION BillingSpec
SYMMETRY PaymentSymmetry
CHECK_DEADLOCK FALSE
INVARIANTS
  RowIsBacked
  ChargedOnce
  RacesAreReconciled
  RemindedExactlyOnce
PROPERTIES
  ImplementsMoney
  LastCardIsKept
