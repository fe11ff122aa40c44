CONSTANTS
  None = None
  Ended = Ended
  User = {u1}
  Session = {s1, s2}
  Link = {l1, l2}
  Handler = {p1, p2}
  MaxPasswords = 3
  MaxActions = 2
SPECIFICATION Spec
SYMMETRY AccountSymmetry
CHECK_DEADLOCK FALSE
INVARIANTS
  LinkWorksOnce
  SuspensionsAreLifted
PROPERTIES
  AccountsRest
  AccessEnds
