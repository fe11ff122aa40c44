CONSTANTS
  mum = mum
  root = root
  Nobody = Nobody
  Account = {mum, root}
  AccountRole <- AccountRoles
  Tab = {t1}
  Req = {r1, r2}
  MaxPairs = 2
SPECIFICATION WebSpec
SYMMETRY RequestSymmetry
CHECK_DEADLOCK FALSE
INVARIANTS
  OnePersonPerBrowser
  StoredSessionLives
PROPERTY
  LiveSessionIsKept
