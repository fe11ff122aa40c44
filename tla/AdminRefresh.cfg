CONSTANTS
  mum = mum
  root = root
  Nobody = Nobody
  Account = {mum, root}
  AccountRole <- AccountRoles
  Tab = {t1}
  Req = {r1}
  MaxPairs = 2
SPECIFICATION WebSpec
CHECK_DEADLOCK FALSE
PROPERTY
  RotatedSessionIsStored
