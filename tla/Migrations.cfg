CONSTANTS
  None = None
  Blank = Blank
  old = old
  new = new
  edited = edited
  c1 = c1
  c2 = c2
  c3 = c3
  d2 = d2
  Runner = {p1, p2}
  Last = 3
  Checksum = {c1, c2, c3, d2}
  Fragile = {c2}
  Build = {old, new, edited}
  Files <- ThreeBuilds
SPECIFICATION FairSpec
INVARIANTS
  AppliedOnce
  RecordsAreTrue
  OnlyGenuineFailures
  FailuresArePending
PROPERTIES
  EveryRunEnds
  SchemaFits
