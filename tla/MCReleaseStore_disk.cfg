SPECIFICATION FairSpec
CONSTANTS
  b1 = b1
  v1 = v1
  s1 = s1
  s2 = s2
  t1 = t1
  t2 = t2
  Builds = {b1}
  Versions = {v1}
  Services = {1}
  Absent = Absent
  NoSlot = NoSlot
  MaxReleases = 2
  Sessions = {s1, s2}
  TempNames = {t1, t2}
  NoOne = NoOne
  NoDir = NoDir
  Missing = Missing
  Torn = Torn
  MaxFaults = 3
INVARIANT VisibleComplete
INVARIANT BoundedResidue
PROPERTY ImplementsRegister
PROPERTY ResidueCollected
