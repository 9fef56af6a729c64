\* Liveness: two controllers, one service, crashes and failures but no outside edits.
CONSTANTS
  b1 = b1  b2 = b2  b3 = b3  v1 = v1  v2 = v2  c1 = c1  c2 = c2
  Builds = {b1, b2}
  Broken = {b2}
  Versions = {v1}
  Services <- OneService
  Controllers = {c1, c2}
  Absent = Absent
  NoSlot = NoSlot
  NoOne = NoOne
  MaxReleases = 1
  MaxFaults = 2
  MaxTampers = 0
SPECIFICATION FairSpec
PROPERTY PreparedSettles
PROPERTY ChoiceCompletes
