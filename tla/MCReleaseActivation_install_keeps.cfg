\* What a failed agent installation leaves behind.
CONSTANTS
  b1 = b1  b2 = b2  b3 = b3  v1 = v1  v2 = v2  c1 = c1  c2 = c2
  Builds = {b1, b2}
  Broken = {}
  Versions = {v1, v2}
  Services <- OneService
  Controllers = {c1, c2}
  Absent = Absent
  NoSlot = NoSlot
  NoOne = NoOne
  MaxReleases = 1
  MaxFaults = 1
  MaxTampers = 0
SPECIFICATION Spec
SYMMETRY Interchangeable
PROPERTY FailedInstallKeepsJobs
