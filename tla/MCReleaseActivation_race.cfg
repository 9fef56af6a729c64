\* Two controllers race over two services: a crash or failed effect, a broken build, an edit.
CONSTANTS
  b1 = b1  b2 = b2  b3 = b3  v1 = v1  v2 = v2  c1 = c1  c2 = c2
  Builds = {b1, b2, b3}
  Broken = {b3}
  Versions = {v1, v2}
  Services <- TwoServices
  Controllers = {c1, c2}
  Absent = Absent
  NoSlot = NoSlot
  NoOne = NoOne
  MaxReleases = 2
  MaxFaults = 1
  MaxTampers = 1
SPECIFICATION Spec
SYMMETRY SafeSymmetry
INVARIANT HolderOwnsSlot
INVARIANT SessionInv
INVARIANT TargetAccounted
INVARIANT PendingProven
PROPERTY WriteAhead
PROPERTY ClearProven
PROPERTY Authorized
PROPERTY AdminWaits
PROPERTY ImplementsSlot
