SPECIFICATION Spec
CONSTANTS
  p1 = p1
  p2 = p2
  c1 = c1
  c2 = c2
  c3 = c3
  c4 = c4
  get = get
  post = post
  Threshold = 1
  Cooldown = 1
  Lease = 2
  HttpTimeout = 1
  Skew = 0
  Window = 1
  SlotLimit = 4
  Attempts = 1
  QuotaLimit = 9
  Delays = {1}
  MaxTime = 4
  MaxFaults = 0
  Writes = {}
  Procs = {p1}
  Calls = {c1, c2, c3, c4}
  Home <- ReadsHome
  Family <- ReadsFamily
  Impatient = {}
SYMMETRY AnyCall
INVARIANT SoleProbe
