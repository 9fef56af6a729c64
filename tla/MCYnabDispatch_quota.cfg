SPECIFICATION Spec
CONSTANTS
  p1 = p1
  p2 = p2
  c1 = c1
  c2 = c2
  c3 = c3
  c4 = c4
  get = get
  post = post
  Threshold = 2
  Cooldown = 1
  Lease = 3
  HttpTimeout = 1
  Skew = 1
  Window = 3
  SlotLimit = 2
  Attempts = 2
  QuotaLimit = 2
  Delays = {}
  MaxTime = 5
  MaxFaults = 1
  Writes = {}
  Procs = {p1, p2}
  Calls = {c1, c2, c3}
  Home <- PairHome
  Family <- ReadsFamily
  Impatient = {}
SYMMETRY SamePair
INVARIANT RollingQuota
INVARIANT SoleProbe
PROPERTY StaleIgnored
