SPECIFICATION FairSpec
CONSTANTS
  p1 = p1
  p2 = p2
  c1 = c1
  c2 = c2
  c3 = c3
  c4 = c4
  get = get
  post = post
  Threshold = 2
  Cooldown = 2
  Lease = 3
  HttpTimeout = 1
  Skew = 1
  Window = 3
  SlotLimit = 1
  Attempts = 2
  QuotaLimit = 2
  Delays = {1}
  MaxTime = 4
  MaxFaults = 1
  Writes = {post}
  Procs = {p1}
  Calls = {c1, c2}
  Home <- MixedHome
  Family <- MixedFamily
  Impatient = {c1, c2}
INVARIANT VerdictSound
INVARIANT SlotsBalanced
INVARIANT OutageBounded
PROPERTY CooldownKept
PROPERTY CallsSettle
