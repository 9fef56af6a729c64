\* Two calls compete for one helper slot over two names; crashes, failures, other writers.
CONSTANTS
  c1 = c1  c2 = c2  n1 = n1  n2 = n2
  Calls = {c1, c2}
  Names = {n1, n2}
  NoFile = NoFile
  Asked <- Conflicts
  Present = {n1}
  Slots = 1
  MaxFaults = 1
  MaxEdits = 1
SPECIFICATION FairSpec
CHECK_DEADLOCK FALSE
INVARIANT NeverTorn
PROPERTY OverwritesExpected
PROPERTY ImplementsVaultCalls
PROPERTY CallsReturn
PROPERTY StagesVanish
