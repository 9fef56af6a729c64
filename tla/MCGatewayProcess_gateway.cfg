\* Two documents that compete for one slot and the capacity, and one other call.
CONSTANTS
  d1 = d1  d2 = d2  r1 = r1  Nobody = Nobody  Main = Main
  Documents = {d1, d2}
  Checks = {r1}
  NoDocument = Nobody
  Absent = Absent
  Writers = {d1, d2, r1, Main}
  Sizes = {1, 2}
  Capacity = 2
  MaxSinkFaults = 1
  Given <- Starts
SPECIFICATION FairSpec
CHECK_DEADLOCK FALSE
INVARIANT TakenStaysLive
INVARIANT LossTold
INVARIANT ExitTells
PROPERTY ImplementsLedger
PROPERTY PayloadsReleased
PROPERTY StopsWhenAsked
