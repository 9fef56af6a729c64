\* One search of a vault with an empty note, undisturbed.
SPECIFICATION Spec
CHECK_DEADLOCK FALSE
CONSTANTS
  Paths <- Tree
  Planted <- Kinds
  Editable = {}
  MaxEdits = 0
  Body <- WithEmpty
  Fit = 2
  LargeLine = 3
  Queries <- OneSearch
  Window = 2
  Chunk = 2
  MaxCalls = 1
  MaxFaults <- NoFault
  ListQueries <- NoListings
  EntryBytes <- Two
  CursorBytes <- CursorSize
  Room = 5
  ReadQueries <- OneRead
  ReadRoom = 8
  Batches <- NoBatches
  Files = {"f"}
  MaxItems = 3
  MaxBytes = 3
  MaxStops = 1
INVARIANT LimitMeansBudget
