\* One search that is cancelled at any moment.
SPECIFICATION FairSpec
CHECK_DEADLOCK FALSE
CONSTANTS
  Paths <- Tree
  Planted <- Kinds
  Editable = {}
  MaxEdits = 0
  Body <- Bodies
  Fit = 2
  LargeLine = 3
  Queries <- OneSearch
  Window = 2
  Chunk = 2
  MaxCalls = 1
  MaxFaults <- OneFault
  ListQueries <- NoListings
  EntryBytes <- Two
  CursorBytes <- CursorSize
  Room = 5
  ReadQueries <- OneRead
  ReadRoom = 8
  Batches <- NoBatches
  Files = {"f"}
  MaxItems = 3
  MaxBytes = 3
  MaxStops = 1
PROPERTY CancelledReturns
