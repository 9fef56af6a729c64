\* A chain of greps, of listings, or a batch, with one change of the vault or one cancellation.
\* The system stops once the chain is complete or its calls are used up.
SPECIFICATION FairSpec
CHECK_DEADLOCK FALSE
CONSTANTS
  Paths <- Tree
  Planted <- Kinds
  Editable <- Shaken
  MaxEdits = 2
  Body <- Bodies
  Fit = 2
  LargeLine = 3
  Queries <- Searches
  Window = 2
  Chunk = 2
  MaxCalls = 3
  MaxFaults <- TwoForLists
  ListQueries <- Listings
  EntryBytes <- Two
  CursorBytes <- CursorSize
  Room = 5
  ReadQueries <- Reads
  ReadRoom = 8
  Batches <- SomeBatches
  Files = {"f"}
  MaxItems = 3
  MaxBytes = 3
  MaxStops = 1
INVARIANT PageIsSequential
INVARIANT AllReturned
INVARIANT WholeAnswer
INVARIANT BatchTold
PROPERTY ImplementsPages
PROPERTY CallsReturn
