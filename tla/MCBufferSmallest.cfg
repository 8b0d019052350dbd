SPECIFICATION Spec
CONSTANTS
  MaxRows = 1
  MaxBytes = 5
  Headroom = 2
  DeadMaxRows = 2
  DeadMaxBytes = 3
  Sizes <- RowSizes
  MarkerBytes = 2
  CursorKeys = {k1}
  CursorValues = {v1}
  NoCursor = NoCursor
  MaxBatch = 3
  MaxDrafts = 2
  SeqBound = 7
INVARIANT NoSilentLoss
