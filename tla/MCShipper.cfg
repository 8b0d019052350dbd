CONSTANTS
  MaxRows = 2
  MaxBytes = 5
  Headroom = 1
  DeadMaxRows = 2
  DeadMaxBytes = 3
  Sizes <- OneSize
  MarkerBytes = 1
  CursorKeys <- NoKeys
  CursorValues <- NoKeys
  NoCursor = NoCursor
  MaxBatch = 2
  MaxDrafts = 2
  SeqBound = 4
  MinBatch = 1
  BackoffStart = 1
  BackoffCeiling = 2
  ShipNowQueue = 2
  Statuses <- ServiceStatuses
  Lives = 1

SPECIFICATION FairSpec

INVARIANTS
  RunTypeOK
  NoOvertaking

PROPERTIES
  RequestHonoured
  BufferSpec
  OutboxSpec
  EveryRecordLeaves
  RequestTakenUp
