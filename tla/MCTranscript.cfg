CONSTANTS
  Fields <- TestLines
  MaxRecords = 2
  MaxText = 2
  MaxScan = 2
  MaxLine = 2
  HeadBytes = 2
  Since = 5
  Mtimes <- TwoTimes
  Home <- HomeDirectory
  Repos <- TwoRepos
  NoCursor = NoCursor
  MaxBytes = 3
  Changes = 1
  Faults = 1

SPECIFICATION Spec

INVARIANTS
  ReadSoFar
  OffsetAtLine

PROPERTY CaughtUp
