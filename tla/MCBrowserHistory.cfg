CONSTANTS
  RevisitWindow = 1
  PageLimit = 1
  Profile = "ours"
  Names <- TwoNames
  Directories <- TwoDirectories
  Contents <- OneTitle
  Untitled <- NullTitle
  NoState = NoState
  IdBound = 2
  Edits = 1
  Deaths = 1

SPECIFICATION Spec

INVARIANTS
  TypeOK
  NoVisitSkipped
  CloneOnlyInPoll

PROPERTIES
  OnlyRevisions
  RevisionRecorded
