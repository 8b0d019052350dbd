CONSTANTS
  RevisitWindow = 1
  PageLimit = 2
  Profile = "ours"
  Names <- TwoNames
  Directories <- TwoDirectories
  Contents <- OneTitle
  Untitled <- NullTitle
  NoState = NoState
  IdBound = 1
  Edits = 1
  Deaths = 0

SPECIFICATION Spec

INVARIANT KeyNamesOneVisit
