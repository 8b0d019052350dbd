\* Every accepted file of the choices; a file may name no source at all.
SPECIFICATION Spec
CONSTANTS
  None = None
  TickIntervalMax = 3600
  OverflowHeadroom = 512
  Files <- MCFiles
  Spelling <- MCSpelling
  Transcripts <- MCTranscripts
INVARIANT SourcesApart
CHECK_DEADLOCK FALSE
