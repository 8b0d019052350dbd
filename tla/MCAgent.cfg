\* Three binaries, both agents, a backoff with one step below its ceiling,
\* and a period of two with a clock that may fall one behind.
SPECIFICATION Spec
CONSTANTS
  BackoffStart = 1
  BackoffCeiling = 2
  Every = 2
  Versions = 3
  SetBacks = 1
INVARIANT OncePerPeriod
PROPERTIES BrewStaysGone UpgradeTaken
