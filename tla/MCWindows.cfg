\* Debounce, ceiling, tick and budget in discrete time; three events, so
\* that a debounce without a ceiling would postpone a sample past it.
SPECIFICATION Spec
CONSTANTS
  NoApp = NoApp
  Apps = {a1, a2}
  Notifications <- MCNotifications
  Debounce = 2
  Ceiling = 3
  Budget = 1
  TickInterval = 3
  Queue = 1
  Width = 4
  Posts = 3
  Inputs = 1
  Faults = 1
INVARIANTS TypeOK BurstTold WithinCeiling InputConserved
PROPERTIES LetGoWhenSettled Handled
