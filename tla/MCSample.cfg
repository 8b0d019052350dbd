SPECIFICATION Spec
CONSTANTS
  None = None
  Apps = {"dia", "term", "lock", "tool"}
  BundleOf <- MCBundles
  Late = {"lock"}
  LockScreen = "Lock"
  Dia = "Dia"
  Agterm = "Agterm"
  Scenes <- MCScenes
  Trees <- MCTrees
  Tables <- MCTables
  Tabs <- MCTabs
  RuleSets <- MCRuleSets
INVARIANTS TitlesDropped NoLockScreen VisibleAsSeen PaneOnScreen
