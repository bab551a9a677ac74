CONSTANTS
  Pages <- AppPages
  NoPage = "none"
  HistorySize = 10
  Start = "boot"
  Links <- NoLinks
  Backs <- BackPages
  CallsWhileAnimating = FALSE
  CreateMayFail = TRUE
  Freezing = FALSE
  AllocMayFail = TRUE
  Touches <- Positions
  RinseTicks = 2
  BootStages = 4
  MaxParams = 8
  MaxSteps = 2
  NoNumber = NoNumber
  IntMax <- MCIntMax
  LongMax <- MCLongMax
  RowFaults <- MCRowFaults
  MaxRecipes = 3
  Tables <- MCTables
  Users = 2
  Swipe = 2
  Snap = 1
  LostImages <- MCLostImages
  Options <- MCOptions
  Default <- MCDefault
SPECIFICATION AppFairSpec
CHECK_DEADLOCK FALSE
INVARIANTS
  LockMatchesAnimation
  WayBack
  ResourcesOwned
  SettingsTruthful
  CarouselTruthful
  RunningTruthful
PROPERTIES
  WaterAfterFullRinse
  SnapFaithful
  HomeKeepsRecipe
  TransitionsComplete
  TimersFinish
