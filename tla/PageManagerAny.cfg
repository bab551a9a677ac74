CONSTANTS
  Pages <- AnyPage
  NoPage = 0
  HistorySize = 2
  Start = 1
  Links <- AnyLink
  Backs <- AnyPage
  CallsWhileAnimating = TRUE
  CreateMayFail = TRUE
  Freezing = TRUE
SPECIFICATION Spec
INVARIANTS
  ScreenPointersValid
  ShownScreensExist
  CurrentIsShown
