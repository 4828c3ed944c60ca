SPECIFICATION FilesSpec
CONSTANTS
  Order <- MCOrder
  Valid <- MCValid
  Default <- MCDefault
  Entered <- MCEntered
  Dialog <- MCDialog
  Dialogs = {"general", "float", "int"}
  MAX_CATEGORIES = 2
  MAX_VALUES_PER_CATEGORY = 2
  MaxLines = 7
INVARIANTS SettingsHold WithinLimits MenuIsFile
PROPERTIES RestartKeeps StopKeepsPrefix SaveEnds
CHECK_DEADLOCK FALSE
