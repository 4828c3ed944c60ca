SPECIFICATION DisplaySpec
CONSTANTS
  DISP_STACK_SIZE = 14
  EXP_DIGITS = 3
  Configs <- AllConfigs
  IntKeys = {0, 1, 2, 3, 4, 5, 7, 8, 9, 15}
  FloatKeys = {0, 1, 9}
  Words <- EdgeWords
  FloatTexts <- SomeTexts
INVARIANTS NulTerminated NumberIsShown DigitTaken PrintedRight
PROPERTIES
  ImplementsEntry
VIEW LiveView
CHECK_DEADLOCK FALSE
