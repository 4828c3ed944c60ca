SPECIFICATION PartSpec
CONSTANTS
  MAX_PARENTHESES = 1
  PARENTHESES_PRIORITY_RAISE = 10
  NUM_MEMORY = 1
  Width = {2, 3}
  IVal <- MCIVal
  IZero = 0
  FVal = {0, 1, 2}
  FZero = 0
  MaskWidth <- MCMaskWidth
  GetSigned <- MCGetSigned
  ChangedWidth <- MCChangedWidth
  IopUnary <- MCIopUnary
  IopBinary <- MCIopBinary
  FopUnary <- MCFopUnary
  FopBinary <- MCFopBinary
  IntToFloat <- MCIntToFloat
  IntMin <- MCIntMin
  Pi = 2
  BestIntegers <- MCBestIntegers
  RandVals = {0}
  PasteIntegers <- MCPasteIntegers
  MinNum <- MCMinNum
  MaxNum = 7
  WordOf <- MCWordOf
  MaxPastes = 1
  ArgI = {1, 6}
  ArgF = {1}
  BitMasks = {1}
  Keys = {"peek", "eq", "add", "parl", "parr", "pm", "int_min", "sin", "sinh", "inv_sin", "inv_sinh",
          "pi", "rand", "mp", "mr", "ms"}
  Controls <- AllControls
VIEW LiveView
INVARIANTS ShownIsTop LabelsTrue
PROPERTIES KeyDoesWhatItSays TypedIsTaken PasteIsShown
