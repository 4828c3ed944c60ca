SPECIFICATION Spec
CONSTANTS
  MAX_PARENTHESES = 2
  PARENTHESES_PRIORITY_RAISE = 10
  NUM_MEMORY = 1
  Width = {8, 16}
  IVal = {0}
  IZero = 0
  FVal = {0}
  FZero = 0
  MaskWidth <- MCMaskWidth
  GetSigned <- MCGetSigned
  ChangedWidth <- MCChangedWidth
  IopUnary <- MCIopUnary
  IopBinary <- MCIopBinary
  FopUnary <- MCFopUnary
  FopBinary <- MCFopBinary
  IntToFloat <- MCIntToFloat
  IntMin <- MCIntMin
  Pi = 0
  BestIntegers <- MCBestIntegers
  ArgI = {0}
  ArgF = {0}
  RandVals = {0}
  BitMasks = {0}
  Keys = {"peek", "eq", "parl", "parr", "ms", "mr", "mp", "pi", "rand", "int_min", "add", "mul", "pow", "and", "pm"}
VIEW LiveView
INVARIANTS TypeOK NoError StackShape OperatorOrder
