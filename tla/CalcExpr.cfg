SPECIFICATION KeysSpec
CONSTANTS
  MaxKeys = 9
  MAX_PARENTHESES = 2
  PARENTHESES_PRIORITY_RAISE = 10
  NUM_MEMORY = 1
  Width = {8}
  IVal = {0}
  IZero = 0
  FVal <- MCFVal
  FZero <- MCFZero
  MaskWidth <- MCMaskWidth
  GetSigned <- MCGetSigned
  ChangedWidth <- MCChangedWidth
  IopUnary <- MCIopUnary
  IopBinary <- MCIopBinary
  FopUnary <- MCFopUnary
  FopBinary <- MCFopBinary
  IntToFloat <- MCIntToFloat
  IntMin <- MCIntMin
  Pi <- MCPi
  BestIntegers = {}
  ArgI = {}
  ArgF <- MCArgF
  RandVals = {}
  BitMasks = {}
  Keys = {"eq", "parl", "parr", "mr", "mp", "add", "mul", "pow", "pm"}
VIEW LiveView
INVARIANTS RepeatKept
PROPERTY ImplementsExpression
CHECK_DEADLOCK FALSE
