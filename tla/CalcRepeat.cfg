SPECIFICATION NumbersSpec
CONSTANTS
  WordBits = 4
  MAX_PARENTHESES = 0
  PARENTHESES_PRIORITY_RAISE = 10
  NUM_MEMORY = 1
  Width = {2, 4}
  IVal <- MCIVal
  IZero = 0
  FVal <- MCFVal
  FZero = 0
  MaskWidth <- MCMaskWidth
  GetSigned <- MCGetSigned
  ChangedWidth <- MCChangedWidth
  IopUnary <- MCIopUnary
  IopBinary <- MCIopBinary
  FopUnary <- MCFopUnary
  FopBinary <- MCFopBinary
  IntToFloat <- MCIntToFloat
  IntMin <- MCIntMin
  Pi = 0
  BestIntegers <- MCBestIntegers
  ArgI = {1, 3, 4, 7}
  ArgF = {1}
  RandVals = {}
  BitMasks = {2}
  Keys = {"eq", "add", "div"}
VIEW LiveView
INVARIANT RepeatOperandMasked
