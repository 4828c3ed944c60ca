SPECIFICATION OperationsSpec
CONSTANTS
  MULBASE = 1000
  MULOPLEN = 4
  HopUnit = 1024
  EstUnit = 2048
  MULMAGIC = 2097
  WORD = 4096
  Units = {0, 500, 999}
  DECPMAX = 3
  DECEMAX = 8
  DECEMAXD = 1
  BufferDigits = 3
  UnitDigits = 1
  INT32_MAX = 999
  PI <- MCPI
  ZeroThreshold <- MCZeroThreshold
  SmallArg <- MCSmallArg
  MAX_FACTORIAL = 12
  SquareRoot <- MCSquareRoot
  Exp <- MCExp
  Ln <- MCLn
  Log10 <- MCLog10
  Power <- MCPower
INVARIANTS IntegersExact UnitsExact SplitIsExact FloatsRight
CHECK_DEADLOCK FALSE
