SPECIFICATION DecimalSpec
CONSTANTS
  DECPMAX = 2
  DECEMAX = 3
  DECEMAXD = 1
  BufferDigits = 2
  UnitDigits = 1
  INT32_MAX = 25
  PlaceDigits = 3
  IntHalf = 2097152
  IntDigits = 7
  IntLeast = 1999997
  IntMost = 999999
  Operations <- MCOperations
  Rounds <- MCRounds
  Coefficients <- MCCoefficients
  Coefficients2 <- MCCoefficients2
  Divisors <- MCDivisors
  Factors <- MCFactors
  LongCoefficients <- MCLongCoefficients
  LongExponents <- MCLongExponents
  TextDigits <- MCTextDigits
  MaxTextLength = 4
INVARIANTS RoundedRight OperationsExact LibrariesAgree
CHECK_DEADLOCK FALSE
