SPECIFICATION LoopsSpec
CONSTANTS
  FASTBASE = 10
  FASTLAZY = 2
  LONG_MAX = 198
  Chunks = {0, 1, 9}
  MostChunks = 4
  LeftNumbers <- MCNumbers
  RightNumbers <- MCNumbers
INVARIANT NoWrap
PROPERTIES LoopsExact IsLongDivision LoopsEnd
CHECK_DEADLOCK FALSE
