SPECIFICATION WindowsSpec
CONSTANTS
  WordBits = 4
  HISTORY_MAX_ITEMS = 2
  Width = {2, 4}
  IVal = {0, 1, 3, 15}
  IZero = 0
  FVal = {0, 1, 2}
  FZero = 0
  MaskWidth <- MCMaskWidth
  GetSigned <- MCGetSigned
  U64 <- MCU64
  I64 <- MCI64
  NumberOf <- MCNumberOf
  FontWidth = 2
  Margin = 3
  MaxBits = 1
VIEW LiveView
PROPERTIES RowGivesWhatItShows ImplementsRecent ClicksAreHonest ConversionIsHonest
