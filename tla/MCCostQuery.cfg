SPECIFICATION Spec
CONSTANTS
  Second = 2
  Word = 1073741824
  Zones <- MCZones
  Firsts <- MCFirsts
  Windows <- MCWindows
  Texts <- MCTexts
  Begin <- Begins
  Tick <- MCTick
  Until <- MCUntil
  Nothing = Nothing
  Refused = Refused
  Illegal <- MCIllegal
  Garbled = "garbled"
  Lags <- MCLags
  Filters <- MCFilters
  Resolutions <- MCResolutions
INVARIANTS
  NamedIsLocal
  PastDaysAreLocal
  StepIsExact
  RightWhileDatesAgree
  BillsCountedOnce
  SumsCoverWindow
  WholeFilterOrNone
PROPERTY
  NeverEarlier
