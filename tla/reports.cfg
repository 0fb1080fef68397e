CONSTANTS
  Timeout = 3
  SyncEvery = 4
  TickEvery = 2
  MaxAge = 6
  one = one
  other = other
  Nothing = Nothing
  Written = Written
SPECIFICATION ReportsSpec
SYMMETRY ReportsSymmetry
CHECK_DEADLOCK FALSE
INVARIANTS ShownAccurate DaysHold TargetsHold PagesHold
PROPERTY NothingIsTakenBack
