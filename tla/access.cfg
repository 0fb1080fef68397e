CONSTANTS
  c1 = c1
  c2 = c2
  c3 = c3
  Attempts <- MCAttempts
  Limit = 2
  PrivilegedLimit = 3
  Window = 2
  MaxCrashes = 1
  owner = owner
  admin = admin
  s1 = s1
  north = north
  south = south
  u1 = u1
  u2 = u2
  Nobody = Nobody
SPECIFICATION AccessSpec
SYMMETRY AccessSymmetry
CHECK_DEADLOCK FALSE
INVARIANTS FullCounterLocks AccountsHold SavedAsShown PagesAreServed WorkerHolds
PROPERTIES UntouchedKept AnswersEndTheirOwnSession
