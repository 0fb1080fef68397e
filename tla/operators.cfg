CONSTANTS
  x1 = x1
  x2 = x2
  x3 = x3
  x4 = x4
  t1 = t1
  t2 = t2
  t3 = t3
  o1 = o1
  o2 = o2
  l1 = l1
  fab = fab
  lab = lab
  env = env
  NoCardId = NoCardId
  NoTank = NoTank
  NoContent = NoContent
  NoLot = NoLot
  Dialogs = {t1, t2, t3}
  Requests <- MCRequests
  NotOpened = NotOpened
  NoDialog = NoDialog
  NoRequest = NoRequest
SPECIFICATION OperatorsSpec
SYMMETRY OperatorsSymmetry
CHECK_DEADLOCK FALSE
INVARIANTS OneWinner OfferedIsAccepted
PROPERTIES ImplementsRegister MovesLandAsMeant
