CONSTANTS
  fab = fab
  lab = lab
  env = env
  adm = adm
  own = own
  tk1 = tk1
  tk2 = tk2
  tk3 = tk3
  Users = {adm, own}
  Role <- MCRole
  SystemOwners <- MCSystemOwners
  CanTransfer <- MCCanTransfer
  FinalOperation <- MCFinalOperation
  Tanks = {tk1}
  BoardTanks = {}
  Lots = {l1}
  Contents = {o1, o2}
  Cards = {}
  PackCards = {}
  NoTank = NoTank
  NoLot = NoLot
  NoContent = NoContent
  Unread = Unread
  ReadOrder <- MCReadOrder
  MaxPlanned = 4
  MaxVersion = 3
SPECIFICATION ScreensSpec
SYMMETRY RecordSymmetry
INVARIANTS ScreensFaithful
PROPERTIES DecidedOnThePresent
