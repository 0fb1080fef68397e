CONSTANTS
  fab = fab
  lab = lab
  env = env
  adm = adm
  own = own
  tk1 = tk1
  tk2 = tk2
  tk3 = tk3
  Users = {fab, lab, env}
  Role <- MCRole
  SystemOwners <- MCSystemOwners
  CanTransfer <- MCCanTransfer
  FinalOperation <- MCFinalOperation
  Tanks = {tk1}
  BoardTanks = {}
  Lots = {l1, l2}
  Contents = {o1, o2}
  Cards = {}
  PackCards = {}
  NoTank = NoTank
  NoLot = NoLot
  NoContent = NoContent
  MaxPlanned = 4
  MaxVersion = 14
SPECIFICATION Spec
SYMMETRY RecordSymmetry
INVARIANTS TypeOK StateMatchesRecords AuditReplays NextSectorNotified FinishedLotsAccounted
PROPERTIES VisibleChangeBumpsVersion FinishedLotsFrozen
CHECK_DEADLOCK FALSE
