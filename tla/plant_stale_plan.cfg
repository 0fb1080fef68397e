CONSTANTS
  fab = fab
  lab = lab
  env = env
  adm = adm
  own = own
  tk1 = tk1
  tk2 = tk2
  tk3 = tk3
  Users = {adm}
  Role <- MCRole
  SystemOwners <- MCSystemOwners
  CanTransfer <- MCCanTransfer
  FinalOperation <- MCFinalOperation
  Tanks = {tk1}
  BoardTanks = {tk1}
  Lots = {l1}
  Contents = {o1}
  Cards = {c1}
  PackCards = {q1}
  NoTank = NoTank
  NoLot = NoLot
  NoContent = NoContent
  MaxPlanned = 4
  MaxVersion = 7
SPECIFICATION Spec
SYMMETRY RecordSymmetry
INVARIANT NoPlanOfEmptyTank
CHECK_DEADLOCK FALSE
