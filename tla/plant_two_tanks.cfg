CONSTANTS
  fab = fab
  lab = lab
  env = env
  adm = adm
  own = own
  tk1 = tk1
  tk2 = tk2
  tk3 = tk3
  Users = {adm}
  Role <- MCRole
  SystemOwners <- MCSystemOwners
  CanTransfer <- MCCanTransfer
  FinalOperation <- MCFinalOperation
  Tanks = {tk1, tk2}
  BoardTanks = {tk1, tk2}
  Lots = {l1, l2}
  Contents = {o1}
  Cards = {c1}
  PackCards = {q1, q2}
  NoTank = NoTank
  NoLot = NoLot
  NoContent = NoContent
  MaxPlanned = 4
  MaxVersion = 8
SPECIFICATION Spec
SYMMETRY TanksSymmetry
INVARIANT NoPlanWhileFilling
PROPERTY LotsLiveOnce
CHECK_DEADLOCK FALSE
