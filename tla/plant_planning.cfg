CONSTANTS
  Cards = {c1, c2, c3, c4}
  PackCards = {q1, q2, q3, q4}
  BoardTanks = {tk1, tk2, tk3, tk4}
  Contents = {o1, o2}
  NoTank = NoTank
  NoContent = NoContent
  MaxPlanned = 3
SPECIFICATION BoardsSpec
SYMMETRY TankSymmetry
INVARIANTS ListsInSequence QueueInSequence
PROPERTIES RestKeepsOrder QueueKeepsOrder
