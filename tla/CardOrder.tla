----------------------------- MODULE CardOrder -----------------------------
(***************************************************************************)
(* Card positions of the two planning boards.  A board is a table of cards *)
(* kept as a function from card ids to rows with a field "position"; a     *)
(* lane is the set of the cards that are sorted together (the cards of one *)
(* tank on the manufacturing board, all the cards on the packaging board). *)
(* The operators are the list computations of plant.service.ts: the sorted *)
(* read, the splice and renumbering of a move, the shift after a delete.   *)
(***************************************************************************)
EXTENDS Integers, FiniteSets

CONSTANTS
  BoardTanks,   \* the active tanks (equipmentType TANK) of plant LATEX
  NoTank        \* tank of a row that does not exist

ASSUME NoTankIsNoTank == NoTank \notin BoardTanks

\* Mutant of Rank: the lane is read in descending order.
RankDescending(row, lane, d) ==
  Cardinality({e \in lane : row[e].position > row[d].position})

\* Index of card d in the read of the lane sorted by position: the number of
\* cards that come before it.
Rank(row, lane, d) ==
  Cardinality({e \in lane : row[e].position < row[d].position})

\* Mutant of RankAround: the card at the insertion index keeps its place too.
RankAroundOffByOne(row, lane, d, p) ==
  IF Rank(row, lane, d) <= p THEN Rank(row, lane, d) ELSE Rank(row, lane, d) + 1

\* cards.splice(p, 0, moved) followed by the write of every index: the position
\* of card d of the lane when another card is inserted at index p.
RankAround(row, lane, d, p) ==
  IF Rank(row, lane, d) < p THEN Rank(row, lane, d) ELSE Rank(row, lane, d) + 1

\* Math.min(position, cards.length): where the moved card lands.
SpliceIndex(p, lane) == IF p < Cardinality(lane) THEN p ELSE Cardinality(lane)

\* Mutant of ClosedGap: the shift forgets the condition on the position.
ClosedGapEverywhere(row, gone, d) == row[d].position - 1

\* updateMany(position > gone: decrement 1) after the card "gone" was deleted.
ClosedGap(row, gone, d) ==
  IF row[d].position > row[gone].position THEN row[d].position - 1
                                          ELSE row[d].position

\* The positions of the lane are 0, 1, ..., n-1, each used once.
InSequence(row, lane) ==
  /\ \A d, e \in lane : row[d].position = row[e].position => d = e
  /\ {row[d].position : d \in lane} = 0 .. (Cardinality(lane) - 1)

\* Cards d and e are in the same order in both tables.
SameOrder(row, next, d, e) ==
  (row[d].position < row[e].position) <=> (next[d].position < next[e].position)
=============================================================================
