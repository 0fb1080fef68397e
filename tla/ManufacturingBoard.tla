------------------------- MODULE ManufacturingBoard -------------------------
(***************************************************************************)
(* The manufacturing planning board of the Latex plant: per tank, the list *)
(* of the manufacturing orders planned on it.  One row per PlanningCard;   *)
(* every operation runs in one Serializable transaction, so each is one    *)
(* step.  Starting a manufacturing order consumes the matching card.       *)
(***************************************************************************)
EXTENDS CardOrder

CONSTANTS
  Cards,        \* ids of the PlanningCard rows that may come to exist
  Contents,     \* what a form can hold: (manufacturing order, material) pairs
  NoContent     \* content of a row that does not exist

ASSUME CardsFinite == IsFiniteSet(Cards)

VARIABLE card   \* PlanningCard: [Cards -> [tank, position, order]]

NoCard == [tank |-> NoTank, position |-> 0, order |-> NoContent]

CardRows == [tank: BoardTanks, position: Nat, order: Contents]

On(t) == {c \in Cards : card[c].tank = t}
Planned == {c \in Cards : card[c].tank # NoTank}

BoardTypeOK == card \in [Cards -> CardRows \cup {NoCard}]

BoardInit == card = [c \in Cards |-> NoCard]

-----------------------------------------------------------------------------
\* (last?.position ?? -1) + 1
NextPosition(t) ==
  IF On(t) = {} THEN 0
  ELSE (CHOOSE p \in {card[c].position : c \in On(t)} :
          \A c \in On(t) : card[c].position <= p) + 1

CreatePlanningCard(c, t, o) ==
  /\ c \notin Planned
  /\ card' = [card EXCEPT ![c] = [tank |-> t, position |-> NextPosition(t),
                                  order |-> o]]

UpdatePlanningCard(c, o) ==
  /\ c \in Planned
  /\ card' = [card EXCEPT ![c].order = o]

\* The card leaves its list and is spliced into the list of tank t at index p;
\* both lists are renumbered (the same list when the tank does not change).
MovePlanningCard(c, t, p) ==
  LET target == On(t) \ {c}
      source == On(card[c].tank) \ {c}
      index  == SpliceIndex(p, target)
  IN /\ c \in Planned
     /\ card' = [d \in Cards |->
          IF d = c THEN [card[c] EXCEPT !.tank = t, !.position = index]
          ELSE IF d \in target
               THEN [card[d] EXCEPT !.position = RankAround(card, target, d, index)]
          ELSE IF d \in source
               THEN [card[d] EXCEPT !.position = Rank(card, source, d)]
          ELSE card[d]]

\* The board without card c: deleted, and the cards below it moved up.
Without(c) ==
  [d \in Cards |->
     IF d = c THEN NoCard
     ELSE IF card[d].tank = card[c].tank
          THEN [card[d] EXCEPT !.position = ClosedGap(card, c, d)]
     ELSE card[d]]

DeletePlanningCard(c) ==
  /\ c \in Planned
  /\ card' = Without(c)

\* The planned card that a manufacturing start of order o on tank t uses up:
\* the first of the tank's list that holds this order.
Matching(t, o) == {c \in On(t) : card[c].order = o}
FirstMatching(t, o) ==
  CHOOSE c \in Matching(t, o) :
    \A d \in Matching(t, o) : card[c].position <= card[d].position

ConsumePlanningCard(t, o) ==
  card' = IF Matching(t, o) = {} THEN card ELSE Without(FirstMatching(t, o))

-----------------------------------------------------------------------------
\* What the planners do on the board.
PlanManufacturing ==
  \/ \E c \in Cards, t \in BoardTanks, o \in Contents : CreatePlanningCard(c, t, o)
  \/ \E c \in Cards, o \in Contents : UpdatePlanningCard(c, o)
  \/ \E c \in Cards, t \in BoardTanks, p \in 0 .. Cardinality(Cards) :
       MovePlanningCard(c, t, p)
  \/ \E c \in Cards : DeletePlanningCard(c)

BoardNext ==
  \/ PlanManufacturing
  \/ \E t \in BoardTanks, o \in Contents : ConsumePlanningCard(t, o)

BoardSpec == BoardInit /\ [][BoardNext]_card

-----------------------------------------------------------------------------
\* Every tank's list is numbered 0, 1, ..., n-1 without gap or repetition,
\* whatever mix of moves between lists, deletions and consumed cards happened:
\* the column has no uniqueness constraint in the database, the five operations
\* keep it (plant.service.ts:206-219, 297-322, 356-360, 1101-1121).
ListsInSequence == \A t \in BoardTanks : InSequence(card, On(t))

\* A step changes the relative order of at most one card with respect to the
\* others: moving, deleting or consuming one plan never reorders the rest
\* (plant.service.ts:297-322 and 356-360).
RestKeepsOrder ==
  [][\E c \in Cards : \A d, e \in Planned \ {c} :
       (d \in Planned' /\ e \in Planned' /\ card[d].tank = card[e].tank) =>
         card'[d].tank = card'[e].tank /\ SameOrder(card, card', d, e)]_card
=============================================================================
