--------------------------- MODULE PackagingBoard ---------------------------
(***************************************************************************)
(* The packaging planning board of the Latex plant: at most four tanks in  *)
(* one sequence for the Devree filling line.  One row per                  *)
(* PackagingPlanningCard; filter, dispenser and notes are payload and left *)
(* out.  The board reads the state of the tanks, given here as a function  *)
(* "state", when a card is created or pointed at another tank.             *)
(***************************************************************************)
EXTENDS CardOrder

CONSTANTS
  PackCards,    \* ids of the PackagingPlanningCard rows that may come to exist
  MaxPlanned    \* places of the board: 4 in the code

ASSUME PackCardsFinite == IsFiniteSet(PackCards)
ASSUME MaxPlannedNat == MaxPlanned \in Nat

VARIABLE packCard   \* PackagingPlanningCard: [PackCards -> [tank, position]]

NoPackCard == [tank |-> NoTank, position |-> 0]

PackBoardTypeOK ==
  packCard \in [PackCards -> [tank: BoardTanks, position: Nat] \cup {NoPackCard}]

Queue == {c \in PackCards : packCard[c].tank # NoTank}
CardsOf(t) == {c \in Queue : packCard[c].tank = t}

PackBoardInit == packCard = [c \in PackCards |-> NoPackCard]

-----------------------------------------------------------------------------
\* assertPackagingPlanningTankState
Plannable(s) == s \notin {"ENVASANDO", "VACIO", "FUERA_DE_SERVICIO"}

\* Mutant: the limit is compared after counting one card too few.
CreateBeyondLimit(c, t, state) ==
  /\ c \notin Queue
  /\ Plannable(state[t])
  /\ CardsOf(t) = {}
  /\ Cardinality(Queue) <= MaxPlanned
  /\ packCard' = [packCard EXCEPT ![c] = [tank |-> t,
                                          position |-> Cardinality(Queue)]]

CreatePackagingPlanningCard(c, t, state) ==
  /\ c \notin Queue
  /\ Plannable(state[t])
  /\ CardsOf(t) = {}
  /\ Cardinality(Queue) < MaxPlanned
  /\ packCard' = [packCard EXCEPT ![c] = [tank |-> t,
                                          position |-> Cardinality(Queue)]]

\* The edit form may point the card at another tank.
UpdatePackagingPlanningCard(c, t, state) ==
  /\ c \in Queue
  /\ Plannable(state[t])
  /\ CardsOf(t) \ {c} = {}
  /\ packCard' = [packCard EXCEPT ![c].tank = t]

MovePackagingPlanningCard(c, p) ==
  LET others == Queue \ {c}
      index  == SpliceIndex(p, others)
  IN /\ c \in Queue
     /\ packCard' = [d \in PackCards |->
          IF d = c THEN [packCard[d] EXCEPT !.position = index]
          ELSE IF d \in others
               THEN [packCard[d] EXCEPT !.position = RankAround(packCard, others, d, index)]
          ELSE packCard[d]]

QueueWithout(c) ==
  [d \in PackCards |->
     IF d = c THEN NoPackCard
     ELSE IF d \in Queue
          THEN [packCard[d] EXCEPT !.position = ClosedGap(packCard, c, d)]
     ELSE packCard[d]]

DeletePackagingPlanningCard(c) ==
  /\ c \in Queue
  /\ packCard' = QueueWithout(c)

\* Mutant: the plan of a started tank stays.
StayPlanned(t) == UNCHANGED packCard

\* startPackaging removes the plan of the tank it starts.
ConsumePackagingPlanningCard(t) ==
  packCard' = IF CardsOf(t) = {} THEN packCard
              ELSE QueueWithout(CHOOSE c \in CardsOf(t) : TRUE)

-----------------------------------------------------------------------------
\* What the planners do, the tanks being in the states "state".
PlanPackaging(state) ==
  \/ \E c \in PackCards, t \in BoardTanks : CreatePackagingPlanningCard(c, t, state)
  \/ \E c \in PackCards, t \in BoardTanks : UpdatePackagingPlanningCard(c, t, state)
  \/ \E c \in PackCards, p \in 0 .. MaxPlanned - 1 : MovePackagingPlanningCard(c, p)
  \/ \E c \in PackCards : DeletePackagingPlanningCard(c)

\* On its own the board meets tanks in any state; an operation looks at one
\* tank only, which can be planned or not.
PackBoardNext ==
  \/ \E s \in {"VACIO", "APROBADO"} : PlanPackaging([t \in BoardTanks |-> s])
  \/ \E t \in BoardTanks : ConsumePackagingPlanningCard(t)

PackBoardSpec == PackBoardInit /\ [][PackBoardNext]_packCard

-----------------------------------------------------------------------------
\* The queue is numbered 0, 1, ..., n-1 with n at most MaxPlanned and holds a
\* tank at most once: what the deferred unique constraints on (plant, position)
\* and (plant, tank) and the check 0..3 of the database would otherwise turn
\* into a failed transaction (plant.service.ts:467-488, 535-547, 586-596).
QueueInSequence ==
  /\ InSequence(packCard, Queue)
  /\ Cardinality(Queue) <= MaxPlanned
  /\ \A c, d \in Queue : packCard[c].tank = packCard[d].tank => c = d

\* A step moves at most one card relative to the others
\* (plant.service.ts:586-596, 617-627, 1549-1560).
QueueKeepsOrder ==
  [][\E c \in PackCards : \A d, e \in Queue \ {c} :
       (d \in Queue' /\ e \in Queue') => SameOrder(packCard, packCard', d, e)]_packCard
=============================================================================
