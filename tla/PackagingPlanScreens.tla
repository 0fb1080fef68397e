------------------------ MODULE PackagingPlanScreens ------------------------
(***************************************************************************)
(* A planner in front of the packaging board (PackagingPlanningBoard.tsx). *)
(* The board is one queue shown in two columns, one per dispenser: arrows, *)
(* drags and the button to the other column send a place of the queue      *)
(* together with a column.  The dialog offers the tanks that the board it  *)
(* shows allows, and the service decides on its own rows.  Other planners  *)
(* and the operators change both while the planner looks.                  *)
(***************************************************************************)
EXTENDS PackagingBoard

CONSTANTS
  NoCardId,   \* the dialog creates a card, or no request
  UsedStates  \* states of the tanks of this run

Columns == {"A", "B"}

\* "APROBADO" stands for every state a tank can be planned in.
PlanAssumption ==
  UsedStates \subseteq {"VACIO", "APROBADO", "ENVASANDO"} /\ NoCardId \notin PackCards

VARIABLES
  dispenser,   \* PackagingPlanningCard.dispenser
  tankState,   \* Tank.state of the tanks of the board
  shown,       \* the board of the last poll
  move,        \* request of a move, with the neighbour it was meant for
  form,        \* the open dialog
  save         \* its request

server == <<packCard, dispenser, tankState>>
screen == <<shown, move, form, save>>
vars == <<server, screen>>

NoMove == [card |-> NoCardId, column |-> "A", position |-> 0, by |-> NoCardId, fresh |-> FALSE]
NoForm == [open |-> FALSE, card |-> NoCardId, tank |-> NoTank, column |-> "A"]
NoSave == [sent |-> FALSE, card |-> NoCardId, tank |-> NoTank, column |-> "A",
           fresh |-> FALSE, offered |-> FALSE, answer |-> "NONE"]

Board == [card |-> packCard, column |-> dispenser, state |-> tankState]

CardIds == PackCards \cup {NoCardId}
TankOrNone == BoardTanks \cup {NoTank}

PlanTypeOK ==
  /\ PackBoardTypeOK
  /\ dispenser \in [PackCards -> Columns] /\ tankState \in [BoardTanks -> UsedStates]
  /\ move \in [card: CardIds, column: Columns, position: 0 .. MaxPlanned - 1, by: CardIds,
               fresh: BOOLEAN]
  /\ form \in [open: BOOLEAN, card: CardIds, tank: TankOrNone, column: Columns]
  /\ save \in [sent: BOOLEAN, card: CardIds, tank: TankOrNone, column: Columns,
               fresh: BOOLEAN, offered: BOOLEAN, answer: {"NONE", "ACCEPTED", "REFUSED"}]

PlanInit ==
  /\ PackBoardInit
  /\ dispenser = [c \in PackCards |-> "A"]
  /\ tankState \in [BoardTanks -> UsedStates]
  /\ shown = Board
  /\ move = NoMove /\ form = NoForm /\ save = NoSave

-----------------------------------------------------------------------------
(* The page. *)

ShownCards == {c \in PackCards : shown.card[c].tank # NoTank}
Place(c) == shown.card[c].position
OtherColumn(x) == IF x = "A" THEN "B" ELSE "A"

\* selectableTanks: neither planned by another card nor in a state that forbids it.
SelectableTanks ==
  {t \in BoardTanks :
     /\ shown.state[t] \notin {"ENVASANDO", "VACIO", "FUERA_DE_SERVICIO"}
     /\ \A c \in ShownCards : shown.card[c].tank = t => c = form.card}

Send(c, x, p, by) ==
  /\ move = NoMove /\ c \in ShownCards
  /\ move' = [card |-> c, column |-> x, position |-> p, by |-> by, fresh |-> shown = Board]
  /\ UNCHANGED <<server, shown, form, save>>

\* dropCard on another card, which gives up its place, or below a column.
DropOnCard(c, d) == d \in ShownCards \ {c} /\ Send(c, shown.column[d], Place(d), d)

DropOnColumn(c, x) == ShownCards # {} /\ Send(c, x, Cardinality(ShownCards) - 1, NoCardId)

\* The arrows, disabled at the ends of the queue; d is the next card that way.
MoveUp(c, d) ==
  /\ {c, d} \subseteq ShownCards /\ Place(d) = Place(c) - 1
  /\ Send(c, shown.column[c], Place(c) - 1, d)
MoveDown(c, d) ==
  /\ {c, d} \subseteq ShownCards /\ Place(d) = Place(c) + 1
  /\ Send(c, shown.column[c], Place(c) + 1, d)
MoveToOther(c) ==
  c \in ShownCards /\ Send(c, OtherColumn(shown.column[c]), Place(c), NoCardId)

OpenCreate(x) ==
  /\ ~form.open /\ Cardinality(ShownCards) < MaxPlanned /\ SelectableTanks # {}
  /\ form' = [NoForm EXCEPT !.open = TRUE, !.column = x]
  /\ UNCHANGED <<server, shown, move, save>>

OpenEdit(c) ==
  /\ ~form.open /\ c \in ShownCards
  /\ form' = [open |-> TRUE, card |-> c, tank |-> shown.card[c].tank,
              column |-> shown.column[c]]
  /\ UNCHANGED <<server, shown, move, save>>

SelectTank(t) ==
  /\ form.open /\ ~save.sent /\ t \in SelectableTanks
  /\ form' = [form EXCEPT !.tank = t]
  /\ UNCHANGED <<server, shown, move, save>>

CloseDialog ==
  /\ form.open /\ ~save.sent
  /\ form' = NoForm /\ save' = NoSave
  /\ UNCHANGED <<server, shown, move>>

\* The page as it is shown would open the same dialog and offer the same tank.
StillOffered ==
  /\ form.tank \in SelectableTanks
  /\ IF form.card = NoCardId THEN Cardinality(ShownCards) < MaxPlanned
     ELSE form.card \in ShownCards

Submit ==
  /\ form.open /\ ~save.sent /\ form.tank # NoTank
  /\ save' = [sent |-> TRUE, card |-> form.card, tank |-> form.tank, column |-> form.column,
              fresh |-> shown = Board, offered |-> StillOffered,
              answer |-> "NONE"]
  /\ UNCHANGED <<server, shown, move, form>>

\* Poll every fifteen seconds, or after a success.
Refresh ==
  /\ shown # Board
  /\ shown' = Board
  /\ UNCHANGED <<server, move, form, save>>

-----------------------------------------------------------------------------
(* The server. *)

\* What the planner decided on is no longer what the server holds.
Overtaken == /\ move' = [move EXCEPT !.fresh = FALSE]
             /\ save' = [save EXCEPT !.fresh = FALSE]

\* A card that is gone is not found; the answer is a refusal.
ServeMove ==
  /\ move # NoMove
  /\ \/ /\ MovePackagingPlanningCard(move.card, move.position)
        /\ dispenser' = [dispenser EXCEPT ![move.card] = move.column]
     \/ move.card \notin Queue /\ UNCHANGED <<packCard, dispenser>>
  /\ move' = NoMove
  /\ save' = [save EXCEPT !.fresh = FALSE]
  /\ UNCHANGED <<tankState, shown, form>>

SaveNew ==
  /\ save.card = NoCardId
  /\ \E c \in PackCards \ ShownCards :
       /\ CreatePackagingPlanningCard(c, save.tank, tankState)
       /\ dispenser' = [dispenser EXCEPT ![c] = save.column]

SaveEdit ==
  /\ save.card # NoCardId
  /\ UpdatePackagingPlanningCard(save.card, save.tank, tankState)
  /\ UNCHANGED dispenser

\* Whether the service carries the request out.
Acceptable ==
  /\ Plannable(tankState[save.tank])
  /\ CardsOf(save.tank) \subseteq {save.card}
  /\ IF save.card = NoCardId THEN Cardinality(Queue) < MaxPlanned ELSE save.card \in Queue

ServeSave ==
  /\ save.sent /\ save.answer = "NONE"
  /\ \/ (SaveNew \/ SaveEdit) /\ save' = [save EXCEPT !.answer = "ACCEPTED"]
        /\ move' = [move EXCEPT !.fresh = FALSE]
     \/ ~Acceptable /\ save' = [save EXCEPT !.answer = "REFUSED"]
        /\ UNCHANGED <<packCard, dispenser, move>>
  /\ UNCHANGED <<tankState, shown, form>>

\* A success closes the dialog; a refusal leaves it open with its message.
ReceiveSave ==
  /\ save.answer # "NONE"
  /\ form' = IF save.answer = "ACCEPTED" THEN NoForm ELSE form
  /\ save' = NoSave
  /\ UNCHANGED <<server, shown, move>>

\* Ids are never used again: a new card has one the page does not know.
Unknown(c) == c \notin ShownCards \cup {move.card, move.by, form.card, save.card}

\* Other planners; a tank is filled up to a plannable state, started, which uses
\* its card up, or emptied.
RestOfThePlant ==
  /\ \/ /\ \E c \in PackCards, t \in BoardTanks :
             Unknown(c) /\ CreatePackagingPlanningCard(c, t, tankState)
        /\ UNCHANGED <<dispenser, tankState>>
     \/ \E c \in PackCards : DeletePackagingPlanningCard(c) /\ UNCHANGED <<dispenser, tankState>>
     \/ \E t \in BoardTanks, s \in UsedStates \ {"ENVASANDO"} :
          /\ tankState' = [tankState EXCEPT ![t] = s]
          /\ UNCHANGED <<packCard, dispenser>>
     \/ \E t \in BoardTanks :
          /\ "ENVASANDO" \in UsedStates /\ tankState[t] = "APROBADO"
          /\ tankState' = [tankState EXCEPT ![t] = "ENVASANDO"]
          /\ ConsumePackagingPlanningCard(t)
          /\ UNCHANGED dispenser
  /\ Overtaken
  /\ UNCHANGED <<shown, form>>

Moving ==
  \/ \E c, d \in PackCards : DropOnCard(c, d) \/ MoveUp(c, d) \/ MoveDown(c, d)
  \/ \E c \in PackCards : MoveToOther(c) \/ \E x \in Columns : DropOnColumn(c, x)
  \/ ServeMove

Editing ==
  \/ \E x \in Columns : OpenCreate(x)
  \/ \E c \in PackCards : OpenEdit(c)
  \/ \E t \in BoardTanks : SelectTank(t)
  \/ CloseDialog \/ Submit \/ ServeSave \/ ReceiveSave

\* A planner who moves cards, and one who opens the dialog.
MovesSpec == PlanInit /\ [][Moving \/ Refresh \/ RestOfThePlant]_vars
DialogSpec == PlanInit /\ [][Editing \/ Refresh \/ RestOfThePlant]_vars

-----------------------------------------------------------------------------
\* A move sent from an up-to-date board does to the queue what the planner saw:
\* the card takes the place of the neighbour or of the card under the pointer,
\* which is then next to it, or goes last or stays, in the column meant
\* (PackagingPlanningBoard.tsx:201-207, 318-356; plant.service.ts:565-586).
MoveLandsInQueue ==
  (move.fresh /\ move' = NoMove) =>
    /\ packCard'[move.card].position = move.position
    /\ dispenser'[move.card] = move.column
    /\ move.by # NoCardId =>
         /\ packCard'[move.card].position = packCard[move.by].position
         /\ packCard'[move.by].position - packCard'[move.card].position \in {-1, 1}

\* What the dialog offers on an up-to-date board, on which the page would still
\* open it, is accepted: the rules of the select and of the button are those of
\* the service
\* (PackagingPlanningBoard.tsx:123-134, 238-246; plant.service.ts:461-473, 525-533).
OfferedTankAccepted ==
  save.fresh /\ save.offered => save.answer # "REFUSED"
=============================================================================
