-------------------------- MODULE PlanningScreens --------------------------
(***************************************************************************)
(* The planners in front of the manufacturing board                        *)
(* (PlanningBoardPage.tsx).  Each sees the board of the last poll, drags a *)
(* card onto another or moves it with its four arrows, and the page sends  *)
(* the position it computes from what it shows.  An edit sends the whole   *)
(* form; its transaction runs at the default isolation level, so another   *)
(* may commit between its read of the card and its write.  The operations  *)
(* that run at the Serializable level are the steps of ManufacturingBoard. *)
(***************************************************************************)
EXTENDS ManufacturingBoard, Sequences

CONSTANTS
  Planners,   \* planners with the board open
  Column,     \* place of each tank on the board, from left to right
  NoCardId,   \* the request names no card
  MaxEdits    \* bound on the edits, for TLC only

PlanAssumption ==
  Column \in [BoardTanks -> 1 .. Cardinality(BoardTanks)] /\ NoCardId \notin Cards

VARIABLES
  shown,    \* the board each planner sees
  move,     \* request of a move, with where the planner meant the card to land
  edit,     \* dialog of an edit, its request and the row its transaction read
  log       \* UPDATE rows of the audit log written by edits, oldest first

planVars == <<card, shown, move, edit, log>>

NoMove == [card |-> NoCardId, tank |-> NoTank, position |-> 0,
           side |-> "LAST", by |-> NoCardId, fresh |-> FALSE]
NoEdit == [card |-> NoCardId, phase |-> "CLOSED", form |-> NoContent, before |-> NoCard]

CardIds == Cards \cup {NoCardId}
Boards == [Cards -> CardRows \cup {NoCard}]

PlanTypeOK ==
  /\ BoardTypeOK
  /\ shown \in [Planners -> Boards]
  /\ move \in [Planners ->
       [card: CardIds, tank: BoardTanks \cup {NoTank}, position: Nat,
        side: {"BEFORE", "AFTER", "LAST"}, by: CardIds, fresh: BOOLEAN]]
  /\ edit \in [Planners ->
       [card: CardIds, phase: {"CLOSED", "SENT", "READ"},
        form: Contents \cup {NoContent}, before: CardRows \cup {NoCard}]]
  /\ log \in Seq([card: Cards, before: Contents, after: Contents])

PlanInit ==
  /\ BoardInit
  /\ shown = [u \in Planners |-> card]
  /\ move = [u \in Planners |-> NoMove]
  /\ edit = [u \in Planners |-> NoEdit]
  /\ log = << >>

-----------------------------------------------------------------------------
(* What the page computes from the board it shows. *)

ShownOn(u, t) == {c \in Cards : shown[u][c].tank = t}
Index(u, c) == Rank(shown[u], ShownOn(u, shown[u][c].tank), c)

\* Mutant of DropPosition: the place the dragged card leaves is not counted.
DropPositionUnadjusted(u, c, t, index) == index

\* dropCard: the insertion index does not count the dragged card itself.
DropPosition(u, c, t, index) ==
  IF shown[u][c].tank = t /\ Index(u, c) < index THEN index - 1 ELSE index

Send(u, c, t, p, side, by) ==
  /\ move' = [move EXCEPT ![u] =
       [card |-> c, tank |-> t, position |-> p, side |-> side, by |-> by,
        fresh |-> shown[u] = card]]
  /\ UNCHANGED <<card, shown, edit, log>>

\* Cards and arrows are disabled while a move is awaited.
MayMove(u, c) == move[u] = NoMove /\ shown[u][c].tank # NoTank

\* A card is dropped on another of a column, or below its last one; dropped on
\* itself it would be sent to the place it has.
DropOnCard(u, c, d) ==
  /\ MayMove(u, c)
  /\ d # c /\ shown[u][d].tank # NoTank
  /\ Send(u, c, shown[u][d].tank,
          DropPosition(u, c, shown[u][d].tank, Index(u, d)), "BEFORE", d)

DropOnColumn(u, c, t) ==
  /\ MayMove(u, c)
  /\ Send(u, c, t, DropPosition(u, c, t, Cardinality(ShownOn(u, t))), "LAST", NoCardId)

\* The arrows up and down, disabled at the ends of the list.
MoveBy(u, c, d) ==
  LET t == shown[u][c].tank
  IN /\ MayMove(u, c)
     /\ shown[u][d].tank = t
     /\ \/ /\ Index(u, d) = Index(u, c) - 1
           /\ Send(u, c, t, Index(u, c) - 1, "BEFORE", d)
        \/ /\ Index(u, d) = Index(u, c) + 1
           /\ Send(u, c, t, Index(u, c) + 1, "AFTER", d)

\* moveToAdjacentTank
MoveToAdjacentTank(u, c, t) ==
  /\ MayMove(u, c)
  /\ Column[t] - Column[shown[u][c].tank] \in {-1, 1}
  /\ Send(u, c, t, Cardinality(ShownOn(u, t)), "LAST", NoCardId)

-----------------------------------------------------------------------------
(* The server. *)

\* A change of the board makes the moves sent before it decided on an old one.
Overtaken == [u \in Planners |-> [move[u] EXCEPT !.fresh = FALSE]]
OvertakenBut(u) == [Overtaken EXCEPT ![u] = NoMove]

\* A card that is no longer planned is not found (404).
ServeMove(u) ==
  /\ move[u] # NoMove
  /\ \/ MovePlanningCard(move[u].card, move[u].tank, move[u].position)
     \/ move[u].card \notin Planned /\ UNCHANGED card
  /\ move' = IF card' = card THEN [move EXCEPT ![u] = NoMove] ELSE OvertakenBut(u)
  /\ UNCHANGED <<shown, edit, log>>

\* Poll every fifteen seconds, or after a success.
Refresh(u) ==
  /\ shown' = [shown EXCEPT ![u] = card]
  /\ UNCHANGED <<card, move, edit, log>>

\* openEdit and "Guardar tarjeta": the form goes to the server with what the
\* planner left in it.
SendEdit(u, c, o) ==
  /\ edit[u].phase = "CLOSED"
  /\ Len(log) < MaxEdits
  /\ shown[u][c].tank # NoTank
  /\ edit' = [edit EXCEPT ![u] =
       [card |-> c, phase |-> "SENT", form |-> o, before |-> NoCard]]
  /\ UNCHANGED <<card, shown, move, log>>

\* findFirst of updatePlanningCard.
ReadCard(u) ==
  /\ edit[u].phase = "SENT"
  /\ edit' = IF edit[u].card \in Planned
             THEN [edit EXCEPT ![u].phase = "READ", ![u].before = card[edit[u].card]]
             ELSE [edit EXCEPT ![u] = NoEdit]
  /\ UNCHANGED <<card, shown, move, log>>

\* update: the columns of the form; tank and position stay as they are.
Edited(u) == [card[edit[u].card] EXCEPT !.order = edit[u].form]

\* The update and the audit row with the values before and after; the card may
\* have been deleted or used up since the read, and then nothing is stored.
WriteCard(u) ==
  /\ edit[u].phase = "READ"
  /\ \/ /\ edit[u].card \in Planned
        /\ card' = [card EXCEPT ![edit[u].card] = Edited(u)]
        /\ log' = Append(log, [card |-> edit[u].card, before |-> edit[u].before.order,
                               after |-> edit[u].form])
     \/ /\ edit[u].card \notin Planned
        /\ UNCHANGED <<card, log>>
  /\ edit' = [edit EXCEPT ![u] = NoEdit]
  /\ UNCHANGED <<shown, move>>

\* Ids are never used again: a new card has one that no page and no request knows.
Unknown(c) ==
  \A u \in Planners :
    /\ c \notin {move[u].card, move[u].by, edit[u].card}
    /\ shown[u][c].tank = NoTank

\* Cards created, deleted and used up by the rest of the plant.
RestOfThePlant ==
  /\ \/ \E c \in {d \in Cards : Unknown(d)}, t \in BoardTanks, o \in Contents : CreatePlanningCard(c, t, o)
     \/ \E c \in Cards : DeletePlanningCard(c)
     \/ \E t \in BoardTanks, o \in Contents : ConsumePlanningCard(t, o)
  /\ move' = IF card' = card THEN move ELSE Overtaken
  /\ UNCHANGED <<shown, edit, log>>

PlanNext ==
  \/ RestOfThePlant
  \/ \E u \in Planners :
       \/ \E c, d \in Cards : DropOnCard(u, c, d) \/ MoveBy(u, c, d)
       \/ \E c \in Cards, t \in BoardTanks :
            DropOnColumn(u, c, t) \/ MoveToAdjacentTank(u, c, t)
       \/ \E c \in Cards, o \in Contents : SendEdit(u, c, o)
       \/ ServeMove(u) \/ Refresh(u) \/ ReadCard(u) \/ WriteCard(u)

PlanSpec == PlanInit /\ [][PlanNext]_planVars

-----------------------------------------------------------------------------
\* Where the planner meant the card of request m to land.
LandsAsMeant(m, board) ==
  LET place == board[m.card].position
      lane  == {c \in Cards : board[c].tank = m.tank}
  IN /\ board[m.card].tank = m.tank
     /\ CASE m.side = "BEFORE" -> board[m.by].position = place + 1
          [] m.side = "AFTER"  -> board[m.by].position = place - 1
          [] OTHER             -> place = Cardinality(lane) - 1

\* A card moved on a board nobody has changed since lands where it was dropped:
\* just above the card under the pointer, below the last one, or past the
\* neighbour of its arrow, although page and server count positions differently
\* (PlanningBoardPage.tsx:182-194 and plant.service.ts:297-315).
MoveLandsAsShown ==
  \A u \in Planners :
    (move[u].fresh /\ move'[u] = NoMove) => LandsAsMeant(move[u], card')

\* docs/data-model.md:18: "`PlantAuditLog`: cambios auditables con valores
\* anterior/nuevo y motivo".  The value before an audited edit is the one it
\* replaced.
EditsLogWhatTheyReplace ==
  [][Len(log') > Len(log) =>
       LET e == log'[Len(log')] IN e.before = card[e.card].order]_planVars
=============================================================================
