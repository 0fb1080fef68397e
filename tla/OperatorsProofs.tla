-------------------------- MODULE OperatorsProofs ---------------------------
(***************************************************************************)
(* Proofs about the operators and planners in front of their screens: the  *)
(* dialogs of one tank and their transactions (TankTransactions), the page *)
(* of the manufacturing board (PlanningScreens) and the page of the        *)
(* packaging plan (PackagingPlanScreens), for any tanks, cards, planners,  *)
(* dialogs and requests.                                                   *)
(***************************************************************************)
EXTENDS TankTransactions, PlanningScreens, BoardProofs

-----------------------------------------------------------------------------
(* The dialogs of a tank and the transactions of their requests.            *)

\* An opened dialog never shows a version the tank does not have yet.
SeenInv == \A d \in Dialogs : saw[d] # NotOpened => saw[d] \in Nat /\ saw[d] <= version

\* What is known of a request in each phase of its transaction.
RequestInv ==
  \A r \in Requests :
    /\ request[r].phase # "FREE" =>
         request[r].dialog \in Dialogs /\ saw[request[r].dialog] # NotOpened
    /\ request[r].phase \in {"READ", "WRITTEN"} =>
         request[r].snapshot = saw[request[r].dialog]
    /\ request[r].phase = "WRITTEN" => holder = r /\ request[r].snapshot = version
    /\ request[r].outcome = "OK" => request[r].dialog \in carried
    /\ request[r].outcome = "CONFLICT" => saw[request[r].dialog] < version
    /\ request[r].phase = "FREE" => request[r].outcome = "NONE"

WaitingInv ==
  \A d \in Dialogs : waiting[d] # NoRequest =>
    request[waiting[d]].phase # "FREE" /\ request[waiting[d]].dialog = d

AnswerInv ==
  \A d \in Dialogs :
    /\ answer[d] = "OK" => d \in carried
    /\ answer[d] = "CONFLICT" => saw[d] # NotOpened /\ saw[d] < version

IInv ==
  TransactionsTypeOK /\ SeenInv /\ RequestInv /\ WaitingInv /\ AnswerInv /\ OneWinner

USE DEF Outcomes, Answers

\* The rows of the requests keep their type when one of them ends.
LEMMA OverIsTyped ==
  ASSUME request \in [Requests -> RequestRows], NEW r \in Requests, NEW o \in Outcomes
  PROVE  Over(r, o) \in [Requests -> RequestRows]
  <1> DEFINE row == [request[r] EXCEPT !.phase = "OVER", !.outcome = o]
  <1>1. row \in RequestRows
    BY DEF RequestRows
  <1>2. Over(r, o) = [request EXCEPT ![r] = row]
    BY DEF Over, RequestRows
  <1> HIDE DEF row
  <1>3. QED BY <1>1, <1>2

LEMMA InitIInv == TransactionsInit => IInv
  BY RequestIds, NotOpenedIsNoVersion
  DEF TransactionsInit, RegisterInit, IInv, TransactionsTypeOK, RegisterTypeOK, SeenInv,
      RequestInv, WaitingInv, AnswerInv, OneWinner, NotSent, Sent, RequestRows

LEMMA OpenKeepsIInv ==
  ASSUME IInv, NEW d \in Dialogs, NEW v \in 0 .. version, OpenDialog(d, v)
  PROVE  IInv'
  BY NotOpenedIsNoVersion
  DEF OpenDialog, OpenOn, transactionVars, IInv, TransactionsTypeOK, RegisterTypeOK,
      SeenInv, RequestInv, WaitingInv, AnswerInv, OneWinner, RequestRows

LEMMA ConfirmKeepsIInv ==
  ASSUME IInv, NEW d \in Dialogs, NEW r \in Requests, Confirm(d, r)
  PROVE  IInv'
  BY NotOpenedIsNoVersion, RequestIds
  DEF Confirm, registerVars, Sent, IInv, TransactionsTypeOK, RegisterTypeOK,
      SeenInv, RequestInv, WaitingInv, AnswerInv, OneWinner, RequestRows

LEMMA AnsweredKeepsIInv ==
  ASSUME IInv, NEW d \in Dialogs, Answered(d) \/ GiveUp(d)
  PROVE  IInv'
  BY NotOpenedIsNoVersion, RequestIds
  DEF Answered, GiveUp, registerVars, IInv, TransactionsTypeOK, RegisterTypeOK,
      SeenInv, RequestInv, WaitingInv, AnswerInv, OneWinner, RequestRows

LEMMA ReadKeepsIInv ==
  ASSUME IInv, NEW r \in Requests, ReadTank(r)
  PROVE  IInv'
  <1> USE DEF ReadTank, Over, registerVars, IInv, TransactionsTypeOK, RegisterTypeOK, RequestRows
  <1>1. TransactionsTypeOK'
    <2>1. request' \in [Requests -> RequestRows]
      <3>1. CASE saw[request[r].dialog] = version
        <4> DEFINE row == [request[r] EXCEPT !.phase = "READ", !.snapshot = version]
        <4>1. row \in RequestRows
          OBVIOUS
        <4>2. request' = [request EXCEPT ![r] = row]
          BY <3>1
        <4> HIDE DEF row
        <4>3. QED BY <4>1, <4>2
      <3>2. CASE saw[request[r].dialog] # version
        BY <3>2, OverIsTyped
      <3>3. QED BY <3>1, <3>2
    <2>2. QED BY <2>1
  <1>2. request[r].phase = "SENT" /\ request[r].dialog \in Dialogs
    BY DEF RequestInv
  <1>3. RequestInv'
    <2>1. CASE saw[request[r].dialog] = version
      BY <1>2, <2>1, RequestIds DEF RequestInv
    <2>2. CASE saw[request[r].dialog] # version
      <3>1. saw[request[r].dialog] < version
        BY <1>2, <2>2, NotOpenedIsNoVersion DEF RequestInv, SeenInv
      <3>2. QED BY <1>2, <2>2, <3>1, RequestIds DEF RequestInv
    <2>3. QED BY <2>1, <2>2
  <1>4. WaitingInv'
    BY <1>2, RequestIds DEF WaitingInv
  <1>5. SeenInv' /\ AnswerInv' /\ OneWinner'
    BY DEF SeenInv, AnswerInv, OneWinner
  <1>6. QED BY <1>1, <1>3, <1>4, <1>5

LEMMA WriteKeepsIInv ==
  ASSUME IInv, NEW r \in Requests, WriteTank(r)
  PROVE  IInv'
  <1> USE DEF WriteTank, Over, registerVars, IInv, TransactionsTypeOK, RegisterTypeOK, RequestRows
  <1>1. TransactionsTypeOK'
    OBVIOUS
  <1>2. request[r].phase \in {"READ", "WRITTEN"} /\ request[r].dialog \in Dialogs
    BY DEF RequestInv
  <1>3. RequestInv'
    BY RequestIds DEF RequestInv
  <1>4. WaitingInv'
    BY <1>2, RequestIds DEF WaitingInv
  <1>5. SeenInv' /\ AnswerInv' /\ OneWinner'
    BY DEF SeenInv, AnswerInv, OneWinner
  <1>6. QED BY <1>1, <1>3, <1>4, <1>5

LEMMA AbortKeepsIInv ==
  ASSUME IInv, NEW r \in Requests, Abort(r)
  PROVE  IInv'
  <1> USE DEF Abort, Over, registerVars, IInv, TransactionsTypeOK, RegisterTypeOK, RequestRows
  <1>1. TransactionsTypeOK'
    <2>1. request' \in [Requests -> RequestRows]
      BY OverIsTyped
    <2>2. QED BY <2>1
  <1>2. request[r].phase \in {"READ", "WRITTEN"} /\ request[r].dialog \in Dialogs
    BY DEF RequestInv
  <1>3. RequestInv'
    BY RequestIds DEF RequestInv
  <1>4. WaitingInv'
    BY <1>2, RequestIds DEF WaitingInv
  <1>5. SeenInv' /\ AnswerInv' /\ OneWinner'
    BY DEF SeenInv, AnswerInv, OneWinner
  <1>6. QED BY <1>1, <1>3, <1>4, <1>5

\* A commit carries out a dialog that saw the present version.
LEMMA CommitCarriesOut ==
  ASSUME IInv, NEW r \in Requests, Commit(r)
  PROVE  request[r].dialog \in Dialogs /\ CarryOut(request[r].dialog)
  BY DEF Commit, CarryOut, IInv, RequestInv

LEMMA CommitKeepsIInv ==
  ASSUME IInv, NEW r \in Requests, Commit(r)
  PROVE  IInv'
  <1> DEFINE d == request[r].dialog
  <1>1. d \in Dialogs /\ CarryOut(d)
    BY CommitCarriesOut
  <1>2. TransactionsTypeOK'
    <2>1. request' \in [Requests -> RequestRows]
      BY OverIsTyped DEF Commit, IInv, TransactionsTypeOK
    <2>2. QED
      BY <1>1, <2>1 DEF Commit, IInv, TransactionsTypeOK, RegisterTypeOK, CarryOut
  <1>3. SeenInv' /\ AnswerInv'
    BY <1>1 DEF Commit, IInv, TransactionsTypeOK, RegisterTypeOK, SeenInv, AnswerInv, CarryOut
  <1>7. WaitingInv'
    BY <1>1, RequestIds DEF Commit, Over, IInv, TransactionsTypeOK, WaitingInv, RequestRows
  <1>4. RequestInv'
    BY <1>1, RequestIds DEF Commit, Over, IInv, TransactionsTypeOK, RegisterTypeOK, SeenInv,
       RequestInv, RequestRows, CarryOut
  <1>5. OneWinner'
    BY <1>1 DEF IInv, TransactionsTypeOK, RegisterTypeOK, OneWinner, CarryOut
  <1>6. QED BY <1>2, <1>3, <1>4, <1>5, <1>7 DEF IInv

LEMMA NextKeepsIInv == IInv /\ [TransactionsNext]_tankVars => IInv'
  <1> SUFFICES ASSUME IInv, [TransactionsNext]_tankVars PROVE IInv'
    OBVIOUS
  <1>1. CASE UNCHANGED tankVars
    BY <1>1 DEF tankVars, registerVars, transactionVars, IInv, TransactionsTypeOK,
       RegisterTypeOK, SeenInv, RequestInv, WaitingInv, AnswerInv, OneWinner
  <1>2. ASSUME NEW d \in Dialogs, NEW v \in 0 .. version, OpenDialog(d, v) PROVE IInv'
    BY <1>2, OpenKeepsIInv
  <1>3. ASSUME NEW d \in Dialogs, NEW r \in Requests, Confirm(d, r) PROVE IInv'
    BY <1>3, ConfirmKeepsIInv
  <1>4. ASSUME NEW d \in Dialogs, Answered(d) \/ GiveUp(d) PROVE IInv'
    BY <1>4, AnsweredKeepsIInv
  <1>5. ASSUME NEW r \in Requests, ReadTank(r) PROVE IInv'
    BY <1>5, ReadKeepsIInv
  <1>6. ASSUME NEW r \in Requests, WriteTank(r) PROVE IInv'
    BY <1>6, WriteKeepsIInv
  <1>7. ASSUME NEW r \in Requests, Commit(r) PROVE IInv'
    BY <1>7, CommitKeepsIInv
  <1>8. ASSUME NEW r \in Requests, Abort(r) PROVE IInv'
    BY <1>8, AbortKeepsIInv
  <1>9. QED
    BY <1>1, <1>2, <1>3, <1>4, <1>5, <1>6, <1>7, <1>8
    DEF TransactionsNext, Browser, Statement

LEMMA AlwaysIInv == TransactionsSpec => []IInv
  BY InitIInv, NextKeepsIInv, PTL DEF TransactionsSpec

\* At most one of the dialogs opened on a version of the tank is carried out,
\* and none twice, whatever the operators repeat and the database aborts
\* (plant.service.ts:2625-2653).
THEOREM TankHasOneWinner == TransactionsSpec => []OneWinner
  <1>1. IInv => OneWinner
    BY DEF IInv
  <1>2. QED BY <1>1, AlwaysIInv, PTL

\* A success was carried out and a conflict is one (plant.service.ts:2630-2637).
THEOREM AnswersStayTrue == TransactionsSpec => []AnswersAreTrue
  <1>1. IInv => AnswersAreTrue
    <2> SUFFICES ASSUME IInv, NEW d \in Dialogs, answer[d] = "CONFLICT"
                 PROVE  saw[d] # version
      BY DEF IInv, AnswersAreTrue, AnswerInv
    <2>1. saw[d] \in Nat /\ saw[d] < version
      BY DEF IInv, AnswerInv, SeenInv
    <2>2. version \in Nat
      BY DEF IInv, TransactionsTypeOK, RegisterTypeOK
    <2>3. QED BY <2>1, <2>2
  <1>2. QED BY <1>1, AlwaysIInv, PTL

-----------------------------------------------------------------------------
(* Refinement of the register. *)

LEMMA StepIsRegisterStep ==
  ASSUME IInv, [TransactionsNext]_tankVars
  PROVE  [Register!RegisterNext]_(Register!registerVars)
  <1> USE DEF Register!registerVars, registerVars
  <1>1. CASE UNCHANGED registerVars
    BY <1>1
  <1>2. ASSUME NEW d \in Dialogs, NEW v \in 0 .. version, OpenDialog(d, v)
        PROVE  Register!RegisterNext
    BY <1>2 DEF OpenDialog, OpenOn, Register!RegisterNext, Register!OpenOn
  <1>3. ASSUME NEW r \in Requests, Commit(r) PROVE Register!RegisterNext
    BY <1>3, CommitCarriesOut DEF CarryOut, Register!RegisterNext, Register!CarryOut
  <1>4. QED
    BY <1>1, <1>2, <1>3
    DEF TransactionsNext, Browser, Statement, tankVars, Confirm, Answered, GiveUp,
        ReadTank, WriteTank, Abort

\* The interleaved statements, timeouts and repeated requests of a tank do to it
\* what one atomic comparison and write per operation would: an operation of
\* module Plant may be one step (plant.service.ts:1078-1082).
THEOREM TransactionsImplementRegister == TransactionsSpec => ImplementsRegister
  <1>1. TransactionsInit => Register!RegisterInit
    BY DEF TransactionsInit, RegisterInit, Register!RegisterInit
  <1>2. QED
    BY <1>1, StepIsRegisterStep, AlwaysIInv, PTL
    DEF TransactionsSpec, ImplementsRegister, Register!RegisterSpec

-----------------------------------------------------------------------------
(* The planners in front of the manufacturing board (PlanningScreens).       *)

(* What a planner sees of a board, and what a request says of a move. *)
Moves == [card: CardIds, tank: BoardTanks \cup {NoTank}, position: Nat,
          side: {"BEFORE", "AFTER", "LAST"}, by: CardIds, fresh: BOOLEAN]
PagesOK ==
  /\ shown \in [Planners -> Boards]
  /\ move \in [Planners -> Moves]
  /\ \A u \in Planners : move[u].card \in Cards => move[u].tank \in BoardTanks

(* The place in the list of tank t where the request puts the card: that of   *)
(* the card under the pointer, one less when the dragged card stands above    *)
(* it; that of the next card; or past the others of the list.                 *)
Meant(m, board) ==
  LET lane == {c \in Cards : board[c].tank = m.tank}
  IN /\ m.card \in Cards /\ m.tank \in BoardTanks /\ board[m.card].tank # NoTank
     /\ CASE m.side = "BEFORE" ->
               /\ m.by \in lane \ {m.card}
               /\ m.position =
                    IF m.card \in lane /\ board[m.card].position < board[m.by].position
                    THEN board[m.by].position - 1 ELSE board[m.by].position
          [] m.side = "AFTER" ->
               /\ m.by \in lane /\ m.card \in lane
               /\ board[m.by].position = board[m.card].position + 1
               /\ m.position = board[m.card].position + 1
          [] OTHER -> m.position >= Cardinality(lane \ {m.card})

MovesInv == \A u \in Planners : move[u].fresh => Meant(move[u], card)
(* The dialogs hold a card and a form from the moment they are sent. *)
EditsOK ==
  /\ edit \in [Planners -> [card: CardIds, phase: {"CLOSED", "SENT", "READ"},
                            form: Contents \cup {NoContent}, before: CardRows \cup {NoCard}]]
  /\ \A u \in Planners : edit[u].phase # "CLOSED" =>
                           edit[u].card \in Cards /\ edit[u].form \in Contents

ScreensInv == PlanAssumption /\ BoardInv /\ PagesOK /\ MovesInv /\ EditsOK

(* The index of a card in a list of a board with the rows of cards. *)
LEMMA IndexIsNat ==
  ASSUME NEW row, NEW lane, lane \subseteq Cards, NEW c
  PROVE  Rank(row, lane, c) \in Nat /\ Cardinality(lane) \in Nat /\ IsFiniteSet(lane)
<1>1. IsFiniteSet(lane)
  BY CardsFinite, FS_Subset
<1>2. IsFiniteSet({e \in lane : row[e].position < row[c].position})
  BY <1>1, FS_Subset
<1> QED BY <1>1, <1>2, FS_CardinalityType DEF Rank

(* On an up-to-date board the index of a planned card is its position. *)
LEMMA IndexIsPosition ==
  ASSUME BoardInv, NEW u \in Planners, shown[u] = card, NEW c \in Planned
  PROVE  /\ Index(u, c) = card[c].position
         /\ \A t \in BoardTanks : ShownOn(u, t) = On(t)
<1>1. /\ c \in On(card[c].tank) /\ card[c].tank \in BoardTanks
  BY PlannedRows DEF BoardInv
<1>2. \A t \in BoardTanks : ShownOn(u, t) = On(t)
  BY DEF ShownOn, On
<1>3. IsFiniteSet(On(card[c].tank))
  BY <1>1, LaneFacts, NoTankIsNoTank DEF BoardInv
<1>4. Rank(card, On(card[c].tank), c) = card[c].position
  BY <1>1, <1>3, RankIsPosition DEF BoardInv, ListsInSequence
<1> QED BY <1>1, <1>2, <1>4 DEF Index

(* The types of what a page sends. *)
Asked(c, t, p, side, by, fresh) ==
  [card |-> c, tank |-> t, position |-> p, side |-> side, by |-> by, fresh |-> fresh]
LEMMA SendKeeps ==
  ASSUME ScreensInv, NEW u \in Planners, NEW c \in Cards, NEW t \in BoardTanks, NEW p \in Nat,
         NEW side \in {"BEFORE", "AFTER", "LAST"}, NEW by \in CardIds,
         Send(u, c, t, p, side, by),
         shown[u] = card => Meant(Asked(c, t, p, side, by, TRUE), card)
  PROVE  ScreensInv' /\ move'[u] # NoMove /\ \A v \in Planners \ {u} : move'[v] = move[v]
<1>1. /\ move' = [move EXCEPT ![u] = Asked(c, t, p, side, by, shown[u] = card)]
      /\ UNCHANGED <<card, shown, edit>>
  BY DEF Send, Asked
<1>2. /\ move'[u] = Asked(c, t, p, side, by, shown[u] = card)
      /\ \A v \in Planners \ {u} : move'[v] = move[v]
  BY <1>1 DEF ScreensInv, PagesOK
<1>3. move' \in [Planners -> Moves]
  <2>1. Asked(c, t, p, side, by, shown[u] = card) \in Moves
    BY DEF Asked, Moves, CardIds
  <2> QED BY <1>1, <2>1 DEF ScreensInv, PagesOK
<1>4. MovesInv'
  <2>1. ASSUME move'[u].fresh PROVE Meant(move'[u], card)
    <3>1. move'[u].fresh = (shown[u] = card)
      BY <1>2 DEF Asked
    <3>2. shown[u] = card
      BY <2>1, <3>1
    <3>3. move'[u] = Asked(c, t, p, side, by, TRUE)
      BY <1>2, <3>2 DEF Asked
    <3> QED BY <3>2, <3>3
  <2>2. \A v \in Planners : move'[v].fresh => Meant(move'[v], card)
    BY <1>2, <2>1 DEF ScreensInv, MovesInv
  <2>3. card' = card
    BY <1>1
  <2> QED BY <2>2, <2>3 DEF MovesInv
<1>5. move'[u] # NoMove
  <2>1. move'[u].card = c /\ NoMove.card = NoCardId /\ NoCardId \notin Cards
    BY <1>2 DEF Asked, NoMove, ScreensInv, PlanAssumption
  <2> QED BY <2>1
<1>6. BoardInv'
  BY <1>1, BoardUnchanged DEF ScreensInv
<1>8. \A v \in Planners : move'[v].card \in Cards => move'[v].tank \in BoardTanks
  <2>1. move'[u].tank = t
    BY <1>2 DEF Asked
  <2> QED BY <1>2, <2>1 DEF ScreensInv, PagesOK
<1>7. PagesOK' /\ EditsOK'
  BY <1>1, <1>3, <1>8 DEF ScreensInv, PagesOK, EditsOK
<1> QED BY <1>2, <1>4, <1>5, <1>6, <1>7 DEF ScreensInv

(* A card the page shows stands on a tank. *)
LEMMA ShownRows ==
  ASSUME ScreensInv, NEW u \in Planners, NEW c \in Cards, shown[u][c].tank # NoTank
  PROVE  /\ shown[u][c].tank \in BoardTanks
         /\ Index(u, c) \in Nat
         /\ shown[u] = card => c \in Planned
<1>1. shown[u][c] \in CardRows \cup {NoCard}
  BY DEF ScreensInv, PagesOK, Boards
<1>2. shown[u][c].tank \in BoardTanks
  BY <1>1 DEF CardRows, NoCard
<1>3. Index(u, c) \in Nat
  BY IndexIsNat DEF Index, ShownOn
<1> QED BY <1>2, <1>3 DEF Planned

(* A card is dropped on another. *)
LEMMA DropOnCardKeeps ==
  ASSUME ScreensInv, NEW u \in Planners, NEW c \in Cards, NEW d \in Cards, DropOnCard(u, c, d)
  PROVE  ScreensInv' /\ move'[u] # NoMove /\ \A v \in Planners \ {u} : move'[v] = move[v]
<1> DEFINE t == shown[u][d].tank
           p == DropPosition(u, c, t, Index(u, d))
<1>1. /\ shown[u][c].tank # NoTank /\ shown[u][d].tank # NoTank /\ c # d
      /\ Send(u, c, t, p, "BEFORE", d)
  BY DEF DropOnCard, MayMove
<1>2. /\ t \in BoardTanks /\ Index(u, c) \in Nat /\ Index(u, d) \in Nat
  BY <1>1, ShownRows
<1>3. p \in Nat
  BY <1>2 DEF DropPosition
<1>4. ASSUME shown[u] = card PROVE Meant(Asked(c, t, p, "BEFORE", d, TRUE), card)
  <2>1. c \in Planned /\ d \in Planned
    BY <1>1, <1>4, ShownRows
  <2>2. Index(u, c) = card[c].position /\ Index(u, d) = card[d].position
    BY <2>1, <1>4, IndexIsPosition DEF ScreensInv
  <2>3. t = card[d].tank /\ shown[u][c].tank = card[c].tank
    BY <1>4
  <2>4. p = IF card[c].tank = t /\ card[c].position < card[d].position
            THEN card[d].position - 1 ELSE card[d].position
    BY <2>2, <2>3 DEF DropPosition
  <2>5. card[c].tank # NoTank
    BY <1>1, <2>3
  <2> HIDE DEF p, t
  <2> DEFINE m == Asked(c, t, p, "BEFORE", d, TRUE)
  <2>6. /\ m.card = c /\ m.tank = t /\ m.position = p /\ m.side = "BEFORE" /\ m.by = d
    BY DEF Asked
  <2> HIDE DEF m
  <2>7. Meant(m, card)
    BY <1>1, <1>2, <2>3, <2>4, <2>5, <2>6 DEF Meant
  <2> QED BY <2>7 DEF m
<1> HIDE DEF t, p
<1>5. d \in CardIds
  BY DEF CardIds
<1> QED BY <1>1, <1>2, <1>3, <1>4, <1>5, SendKeeps

(* A card goes to the end of a column. *)
LEMMA LastKeeps ==
  ASSUME ScreensInv, NEW u \in Planners, NEW c \in Cards, NEW t \in BoardTanks, NEW p \in Nat,
         shown[u][c].tank # NoTank,
         shown[u] = card => p >= Cardinality(On(t) \ {c}),
         Send(u, c, t, p, "LAST", NoCardId)
  PROVE  ScreensInv' /\ move'[u] # NoMove /\ \A v \in Planners \ {u} : move'[v] = move[v]
<1>1. ASSUME shown[u] = card PROVE Meant(Asked(c, t, p, "LAST", NoCardId, TRUE), card)
  <2> DEFINE m == Asked(c, t, p, "LAST", NoCardId, TRUE)
  <2>1. /\ m.card = c /\ m.tank = t /\ m.position = p /\ m.side = "LAST" /\ m.by = NoCardId
    BY DEF Asked
  <2> HIDE DEF m
  <2>2. Meant(m, card)
    BY <1>1, <2>1 DEF Meant, On
  <2> QED BY <2>2 DEF m
<1>2. NoCardId \in CardIds
  BY DEF CardIds
<1> QED BY <1>1, <1>2, SendKeeps

LEMMA DropOnColumnKeeps ==
  ASSUME ScreensInv, NEW u \in Planners, NEW c \in Cards, NEW t \in BoardTanks,
         DropOnColumn(u, c, t) \/ MoveToAdjacentTank(u, c, t)
  PROVE  ScreensInv' /\ move'[u] # NoMove /\ \A v \in Planners \ {u} : move'[v] = move[v]
<1> DEFINE n == Cardinality(ShownOn(u, t))
           p == DropPosition(u, c, t, n)
<1>0. ShownOn(u, t) \subseteq Cards
  BY DEF ShownOn
<1>1. n \in Nat /\ IsFiniteSet(ShownOn(u, t))
  BY <1>0, IndexIsNat
<1>2. shown[u][c].tank # NoTank
  BY DEF DropOnColumn, MoveToAdjacentTank, MayMove
<1>3. Index(u, c) \in Nat
  BY <1>2, ShownRows
<1>4. p \in Nat
  BY <1>1, <1>3 DEF DropPosition
<1>5. shown[u] = card => ShownOn(u, t) = On(t)
  BY DEF ShownOn, On
<1>6. On(t) \subseteq Cards
  BY DEF On
<1>7. Cardinality(On(t) \ {c}) \in Nat /\ IsFiniteSet(On(t))
  BY <1>6, IndexIsNat
<1>8. Cardinality(On(t) \ {c}) = IF c \in On(t) THEN Cardinality(On(t)) - 1
                                              ELSE Cardinality(On(t))
  BY <1>7, FS_RemoveElement
<1>9. CASE DropOnColumn(u, c, t)
  <2>1. Send(u, c, t, p, "LAST", NoCardId)
    BY <1>9 DEF DropOnColumn
  <2>2. ASSUME shown[u] = card PROVE p >= Cardinality(On(t) \ {c})
    <3>1. n = Cardinality(On(t)) /\ n \in Nat
      BY <1>1, <1>5, <2>2
    <3>2. p = n \/ (p = n - 1 /\ c \in On(t))
      BY <2>2 DEF DropPosition, On
    <3> QED BY <3>1, <3>2, <1>7, <1>8
  <2> QED BY <1>2, <1>4, <2>1, <2>2, LastKeeps
<1>10. CASE MoveToAdjacentTank(u, c, t)
  <2>1. Send(u, c, t, n, "LAST", NoCardId)
    BY <1>10 DEF MoveToAdjacentTank
  <2>2. shown[u] = card => n >= Cardinality(On(t) \ {c})
    BY <1>1, <1>5, <1>7, <1>8
  <2> QED BY <1>1, <1>2, <2>1, <2>2, LastKeeps
<1> QED BY <1>9, <1>10

(* The arrows up and down. *)
LEMMA MoveByKeeps ==
  ASSUME ScreensInv, NEW u \in Planners, NEW c \in Cards, NEW d \in Cards, MoveBy(u, c, d)
  PROVE  ScreensInv' /\ move'[u] # NoMove /\ \A v \in Planners \ {u} : move'[v] = move[v]
<1> DEFINE t == shown[u][c].tank
           i == Index(u, c)
           j == Index(u, d)
<1>1. /\ t # NoTank /\ shown[u][d].tank = t
      /\ \/ j = i - 1 /\ Send(u, c, t, i - 1, "BEFORE", d)
         \/ j = i + 1 /\ Send(u, c, t, i + 1, "AFTER", d)
  BY DEF MoveBy, MayMove
<1>2. t \in BoardTanks /\ i \in Nat /\ j \in Nat
  BY <1>1, ShownRows
<1>3. ASSUME shown[u] = card
      PROVE  /\ i = card[c].position /\ j = card[d].position
             /\ card[c].tank = t /\ card[d].tank = t
  <2>1. c \in Planned /\ d \in Planned
    BY <1>1, <1>3, ShownRows
  <2> QED BY <2>1, <1>1, <1>3, IndexIsPosition DEF ScreensInv
<1>4. d \in CardIds
  BY DEF CardIds
<1> HIDE DEF i, j, t
<1>5. CASE j = i - 1 /\ Send(u, c, t, i - 1, "BEFORE", d)
  <2> DEFINE m == Asked(c, t, i - 1, "BEFORE", d, TRUE)
  <2>1. /\ m.card = c /\ m.tank = t /\ m.position = i - 1 /\ m.side = "BEFORE" /\ m.by = d
    BY DEF Asked
  <2>2. ASSUME shown[u] = card PROVE Meant(m, card)
    <3> HIDE DEF m
    <3>1. c # d
      BY <1>2, <1>3, <1>5, <2>2
    <3> QED BY <1>1, <1>2, <1>3, <1>5, <2>1, <2>2, <3>1 DEF Meant
  <2>3. i - 1 \in Nat
    BY <1>2, <1>5
  <2> QED BY <1>2, <1>4, <1>5, <2>2, <2>3, SendKeeps
<1>6. CASE j = i + 1 /\ Send(u, c, t, i + 1, "AFTER", d)
  <2> DEFINE m == Asked(c, t, i + 1, "AFTER", d, TRUE)
  <2>1. /\ m.card = c /\ m.tank = t /\ m.position = i + 1 /\ m.side = "AFTER" /\ m.by = d
    BY DEF Asked
  <2>2. ASSUME shown[u] = card PROVE Meant(m, card)
    <3> HIDE DEF m
    <3> QED BY <1>1, <1>2, <1>3, <1>6, <2>1, <2>2 DEF Meant
  <2>3. i + 1 \in Nat
    BY <1>2
  <2> QED BY <1>2, <1>4, <1>6, <2>2, <2>3, SendKeeps
<1> QED BY <1>1, <1>5, <1>6

(* A board on which every card stands on the tank and at the place it had    *)
(* means the same moves.                                                     *)
LEMMA SamePlaces ==
  ASSUME NEW m, NEW old, NEW new,
         \A c \in Cards : new[c].tank = old[c].tank /\ new[c].position = old[c].position,
         Meant(m, old)
  PROVE  Meant(m, new)
<1>1. {c \in Cards : new[c].tank = m.tank} = {c \in Cards : old[c].tank = m.tank}
  OBVIOUS
<1> QED BY <1>1 DEF Meant

(* A request that was decided on an old board is the same request. *)
LEMMA StaleMove ==
  ASSUME NEW q \in Moves
  PROVE  LET r == [q EXCEPT !.fresh = FALSE]
         IN r \in Moves /\ r.fresh = FALSE /\ r.card = q.card /\ r.tank = q.tank
BY DEF Moves

(* The moves of the others after a step of the board. *)
LEMMA OvertakenMoves ==
  ASSUME PagesOK, NEW u \in Planners
  PROVE  /\ Overtaken = [v \in Planners |-> [move[v] EXCEPT !.fresh = FALSE]]
         /\ \A v \in Planners : [move[v] EXCEPT !.fresh = FALSE] \in Moves
         /\ \A v \in Planners : /\ Overtaken[v].fresh = FALSE
                                  /\ Overtaken[v].card = move[v].card
                                  /\ Overtaken[v].tank = move[v].tank
         /\ OvertakenBut(u) = [v \in Planners |-> IF v = u THEN NoMove ELSE Overtaken[v]]
         /\ NoMove \in Moves /\ NoMove.fresh = FALSE
<1>3. \A v \in Planners : [move[v] EXCEPT !.fresh = FALSE] \in Moves
  BY StaleMove DEF PagesOK
<1>4. Overtaken = [v \in Planners |-> [move[v] EXCEPT !.fresh = FALSE]]
  BY DEF Overtaken
<1>5. \A v \in Planners : /\ Overtaken[v].fresh = FALSE
                           /\ Overtaken[v].card = move[v].card
                           /\ Overtaken[v].tank = move[v].tank
  BY <1>4, StaleMove DEF PagesOK
<1>6. OvertakenBut(u) = [v \in Planners |-> IF v = u THEN NoMove ELSE Overtaken[v]]
  BY <1>4 DEF OvertakenBut
<1>7. NoMove \in Moves /\ NoMove.fresh = FALSE
  BY DEF NoMove, Moves, CardIds
<1> QED BY <1>3, <1>4, <1>5, <1>6, <1>7

(* Only the answer to a move clears one that was decided on the present.     *)
NothingClearedBut(u) ==
  \A v \in Planners \ {u} : move[v].fresh => move'[v] # NoMove

LEMMA FreshIsSent ==
  ASSUME ScreensInv, NEW v \in Planners, move[v].fresh
  PROVE  move[v].card \in Cards /\ move[v].card # NoMove.card /\ move[v] # NoMove
<1>1. move[v].card \in Cards
  BY DEF ScreensInv, MovesInv, Meant
<1>2. move[v].card # NoMove.card
  BY <1>1 DEF ScreensInv, PlanAssumption, NoMove
<1> QED BY <1>1, <1>2

(* Cards come and go. *)
LEMMA RestKeeps ==
  ASSUME ScreensInv, RestOfThePlant
  PROVE  ScreensInv' /\ \A v \in Planners : move[v].fresh => move'[v] # NoMove
<1>1. BoardInv'
  <2>1. \A c \in Cards, t \in BoardTanks, o \in Contents :
          CreatePlanningCard(c, t, o) => BoardInv'
    BY CreateKeepsBoard DEF ScreensInv
  <2>2. \A c \in Cards : DeletePlanningCard(c) => BoardInv'
    BY WithoutKeepsBoard DEF ScreensInv, DeletePlanningCard
  <2>3. \A t \in BoardTanks, o \in Contents : ConsumePlanningCard(t, o) => BoardInv'
    BY ConsumeKeepsBoard, NoTankIsNoTank DEF ScreensInv
  <2> QED BY <2>1, <2>2, <2>3 DEF RestOfThePlant
<1>2. UNCHANGED <<shown, edit>> /\ move' = IF card' = card THEN move ELSE Overtaken
  BY DEF RestOfThePlant
<1>3. CASE card' = card
  <2>1. ScreensInv'
    BY <1>1, <1>2, <1>3 DEF ScreensInv, PagesOK, MovesInv, EditsOK
  <2> QED BY <2>1, <1>2, <1>3, FreshIsSent
<1>4. CASE card' # card
  <2>1. PagesOK
    BY DEF ScreensInv
  <2>2. move' = Overtaken
    BY <1>2, <1>4
  <2>3. ASSUME NEW v \in Planners
        PROVE  /\ move'[v].fresh = FALSE /\ move'[v].card = move[v].card
               /\ move'[v].tank = move[v].tank
    BY <2>1, <2>2, <2>3, OvertakenMoves
  <2>4. move' \in [Planners -> Moves]
    <3>1. ASSUME NEW v \in Planners PROVE move'[v] \in Moves
      BY <2>1, <2>2, <3>1, OvertakenMoves
    <3>2. move' = [v \in Planners |-> move'[v]]
      BY <2>2 DEF Overtaken
    <3> QED BY <3>1, <3>2
  <2>5. ScreensInv'
    BY <1>1, <1>2, <2>3, <2>4 DEF ScreensInv, PagesOK, MovesInv, EditsOK
  <2>6. \A v \in Planners : move[v].fresh => move'[v] # NoMove
    BY <2>3, FreshIsSent
  <2> QED BY <2>5, <2>6
<1> QED BY <1>3, <1>4

(* What the server does of a move. *)
LEMMA ServeMoveKeeps ==
  ASSUME ScreensInv, NEW u \in Planners, ServeMove(u)
  PROVE  ScreensInv' /\ NothingClearedBut(u)
<1>1. /\ UNCHANGED <<shown, edit>>
      /\ move' = IF card' = card THEN [move EXCEPT ![u] = NoMove] ELSE OvertakenBut(u)
      /\ \/ MovePlanningCard(move[u].card, move[u].tank, move[u].position)
         \/ UNCHANGED card
  BY DEF ServeMove
<1>2. BoardInv'
  <2>1. CASE UNCHANGED card
    BY <2>1, BoardUnchanged DEF ScreensInv
  <2>2. CASE MovePlanningCard(move[u].card, move[u].tank, move[u].position)
    <3>1. move[u] \in Moves
      BY DEF ScreensInv, PagesOK
    <3>2. move[u].card \in Cards
      BY <2>2 DEF MovePlanningCard, Planned
    <3>3. move[u].position \in Nat /\ move[u].tank \in BoardTanks \cup {NoTank}
      BY <3>1 DEF Moves
    <3>4. move[u].tank \in BoardTanks
      BY <3>2 DEF ScreensInv, PagesOK
    <3> QED BY <2>2, <3>2, <3>3, <3>4, MoveKeepsBoard DEF ScreensInv
  <2> QED BY <1>1, <2>1, <2>2
<1>3. PagesOK
  BY DEF ScreensInv
<1>4. CASE card' = card
  <2>1. move' = [move EXCEPT ![u] = NoMove]
    BY <1>1, <1>4
  <2>2. /\ move'[u] = NoMove
        /\ \A v \in Planners \ {u} : move'[v] = move[v]
        /\ move' \in [Planners -> Moves]
    BY <1>3, <2>1, OvertakenMoves DEF PagesOK
  <2>3. NoMove.card \notin Cards /\ NoMove.fresh = FALSE
    BY DEF ScreensInv, PlanAssumption, NoMove
  <2>4. MovesInv'
    BY <1>4, <2>2, <2>3 DEF ScreensInv, MovesInv
  <2>5. PagesOK'
    BY <1>1, <1>3, <2>2, <2>3 DEF PagesOK
  <2>6. NothingClearedBut(u)
    BY <2>2, FreshIsSent DEF NothingClearedBut
  <2> QED BY <1>1, <1>2, <2>4, <2>5, <2>6 DEF ScreensInv, EditsOK
<1>5. CASE card' # card
  <2>1. move' = [v \in Planners |-> IF v = u THEN NoMove ELSE Overtaken[v]]
    BY <1>1, <1>3, <1>5, OvertakenMoves
  <2>2. ASSUME NEW v \in Planners
        PROVE  /\ move'[v] \in Moves /\ move'[v].fresh = FALSE
               /\ v # u => move'[v].card = move[v].card /\ move'[v].tank = move[v].tank
    BY <1>3, <2>1, OvertakenMoves
  <2>3. move' \in [Planners -> Moves]
    BY <2>1, <2>2
  <2>4. NoMove.card \notin Cards /\ move'[u] = NoMove
    BY <2>1 DEF ScreensInv, PlanAssumption, NoMove
  <2>5. PagesOK'
    BY <1>1, <1>3, <2>2, <2>3, <2>4 DEF PagesOK
  <2>6. NothingClearedBut(u)
    BY <2>2, FreshIsSent DEF NothingClearedBut
  <2>7. MovesInv'
    BY <2>2 DEF MovesInv
  <2> QED BY <1>1, <1>2, <2>5, <2>6, <2>7 DEF ScreensInv, EditsOK
<1> QED BY <1>4, <1>5

(* A closed dialog has the type of the dialogs. *)
LEMMA NoEditIsClosed ==
  /\ NoEdit.phase = "CLOSED"
  /\ NoEdit \in [card: CardIds, phase: {"CLOSED", "SENT", "READ"},
                 form: Contents \cup {NoContent}, before: CardRows \cup {NoCard}]
BY DEF NoEdit, CardIds

(* Polls and the edit dialogs: no move is touched. *)
LEMMA DialogsKeep ==
  ASSUME ScreensInv, NEW u \in Planners,
         \/ Refresh(u) \/ ReadCard(u)
         \/ \E c \in Cards, o \in Contents : SendEdit(u, c, o)
  PROVE  ScreensInv' /\ move' = move
<1>1. card' = card /\ move' = move
  BY DEF Refresh, ReadCard, SendEdit
<1>2. BoardInv' /\ MovesInv'
  BY <1>1, BoardUnchanged DEF ScreensInv, MovesInv
<1>3. card \in Boards
  BY DEF ScreensInv, BoardInv, BoardTypeOK, Boards
<1>4. PagesOK'
  BY <1>1, <1>3 DEF ScreensInv, PagesOK, Refresh, ReadCard, SendEdit
<1>5. EditsOK'
  <2> DEFINE e == edit[u]
  <2>0. EditsOK
    BY DEF ScreensInv
  <2>1. CASE Refresh(u)
    BY <2>0, <2>1 DEF Refresh, EditsOK
  <2>2. CASE ReadCard(u)
    <3>1. edit[u].phase = "SENT" /\ edit[u].card \in Cards /\ edit[u].form \in Contents
      BY <2>0, <2>2 DEF ReadCard, EditsOK
    <3>2. CASE edit[u].card \in Planned
      <4>1. edit' = [edit EXCEPT ![u].phase = "READ", ![u].before = card[edit[u].card]]
        BY <2>2, <3>2 DEF ReadCard
      <4>2. card[edit[u].card] \in CardRows \cup {NoCard}
        BY <3>1 DEF ScreensInv, BoardInv, BoardTypeOK
      <4> HIDE DEF CardRows, NoCard
      <4>3. /\ edit' \in [Planners -> [card: CardIds, phase: {"CLOSED", "SENT", "READ"},
                      form: Contents \cup {NoContent}, before: CardRows \cup {NoCard}]]
            /\ edit'[u].card = edit[u].card /\ edit'[u].form = edit[u].form
            /\ \A v \in Planners \ {u} : edit'[v] = edit[v]
        BY <2>0, <4>1, <4>2 DEF EditsOK
      <4> QED BY <2>0, <3>1, <4>3 DEF EditsOK
    <3>3. CASE edit[u].card \notin Planned
      <4>1. edit' = [edit EXCEPT ![u] = NoEdit]
        BY <2>2, <3>3 DEF ReadCard
      <4> QED BY <2>0, <4>1, NoEditIsClosed DEF EditsOK
    <3> QED BY <3>2, <3>3
  <2>3. ASSUME NEW c \in Cards, NEW o \in Contents, SendEdit(u, c, o) PROVE EditsOK'
    <3>1. edit' = [edit EXCEPT ![u] = [card |-> c, phase |-> "SENT", form |-> o,
                                       before |-> NoCard]]
      BY <2>3 DEF SendEdit
    <3>2. c \in CardIds
      BY DEF CardIds
    <3> QED BY <2>0, <2>3, <3>1, <3>2 DEF EditsOK
  <2> QED BY <2>1, <2>2, <2>3
<1> QED BY <1>1, <1>2, <1>4, <1>5 DEF ScreensInv

(* An edit writes the columns of the form. *)
LEMMA WriteCardKeeps ==
  ASSUME ScreensInv, NEW u \in Planners, WriteCard(u)
  PROVE  ScreensInv' /\ move' = move
<1>1. /\ edit[u].phase = "READ" /\ edit' = [edit EXCEPT ![u] = NoEdit]
      /\ UNCHANGED <<shown, move>>
  BY DEF WriteCard
<1>2. edit[u].card \in Cards /\ edit[u].form \in Contents
  BY <1>1 DEF ScreensInv, EditsOK
<1>3. EditsOK'
  BY <1>1, NoEditIsClosed DEF ScreensInv, EditsOK
<1>4. PagesOK'
  BY <1>1 DEF ScreensInv, PagesOK
<1>5. CASE UNCHANGED card
  BY <1>1, <1>3, <1>4, <1>5, BoardUnchanged DEF ScreensInv, MovesInv
<1>6. CASE edit[u].card \in Planned /\ card' = [card EXCEPT ![edit[u].card] = Edited(u)]
  <2> DEFINE c == edit[u].card
             o == edit[u].form
  <2>1. card' = [card EXCEPT ![c] = [card[c] EXCEPT !.order = o]] /\ c \in Planned
    BY <1>6 DEF Edited
  <2>2. card \in [Cards -> CardRows \cup {NoCard}] /\ card[c] \in CardRows
    BY <2>1, PlannedRows DEF ScreensInv, BoardInv, BoardTypeOK
  <2>3. card' = [card EXCEPT ![c].order = o]
    BY <2>1, <2>2, <1>2
  <2>4. BoardInv'
    BY <1>2, <2>1, <2>3, UpdateKeepsBoard DEF ScreensInv, UpdatePlanningCard
  <2>5. \A d \in Cards : card'[d].tank = card[d].tank /\ card'[d].position = card[d].position
    BY <2>1, <2>2, <1>2 DEF CardRows
  <2>6. MovesInv'
    <3>1. ASSUME NEW v \in Planners, move[v].fresh PROVE Meant(move[v], card')
      <4>1. Meant(move[v], card)
        BY <3>1 DEF ScreensInv, MovesInv
      <4> QED BY <2>5, <4>1, SamePlaces
    <3> QED BY <1>1, <3>1 DEF MovesInv
  <2> QED BY <1>1, <1>3, <1>4, <2>4, <2>6 DEF ScreensInv
<1> QED BY <1>5, <1>6 DEF WriteCard

(* The steps of the page and of the server. *)
LEMMA ScreensStep ==
  ASSUME ScreensInv, PlanNext
  PROVE  /\ ScreensInv'
         /\ \/ \A v \in Planners : move[v].fresh => move'[v] # NoMove
            \/ \E u \in Planners : ServeMove(u) /\ NothingClearedBut(u)
<1>1. CASE RestOfThePlant
  BY <1>1, RestKeeps
<1>2. ASSUME NEW u \in Planners,
             \/ \E c, d \in Cards : DropOnCard(u, c, d) \/ MoveBy(u, c, d)
             \/ \E c \in Cards, t \in BoardTanks :
                  DropOnColumn(u, c, t) \/ MoveToAdjacentTank(u, c, t)
      PROVE  ScreensInv' /\ \A v \in Planners : move[v].fresh => move'[v] # NoMove
  <2>1. ScreensInv' /\ move'[u] # NoMove /\ \A v \in Planners \ {u} : move'[v] = move[v]
    BY <1>2, DropOnCardKeeps, MoveByKeeps, DropOnColumnKeeps
  <2> QED BY <2>1, FreshIsSent
<1>3. ASSUME NEW u \in Planners,
             \/ Refresh(u) \/ ReadCard(u) \/ WriteCard(u)
             \/ \E c \in Cards, o \in Contents : SendEdit(u, c, o)
      PROVE  ScreensInv' /\ \A v \in Planners : move[v].fresh => move'[v] # NoMove
  <2>1. ScreensInv' /\ move' = move
    BY <1>3, DialogsKeep, WriteCardKeeps
  <2> QED BY <2>1, FreshIsSent
<1>4. ASSUME NEW u \in Planners, ServeMove(u) PROVE ScreensInv' /\ NothingClearedBut(u)
  BY <1>4, ServeMoveKeeps
<1> QED BY <1>1, <1>2, <1>3, <1>4 DEF PlanNext

(* A served move puts the card where it was meant. *)
LEMMA ServedAsMeant ==
  ASSUME BoardInv, NEW m, m.position \in Nat, Meant(m, card),
         MovePlanningCard(m.card, m.tank, m.position)
  PROVE  LandsAsMeant(m, card')
<1> DEFINE c == m.card
           t == m.tank
           p == m.position
           target == On(t) \ {c}
           index == SpliceIndex(p, target)
           n == Cardinality(target)
<1>1. c \in Cards /\ t \in BoardTanks /\ c \in Planned
  BY DEF Meant, MovePlanningCard
<1>2. /\ card'[c].tank = t /\ card'[c].position = index
      /\ \A d \in Cards \ {c} : card'[d].tank = card[d].tank
      /\ \A d \in target : card'[d].position = RankAround(card, target, d, index)
  BY <1>1, MovedRows
<1>3. /\ InSequence(card, On(t)) /\ IsFiniteSet(On(t)) /\ IsFiniteSet(target)
      /\ t # NoTank /\ \A d \in On(t) : card[d].position \in Nat
  BY <1>1, LaneFacts, NoTankIsNoTank, FS_RemoveElement DEF BoardInv, ListsInSequence
<1>4. {d \in Cards : card[d].tank = t} = On(t)
  BY DEF On
<1>5. n \in Nat
  BY <1>3, FS_CardinalityType
<1>6. \A d \in target : Rank(card, target, d) \in 0 .. (n - 1)
  BY <1>3, RanksInSequence DEF Ranked
<1>7. \A d \in target : Rank(card, target, d) =
        IF c \in On(t) THEN ClosedGap(card, c, d) ELSE card[d].position
  <2>1. CASE c \in On(t)
    BY <2>1, <1>3, RankWithout
  <2>2. CASE c \notin On(t)
    <3>1. target = On(t)
      BY <2>2
    <3> QED BY <2>2, <3>1, <1>3, RankIsPosition
  <2> QED BY <2>1, <2>2
<1>8. CASE m.side = "BEFORE"
  <2> DEFINE d == m.by
  <2>1. /\ d \in target
        /\ p = IF c \in On(t) /\ card[c].position < card[d].position
               THEN card[d].position - 1 ELSE card[d].position
    BY <1>4, <1>8 DEF Meant
  <2>2. c \in On(t) => card[c].position # card[d].position
    BY <2>1, <1>3 DEF InSequence
  <2>3. Rank(card, target, d) = p
    BY <2>1, <2>2, <1>3, <1>7 DEF ClosedGap
  <2>6. p \in 0 .. (Cardinality(target) - 1)
    BY <2>1, <2>3, <1>6
  <2>7. Cardinality(target) \in Nat
    BY <1>5
  <2> HIDE DEF target
  <2>4. index = p
    BY <2>6, <2>7 DEF SpliceIndex
  <2>5. card'[d].position = p + 1
    BY <2>1, <2>3, <2>4, <1>2 DEF RankAround
  <2> QED BY <1>2, <1>8, <2>4, <2>5 DEF LandsAsMeant
<1>9. CASE m.side = "AFTER"
  <2> DEFINE d == m.by
  <2>1. /\ d \in On(t) /\ c \in On(t)
        /\ card[d].position = card[c].position + 1 /\ p = card[c].position + 1
    BY <1>4, <1>9 DEF Meant
  <2>2. d \in target
    BY <2>1, <1>3
  <2>6. card[c].position \in Nat /\ card[d].position \in Nat
    BY <2>1, <1>3
  <2>3. Rank(card, target, d) = p - 1
    <3>1. Rank(card, target, d) = ClosedGap(card, c, d)
      BY <2>1, <2>2, <1>7
    <3> HIDE DEF target
    <3> QED BY <3>1, <2>1, <2>6 DEF ClosedGap
  <2>7. p - 1 \in 0 .. (Cardinality(target) - 1) /\ Cardinality(target) \in Nat
    BY <2>2, <2>3, <1>5, <1>6
  <2> HIDE DEF target
  <2>4. index = p
    BY <2>1, <2>6, <2>7 DEF SpliceIndex
  <2>5. card'[d].position = p - 1
    BY <2>1, <2>2, <2>3, <2>4, <2>6, <1>2 DEF RankAround
  <2> QED BY <1>2, <1>9, <2>4, <2>5 DEF LandsAsMeant
<1>10. CASE m.side # "BEFORE" /\ m.side # "AFTER"
  <2>1. p >= n
    BY <1>4, <1>10 DEF Meant
  <2>2. index = n
    BY <2>1, <1>5 DEF SpliceIndex
  <2>3. {d \in Cards : card'[d].tank = t} = target \cup {c}
    BY <1>1, <1>2 DEF On
  <2>4. Cardinality(target \cup {c}) = n + 1
    BY <1>3, FS_AddElement
  <2> HIDE DEF target, n, index
  <2>5. Cardinality({d \in Cards : card'[d].tank = m.tank}) = n + 1
    BY <2>3, <2>4
  <2> QED BY <1>2, <1>5, <1>10, <2>2, <2>5 DEF LandsAsMeant
<1> QED BY <1>8, <1>9, <1>10

(* For any tanks, cards and planners: a card moved on a board nobody has     *)
(* changed since lands just above the card under the pointer, past the       *)
(* neighbour of its arrow, or last, although page and service count places   *)
(* over different lists (PlanningBoardPage.tsx 182-194, plant.service.ts     *)
(* 297-315); and no screen or edit takes the lists out of sequence.          *)
THEOREM MovesLandWhereDropped ==
  PlanAssumption => (PlanSpec => []ListsInSequence /\ [][MoveLandsAsShown]_planVars)
<1>1. PlanAssumption /\ PlanInit => ScreensInv
  <2> SUFFICES ASSUME PlanAssumption, PlanInit PROVE ScreensInv
    OBVIOUS
  <2>1. BoardInv
    BY BoardStart DEF PlanInit
  <2>2. PagesOK
    <3>1. card \in Boards
      BY <2>1 DEF BoardInv, BoardTypeOK, Boards
    <3>2. NoMove \in Moves /\ NoMove.card \notin Cards
      BY DEF NoMove, Moves, CardIds, PlanAssumption
    <3> QED BY <3>1, <3>2 DEF PlanInit, PagesOK
  <2>3. MovesInv /\ EditsOK
    BY NoEditIsClosed DEF PlanInit, MovesInv, EditsOK, NoMove
  <2> QED BY <2>1, <2>2, <2>3 DEF ScreensInv
<1>2. ScreensInv /\ [PlanNext]_planVars => ScreensInv' /\ [MoveLandsAsShown]_planVars
  <2>1. ASSUME ScreensInv, UNCHANGED planVars PROVE ScreensInv'
    BY <2>1, BoardUnchanged DEF planVars, ScreensInv, PagesOK, MovesInv, EditsOK
  <2>2. ASSUME ScreensInv, PlanNext PROVE MoveLandsAsShown
    <3>1. CASE \A v \in Planners : move[v].fresh => move'[v] # NoMove
      BY <3>1 DEF MoveLandsAsShown
    <3>2. ASSUME NEW u \in Planners, ServeMove(u), NothingClearedBut(u), move[u].fresh
          PROVE  LandsAsMeant(move[u], card')
      <4>1. Meant(move[u], card)
        BY <2>2, <3>2 DEF ScreensInv, MovesInv
      <4>2. move[u].card \in Planned
        BY <4>1 DEF Meant, Planned
      <4>3. MovePlanningCard(move[u].card, move[u].tank, move[u].position)
        BY <3>2, <4>2 DEF ServeMove
      <4>4. move[u].position \in Nat
        BY <2>2 DEF ScreensInv, PagesOK, Moves
      <4> QED BY <2>2, <4>1, <4>3, <4>4, ServedAsMeant DEF ScreensInv
    <3>3. ASSUME NEW u \in Planners, ServeMove(u), NothingClearedBut(u)
          PROVE  MoveLandsAsShown
      BY <3>2, <3>3 DEF MoveLandsAsShown, NothingClearedBut
    <3> QED BY <2>2, <3>1, <3>3, ScreensStep
  <2> QED BY <2>1, <2>2, ScreensStep
<1>3. ScreensInv => ListsInSequence
  BY DEF ScreensInv, BoardInv
<1> QED BY <1>1, <1>2, <1>3, PTL DEF PlanSpec

-----------------------------------------------------------------------------
(* A planner in front of the packaging board (PackagingPlanScreens).         *)

CONSTANT UsedStates
VARIABLES dispenser, tankState, displayed, dragged, form, save

Q == INSTANCE PackagingPlanScreens WITH shown <- displayed, move <- dragged

(* The instance counts as its modules do. *)
LEMMA SameCount == \A S : Q!Cardinality(S) = Cardinality(S)
<1> SUFFICES ASSUME NEW S PROVE Q!Cardinality(S) = Cardinality(S)
  OBVIOUS
<1> QED BY DEF Q!Cardinality, Cardinality

(* The operations of the queue are those of PackagingBoard. *)
LEMMA SameOperations ==
  /\ Q!Queue = Queue
  /\ \A c, t, state : Q!CreatePackagingPlanningCard(c, t, state)
                        <=> CreatePackagingPlanningCard(c, t, state)
  /\ \A c, t, state : Q!UpdatePackagingPlanningCard(c, t, state)
                        <=> UpdatePackagingPlanningCard(c, t, state)
  /\ \A c, p : Q!MovePackagingPlanningCard(c, p) <=> MovePackagingPlanningCard(c, p)
  /\ \A c : Q!DeletePackagingPlanningCard(c) <=> DeletePackagingPlanningCard(c)
  /\ \A t : Q!ConsumePackagingPlanningCard(t) <=> ConsumePackagingPlanningCard(t)
<1>1. Q!Queue = Queue /\ \A t : Q!CardsOf(t) = CardsOf(t)
  BY DEF Q!Queue, Queue, Q!CardsOf, CardsOf
<1>2. ASSUME NEW lane, NEW d, NEW p
      PROVE  /\ Q!SpliceIndex(p, lane) = SpliceIndex(p, lane)
             /\ Q!RankAround(packCard, lane, d, p) = RankAround(packCard, lane, d, p)
  BY SameCount DEF Q!SpliceIndex, SpliceIndex, Q!RankAround, RankAround, Q!Rank, Rank
<1>3. ASSUME NEW c PROVE Q!QueueWithout(c) = QueueWithout(c)
  <2>1. ASSUME NEW d PROVE Q!ClosedGap(packCard, c, d) = ClosedGap(packCard, c, d)
    BY DEF Q!ClosedGap, ClosedGap
  <2>2. Q!NoPackCard = NoPackCard
    BY DEF Q!NoPackCard, NoPackCard
  <2> QED BY <1>1, <2>1, <2>2 DEF Q!QueueWithout, QueueWithout
<1>4. \A c, t, state : Q!CreatePackagingPlanningCard(c, t, state)
                        <=> CreatePackagingPlanningCard(c, t, state)
  BY <1>1, SameCount DEF Q!CreatePackagingPlanningCard, CreatePackagingPlanningCard, Q!Plannable, Plannable
<1>5. \A c, t, state : Q!UpdatePackagingPlanningCard(c, t, state)
                        <=> UpdatePackagingPlanningCard(c, t, state)
  BY <1>1 DEF Q!UpdatePackagingPlanningCard, UpdatePackagingPlanningCard, Q!Plannable, Plannable
<1>6. ASSUME NEW c, NEW p
      PROVE  Q!MovePackagingPlanningCard(c, p) <=> MovePackagingPlanningCard(c, p)
  <2> DEFINE others == Queue \ {c}
             i == SpliceIndex(p, others)
             theirs(d) == Q!RankAround(packCard, others, d, i)
             ours(d) == RankAround(packCard, others, d, i)
             moved(place(_)) ==
               [d \in PackCards |->
                  IF d = c THEN [packCard[d] EXCEPT !.position = i]
                  ELSE IF d \in others THEN [packCard[d] EXCEPT !.position = place(d)]
                  ELSE packCard[d]]
  <2>1. Q!SpliceIndex(p, others) = i /\ \A d : theirs(d) = ours(d)
    BY <1>2
  <2>2. Q!MovePackagingPlanningCard(c, p) <=> c \in Queue /\ packCard' = moved(theirs)
    BY <1>1, <2>1 DEF Q!MovePackagingPlanningCard
  <2>3. MovePackagingPlanningCard(c, p) <=> c \in Queue /\ packCard' = moved(ours)
    BY DEF MovePackagingPlanningCard
  <2> HIDE DEF i, theirs, ours
  <2>4. moved(theirs) = moved(ours)
    BY <2>1
  <2> HIDE DEF moved
  <2> QED BY <2>2, <2>3, <2>4
<1>7. \A c : Q!DeletePackagingPlanningCard(c) <=> DeletePackagingPlanningCard(c)
  BY <1>1, <1>3 DEF Q!DeletePackagingPlanningCard, DeletePackagingPlanningCard
<1>8. \A t : Q!ConsumePackagingPlanningCard(t) <=> ConsumePackagingPlanningCard(t)
  BY <1>1, <1>3 DEF Q!ConsumePackagingPlanningCard, ConsumePackagingPlanningCard
<1> QED BY <1>1, <1>4, <1>5, <1>6, <1>7, <1>8

(* A move decided on the queue as it is: the card is planned, the place is    *)
(* one of the queue and, if it is meant for another card, that card's place.  *)
MeantInQueue(m) ==
  /\ m.card \in Queue /\ m.position \in 0 .. (Cardinality(Queue) - 1)
  /\ m.by # NoCardId => m.by \in Queue \ {m.card} /\ m.position = packCard[m.by].position

DraggedOK ==
  /\ displayed.card \in [PackCards -> PackRows \cup {NoPackCard}]
  /\ dragged \in [card: Q!CardIds, column: Q!Columns, position: Nat, by: Q!CardIds, fresh: BOOLEAN]
  /\ displayed.column \in [PackCards -> Q!Columns] /\ dispenser \in [PackCards -> Q!Columns]
DraggedInv == dragged.fresh => MeantInQueue(dragged)

(* A request of the dialog, and what is true of one that the page would      *)
(* still offer.                                                              *)
Saves == [sent: BOOLEAN, card: Q!CardIds, tank: Q!TankOrNone, column: Q!Columns,
          fresh: BOOLEAN, offered: BOOLEAN, answer: {"NONE", "ACCEPTED", "REFUSED"}]
DialogOK ==
  /\ form \in [open: BOOLEAN, card: Q!CardIds, tank: Q!TankOrNone, column: Q!Columns]
  /\ save \in Saves
  /\ save.sent => save.tank \in BoardTanks
OfferedInv ==
  /\ save.fresh /\ save.offered => save.answer # "REFUSED"
  /\ save.sent /\ save.fresh /\ save.offered /\ save.answer = "NONE" => Q!Acceptable

PlannerInv ==
  /\ NoCardId \notin PackCards
  /\ PackInv /\ DraggedOK /\ DraggedInv /\ DialogOK /\ OfferedInv

(* The page sends a move. *)
LEMMA SendsKeep ==
  ASSUME PlannerInv, NEW c \in PackCards, NEW x \in Q!Columns, NEW p \in Nat,
         NEW by \in Q!CardIds, Q!Send(c, x, p, by),
         displayed = Q!Board => MeantInQueue([card |-> c, column |-> x, position |-> p,
                                              by |-> by, fresh |-> TRUE])
  PROVE  PlannerInv' /\ dragged = Q!NoMove
<1>1. /\ dragged = Q!NoMove
      /\ dragged' = [card |-> c, column |-> x, position |-> p, by |-> by,
                     fresh |-> displayed = Q!Board]
      /\ UNCHANGED <<packCard, dispenser, tankState, displayed, form, save>>
  BY DEF Q!Send, Q!server
<1>2. DraggedOK'
  <2>1. dragged' \in [card: Q!CardIds, column: Q!Columns, position: Nat, by: Q!CardIds, fresh: BOOLEAN]
    BY <1>1 DEF Q!CardIds
  <2> QED BY <1>1, <2>1 DEF PlannerInv, DraggedOK
<1>3. DraggedInv'
  <2>1. ASSUME dragged'.fresh PROVE MeantInQueue(dragged')
    <3>1. displayed = Q!Board
      BY <1>1, <2>1
    <3>2. /\ dragged'.card = c /\ dragged'.position = p /\ dragged'.by = by
      BY <1>1
    <3> QED BY <3>1, <3>2 DEF MeantInQueue
  <2>2. MeantInQueue(dragged)' <=> MeantInQueue(dragged')
    BY <1>1 DEF MeantInQueue, Queue
  <2> QED BY <2>1, <2>2 DEF DraggedInv
<1>4. PackInv'
  BY <1>1, QueueUnchanged DEF PlannerInv
<1>5. DialogOK' /\ OfferedInv'
  BY <1>1 DEF PlannerInv, DialogOK, OfferedInv, Q!Acceptable, Q!Plannable, Q!CardsOf, Q!Queue
<1> QED BY <1>1, <1>2, <1>3, <1>4, <1>5 DEF PlannerInv

(* What the page shows. *)
LEMMA DisplayedFacts ==
  ASSUME PlannerInv
  PROVE  /\ Q!ShownCards \subseteq PackCards /\ IsFiniteSet(Q!ShownCards)
         /\ Cardinality(Q!ShownCards) \in Nat
         /\ \A c \in Q!ShownCards : Q!Place(c) \in Nat /\ displayed.column[c] \in Q!Columns
         /\ displayed = Q!Board =>
              /\ Q!ShownCards = Queue
              /\ \A c \in Queue : /\ Q!Place(c) = packCard[c].position
                                  /\ packCard[c].position \in 0 .. (Cardinality(Queue) - 1)
<1>1. /\ displayed.card \in [PackCards -> PackRows \cup {NoPackCard}]
      /\ displayed.column \in [PackCards -> Q!Columns]
  BY DEF PlannerInv, DraggedOK
<1>2. Q!ShownCards \subseteq PackCards
  BY DEF Q!ShownCards
<1>3. IsFiniteSet(Q!ShownCards) /\ Cardinality(Q!ShownCards) \in Nat
  BY <1>2, PackCardsFinite, FS_Subset, FS_CardinalityType
<1>4. \A c \in Q!ShownCards : Q!Place(c) \in Nat
  BY <1>1, <1>2 DEF Q!ShownCards, Q!Place, PackRows, NoPackCard
<1>5. ASSUME displayed = Q!Board PROVE displayed.card = packCard
  BY <1>5 DEF Q!Board
<1>6. \A c \in Queue : packCard[c].position \in 0 .. (Cardinality(Queue) - 1)
  BY NumberedLane DEF PlannerInv, PackInv, QueueInSequence
<1> QED BY <1>1, <1>2, <1>3, <1>4, <1>5, <1>6 DEF Q!ShownCards, Queue, Q!Place

(* A card is dropped, or moved by an arrow or by the button to the other     *)
(* column: the place is that of a card the page shows.                       *)
LEMMA DragsKeep ==
  ASSUME PlannerInv,
         \/ \E c, d \in PackCards : Q!DropOnCard(c, d) \/ Q!MoveUp(c, d) \/ Q!MoveDown(c, d)
         \/ \E c \in PackCards : Q!MoveToOther(c) \/ \E x \in Q!Columns : Q!DropOnColumn(c, x)
  PROVE  PlannerInv' /\ dragged = Q!NoMove
<1>0. NoCardId \in Q!CardIds /\ PackCards \subseteq Q!CardIds
  BY DEF Q!CardIds
<1>1. ASSUME NEW c \in PackCards, NEW d \in PackCards,
             Q!DropOnCard(c, d) \/ Q!MoveUp(c, d) \/ Q!MoveDown(c, d)
      PROVE  PlannerInv' /\ dragged = Q!NoMove
  <2>1. PICK x \in Q!Columns : Q!Send(c, x, Q!Place(d), d)
    <3>1. c \in Q!ShownCards /\ d \in Q!ShownCards
      BY <1>1 DEF Q!DropOnCard, Q!MoveUp, Q!MoveDown, Q!Send
    <3> QED BY <1>1, <3>1, DisplayedFacts DEF Q!DropOnCard, Q!MoveUp, Q!MoveDown
  <2>2. c \in Q!ShownCards /\ d \in Q!ShownCards /\ c # d
    <3>1. c \in Q!ShownCards /\ d \in Q!ShownCards
      BY <1>1 DEF Q!DropOnCard, Q!MoveUp, Q!MoveDown, Q!Send
    <3>2. Q!Place(c) \in Nat
      BY <3>1, DisplayedFacts
    <3> QED BY <1>1, <3>1, <3>2 DEF Q!DropOnCard, Q!MoveUp, Q!MoveDown
  <2>3. Q!Place(d) \in Nat
    BY <2>2, DisplayedFacts
  <2>4. displayed = Q!Board => MeantInQueue([card |-> c, column |-> x, position |-> Q!Place(d),
                                             by |-> d, fresh |-> TRUE])
    BY <2>2, DisplayedFacts DEF MeantInQueue
  <2> QED BY <1>0, <2>1, <2>3, <2>4, SendsKeep
<1>2. ASSUME NEW c \in PackCards, Q!MoveToOther(c) PROVE PlannerInv' /\ dragged = Q!NoMove
  <2>1. PICK x \in Q!Columns : Q!Send(c, x, Q!Place(c), NoCardId) /\ c \in Q!ShownCards
    <3>1. Q!OtherColumn(displayed.column[c]) \in Q!Columns
      BY DEF Q!OtherColumn, Q!Columns
    <3> QED BY <1>2, <3>1 DEF Q!MoveToOther
  <2>2. Q!Place(c) \in Nat
    BY <2>1, DisplayedFacts
  <2>3. displayed = Q!Board => MeantInQueue([card |-> c, column |-> x, position |-> Q!Place(c),
                                             by |-> NoCardId, fresh |-> TRUE])
    BY <2>1, DisplayedFacts DEF MeantInQueue
  <2> QED BY <1>0, <2>1, <2>2, <2>3, SendsKeep
<1>3. ASSUME NEW c \in PackCards, NEW x \in Q!Columns, Q!DropOnColumn(c, x)
      PROVE  PlannerInv' /\ dragged = Q!NoMove
  <2> DEFINE p == Cardinality(Q!ShownCards) - 1
  <2>0. /\ Q!Send(c, x, p, NoCardId) /\ Q!ShownCards # {}
    BY <1>3, SameCount DEF Q!DropOnColumn
  <2>1. /\ Q!Send(c, x, p, NoCardId) /\ Q!ShownCards # {} /\ c \in Q!ShownCards
    BY <2>0 DEF Q!Send
  <2>2. p \in Nat
    <3>1. Cardinality(Q!ShownCards) # 0 /\ Cardinality(Q!ShownCards) \in Nat
      BY <2>1, DisplayedFacts, FS_EmptySet
    <3> QED BY <3>1
  <2>3. displayed = Q!Board => p \in 0 .. (Cardinality(Queue) - 1) /\ c \in Queue
    BY <2>1, <2>2, DisplayedFacts
  <2> HIDE DEF p
  <2>4. displayed = Q!Board => MeantInQueue([card |-> c, column |-> x, position |-> p,
                                             by |-> NoCardId, fresh |-> TRUE])
    BY <2>3 DEF MeantInQueue
  <2> QED BY <1>0, <2>1, <2>2, <2>4, SendsKeep
<1> QED BY <1>1, <1>2, <1>3

(* A request decided on what the server no longer holds. *)
LEMMA StaleRequests ==
  ASSUME DraggedOK, DialogOK
  PROVE  /\ LET m == [dragged EXCEPT !.fresh = FALSE]
            IN /\ m \in [card: Q!CardIds, column: Q!Columns, position: Nat, by: Q!CardIds, fresh: BOOLEAN]
               /\ m.fresh = FALSE /\ m.card = dragged.card
         /\ LET r == [save EXCEPT !.fresh = FALSE]
            IN r \in Saves /\ r.fresh = FALSE /\ r.sent = save.sent /\ r.tank = save.tank
BY DEF DraggedOK, DialogOK, Saves

(* A request of no move names no card. *)
LEMMA NoMoveFacts ==
  ASSUME PlannerInv
  PROVE  /\ Q!NoMove \in [card: Q!CardIds, column: Q!Columns, position: Nat, by: Q!CardIds,
                          fresh: BOOLEAN]
         /\ Q!NoMove.fresh = FALSE
         /\ dragged.fresh => dragged.card # Q!NoMove.card
<1>1. Q!NoMove \in [card: Q!CardIds, column: Q!Columns, position: Nat, by: Q!CardIds, fresh: BOOLEAN]
      /\ Q!NoMove.fresh = FALSE /\ Q!NoMove.card = NoCardId
  BY DEF Q!NoMove, Q!CardIds, Q!Columns
<1>2. dragged.fresh => dragged.card \in PackCards
  BY DEF PlannerInv, DraggedInv, MeantInQueue, Queue
<1> QED BY <1>1, <1>2 DEF PlannerInv

(* A move is answered. *)
LEMMA ServesKeep ==
  ASSUME PlannerInv, Q!ServeMove
  PROVE  PlannerInv'
<1>1. /\ dragged' = Q!NoMove /\ save' = [save EXCEPT !.fresh = FALSE]
      /\ UNCHANGED <<tankState, displayed, form>>
  BY DEF Q!ServeMove
<1>2. \/ /\ MovePackagingPlanningCard(dragged.card, dragged.position)
         /\ dispenser' = [dispenser EXCEPT ![dragged.card] = dragged.column]
      \/ UNCHANGED <<packCard, dispenser>>
  BY SameOperations DEF Q!ServeMove
<1>3. PackInv'
  <2>1. CASE MovePackagingPlanningCard(dragged.card, dragged.position)
    <3>1. dragged.card \in PackCards
      BY <2>1 DEF MovePackagingPlanningCard, Queue
    <3>2. dragged.position \in Nat
      BY DEF PlannerInv, DraggedOK
    <3> QED BY <2>1, <3>1, <3>2, MoveKeepsQueue DEF PlannerInv
  <2>2. CASE UNCHANGED packCard
    BY <2>2, QueueUnchanged DEF PlannerInv
  <2> QED BY <1>2, <2>1, <2>2
<1>4. dispenser' \in [PackCards -> Q!Columns]
  BY <1>2 DEF PlannerInv, DraggedOK
<1>5. DraggedOK' /\ DraggedInv'
  BY <1>1, <1>4, NoMoveFacts DEF PlannerInv, DraggedOK, DraggedInv
<1>6. DialogOK' /\ OfferedInv'
  BY <1>1, StaleRequests DEF PlannerInv, DialogOK, OfferedInv
<1> QED BY <1>3, <1>5, <1>6 DEF PlannerInv

(* Other planners and the operators. *)
LEMMA PlantKeeps ==
  ASSUME PlannerInv, Q!RestOfThePlant
  PROVE  PlannerInv' /\ dragged'.card = dragged.card
<1>1. /\ dragged' = [dragged EXCEPT !.fresh = FALSE]
      /\ save' = [save EXCEPT !.fresh = FALSE]
      /\ UNCHANGED <<displayed, form, dispenser>>
  BY DEF Q!RestOfThePlant, Q!Overtaken
<1>2. PackInv'
  <2>1. \/ \E c \in PackCards, t \in BoardTanks : CreatePackagingPlanningCard(c, t, tankState)
        \/ \E c \in PackCards : DeletePackagingPlanningCard(c)
        \/ \E t \in BoardTanks : ConsumePackagingPlanningCard(t)
        \/ UNCHANGED packCard
    BY SameOperations DEF Q!RestOfThePlant
  <2>2. \A c \in PackCards, t \in BoardTanks :
          CreatePackagingPlanningCard(c, t, tankState) => PackInv'
    BY CreateKeepsQueue DEF PlannerInv
  <2>3. \A c \in PackCards : DeletePackagingPlanningCard(c) => PackInv'
    BY RemovalKeepsQueue DEF PlannerInv, DeletePackagingPlanningCard
  <2>4. \A t \in BoardTanks : ConsumePackagingPlanningCard(t) => PackInv'
    BY ConsumeKeepsQueue DEF PlannerInv
  <2>5. UNCHANGED packCard => PackInv'
    BY QueueUnchanged DEF PlannerInv
  <2> QED BY <2>1, <2>2, <2>3, <2>4, <2>5
<1>3. DraggedOK' /\ DraggedInv' /\ dragged'.card = dragged.card
  BY <1>1, StaleRequests DEF PlannerInv, DraggedOK, DraggedInv
<1>4. DialogOK' /\ OfferedInv'
  BY <1>1, StaleRequests DEF PlannerInv, DialogOK, OfferedInv
<1> QED BY <1>2, <1>3, <1>4 DEF PlannerInv

(* A poll is answered. *)
LEMMA RefreshKeeps ==
  ASSUME PlannerInv, Q!Refresh
  PROVE  PlannerInv' /\ dragged' = dragged
<1>1. /\ displayed' = Q!Board
      /\ UNCHANGED <<packCard, dispenser, tankState, dragged, form, save>>
  BY DEF Q!Refresh, Q!server
<1>2. displayed'.card = packCard /\ displayed'.column = dispenser
  BY <1>1 DEF Q!Board
<1>3. DraggedOK'
  BY <1>1, <1>2 DEF PlannerInv, DraggedOK, PackInv, PackBoardTypeOK, PackRows
<1>4. PackInv'
  BY <1>1, QueueUnchanged DEF PlannerInv
<1>5. DraggedInv' /\ DialogOK' /\ OfferedInv'
  BY <1>1 DEF PlannerInv, DraggedInv, MeantInQueue, Queue, DialogOK, OfferedInv, Q!Acceptable,
    Q!Plannable, Q!CardsOf, Q!Queue
<1> QED BY <1>1, <1>3, <1>4, <1>5 DEF PlannerInv

(* The dialog is opened, filled and closed. *)
LEMMA FormsKeep ==
  ASSUME PlannerInv,
         \/ \E x \in Q!Columns : Q!OpenCreate(x)
         \/ \E c \in PackCards : Q!OpenEdit(c)
         \/ \E t \in BoardTanks : Q!SelectTank(t)
         \/ Q!CloseDialog \/ Q!ReceiveSave
  PROVE  PlannerInv' /\ dragged' = dragged
<1>1. UNCHANGED <<packCard, dispenser, tankState, displayed, dragged>>
  BY DEF Q!OpenCreate, Q!OpenEdit, Q!SelectTank, Q!CloseDialog, Q!ReceiveSave, Q!server
<1>2. save' \in {save, Q!NoSave}
  BY DEF Q!OpenCreate, Q!OpenEdit, Q!SelectTank, Q!CloseDialog, Q!ReceiveSave
<1>3. Q!NoSave \in Saves /\ Q!NoSave.sent = FALSE /\ Q!NoSave.fresh = FALSE
  BY DEF Q!NoSave, Saves, Q!CardIds, Q!TankOrNone, Q!Columns
<1>4. form' \in [open: BOOLEAN, card: Q!CardIds, tank: Q!TankOrNone, column: Q!Columns]
  <2> USE DEF Q!CardIds, Q!TankOrNone
  <2>0. form \in [open: BOOLEAN, card: Q!CardIds, tank: Q!TankOrNone, column: Q!Columns]
    BY DEF PlannerInv, DialogOK
  <2>1. Q!NoForm \in [open: BOOLEAN, card: Q!CardIds, tank: Q!TankOrNone, column: Q!Columns]
    BY DEF Q!NoForm, Q!Columns
  <2>2. ASSUME NEW x \in Q!Columns, Q!OpenCreate(x)
        PROVE  form' \in [open: BOOLEAN, card: Q!CardIds, tank: Q!TankOrNone, column: Q!Columns]
    BY <2>1, <2>2 DEF Q!OpenCreate
  <2>3. ASSUME NEW c \in PackCards, Q!OpenEdit(c)
        PROVE  form' \in [open: BOOLEAN, card: Q!CardIds, tank: Q!TankOrNone, column: Q!Columns]
    <3>1. displayed.card[c].tank \in BoardTanks \cup {NoTank} /\ displayed.column[c] \in Q!Columns
      BY DEF PlannerInv, DraggedOK, PackRows, NoPackCard
    <3> QED BY <2>3, <3>1 DEF Q!OpenEdit
  <2>4. ASSUME NEW t \in BoardTanks, Q!SelectTank(t)
        PROVE  form' \in [open: BOOLEAN, card: Q!CardIds, tank: Q!TankOrNone, column: Q!Columns]
    BY <2>0, <2>4 DEF Q!SelectTank
  <2>5. CASE Q!CloseDialog \/ Q!ReceiveSave
    BY <2>0, <2>1, <2>5 DEF Q!CloseDialog, Q!ReceiveSave
  <2> QED BY <2>2, <2>3, <2>4, <2>5
<1>5. PackInv'
  BY <1>1, QueueUnchanged DEF PlannerInv
<1>6. DraggedOK' /\ DraggedInv'
  BY <1>1 DEF PlannerInv, DraggedOK, DraggedInv, MeantInQueue, Queue
<1>7. DialogOK'
  BY <1>2, <1>3, <1>4 DEF PlannerInv, DialogOK
<1>8. OfferedInv'
  <2>1. CASE save' = save
    BY <1>1, <2>1 DEF PlannerInv, OfferedInv, Q!Acceptable, Q!Plannable, Q!CardsOf, Q!Queue
  <2>2. CASE save' = Q!NoSave
    BY <1>3, <2>2 DEF OfferedInv
  <2> QED BY <1>2, <2>1, <2>2
<1> QED BY <1>1, <1>5, <1>6, <1>7, <1>8 DEF PlannerInv

(* What the page would still offer, on a board that is up to date, is       *)
(* accepted: its rules are those of the service.                            *)
LEMMA SubmitKeeps ==
  ASSUME PlannerInv, Q!Submit
  PROVE  PlannerInv' /\ dragged' = dragged
<1>1. /\ form.tank # NoTank
      /\ save' = [sent |-> TRUE, card |-> form.card, tank |-> form.tank, column |-> form.column,
                  fresh |-> displayed = Q!Board, offered |-> Q!StillOffered, answer |-> "NONE"]
      /\ UNCHANGED <<packCard, dispenser, tankState, displayed, dragged, form>>
  BY DEF Q!Submit, Q!server
<1>2. form \in [open: BOOLEAN, card: Q!CardIds, tank: Q!TankOrNone, column: Q!Columns]
  BY DEF PlannerInv, DialogOK
<1>3. save' \in Saves
  <2>1. Q!StillOffered \in BOOLEAN
    BY DEF Q!StillOffered
  <2> QED BY <1>1, <1>2, <2>1 DEF Saves
<1>4. DialogOK'
  BY <1>1, <1>2, <1>3 DEF DialogOK, Q!TankOrNone
<1>5. ASSUME displayed = Q!Board, Q!StillOffered
      PROVE  /\ Q!Plannable(tankState[form.tank])
             /\ Q!CardsOf(form.tank) \subseteq {form.card}
             /\ IF form.card = NoCardId THEN Q!Cardinality(Q!Queue) < MaxPlanned
                                        ELSE form.card \in Q!Queue
  <2>1. displayed.card = packCard /\ displayed.state = tankState
    BY <1>5 DEF Q!Board
  <2>2. Q!ShownCards = Q!Queue
    BY <2>1 DEF Q!ShownCards, Q!Queue
  <2>3. form.tank \in Q!SelectableTanks
    BY <1>5 DEF Q!StillOffered
  <2>4. Q!Plannable(tankState[form.tank])
    BY <2>1, <2>3 DEF Q!SelectableTanks, Q!Plannable
  <2>5. Q!CardsOf(form.tank) \subseteq {form.card}
    BY <2>1, <2>2, <2>3 DEF Q!SelectableTanks, Q!CardsOf
  <2> QED BY <2>2, <2>4, <2>5, <1>5 DEF Q!StillOffered
<1>6. OfferedInv'
  <2>1. save'.answer = "NONE" /\ save'.card = form.card /\ save'.tank = form.tank
    BY <1>1
  <2>2. ASSUME save'.fresh, save'.offered PROVE Q!Acceptable'
    <3>1. displayed = Q!Board /\ Q!StillOffered
      BY <1>1, <2>2
    <3> QED BY <1>1, <1>5, <2>1, <3>1 DEF Q!Acceptable, Q!Plannable, Q!CardsOf, Q!Queue
  <2> QED BY <2>1, <2>2 DEF OfferedInv
<1>7. PackInv'
  BY <1>1, QueueUnchanged DEF PlannerInv
<1>8. DraggedOK' /\ DraggedInv'
  BY <1>1 DEF PlannerInv, DraggedOK, DraggedInv, MeantInQueue, Queue
<1> QED BY <1>1, <1>4, <1>6, <1>7, <1>8 DEF PlannerInv

(* The service answers the dialog. *)
LEMMA AnswersKeep ==
  ASSUME PlannerInv, Q!ServeSave
  PROVE  PlannerInv' /\ dragged'.card = dragged.card
<1>1. save.sent /\ save.answer = "NONE" /\ save \in Saves /\ save.tank \in BoardTanks
  BY DEF Q!ServeSave, PlannerInv, DialogOK
<1>2. UNCHANGED <<tankState, displayed, form>>
  BY DEF Q!ServeSave
<1>3. CASE /\ Q!SaveNew \/ Q!SaveEdit
           /\ save' = [save EXCEPT !.answer = "ACCEPTED"]
           /\ dragged' = [dragged EXCEPT !.fresh = FALSE]
  <2>1. PackInv' /\ dispenser' \in [PackCards -> Q!Columns]
    <3>1. ASSUME NEW c \in PackCards, CreatePackagingPlanningCard(c, save.tank, tankState),
                 dispenser' = [dispenser EXCEPT ![c] = save.column]
          PROVE  PackInv' /\ dispenser' \in [PackCards -> Q!Columns]
      BY <1>1, <3>1, CreateKeepsQueue DEF PlannerInv, DraggedOK, Saves
    <3>2. ASSUME UpdatePackagingPlanningCard(save.card, save.tank, tankState), UNCHANGED dispenser
          PROVE  PackInv' /\ dispenser' \in [PackCards -> Q!Columns]
      <4>1. save.card \in PackCards
        BY <3>2 DEF UpdatePackagingPlanningCard, Queue
      <4> QED BY <1>1, <3>2, <4>1, UpdateKeepsQueue DEF PlannerInv, DraggedOK
    <3> QED BY <1>3, <3>1, <3>2, SameOperations DEF Q!SaveNew, Q!SaveEdit
  <2>2. save' \in Saves /\ save'.answer = "ACCEPTED" /\ save'.sent = save.sent
        /\ save'.tank = save.tank
    BY <1>1, <1>3 DEF Saves
  <2>3. DialogOK' /\ OfferedInv'
    BY <1>1, <1>2, <2>2 DEF PlannerInv, DialogOK, OfferedInv
  <2>4. DraggedOK' /\ DraggedInv' /\ dragged'.card = dragged.card
    BY <1>2, <1>3, <2>1, StaleRequests DEF PlannerInv, DraggedOK, DraggedInv
  <2> QED BY <2>1, <2>3, <2>4 DEF PlannerInv
<1>4. CASE /\ ~Q!Acceptable /\ save' = [save EXCEPT !.answer = "REFUSED"]
           /\ UNCHANGED <<packCard, dispenser, dragged>>
  <2>1. save' \in Saves /\ save'.answer = "REFUSED" /\ save'.sent = save.sent
        /\ save'.tank = save.tank /\ save'.fresh = save.fresh /\ save'.offered = save.offered
    BY <1>1, <1>4 DEF Saves
  <2>2. ~(save.fresh /\ save.offered)
    BY <1>1, <1>4 DEF PlannerInv, OfferedInv
  <2>3. DialogOK' /\ OfferedInv'
    BY <1>1, <1>2, <2>1, <2>2 DEF PlannerInv, DialogOK, OfferedInv
  <2>4. DraggedOK' /\ DraggedInv'
    BY <1>2, <1>4 DEF PlannerInv, DraggedOK, DraggedInv, MeantInQueue, Queue
  <2>5. PackInv'
    BY <1>4, QueueUnchanged DEF PlannerInv
  <2> QED BY <1>4, <2>3, <2>4, <2>5 DEF PlannerInv
<1> QED BY <1>3, <1>4 DEF Q!ServeSave

(* A served move puts the card in the place it was meant for, next to the    *)
(* card that gave it up.                                                     *)
LEMMA ServedInQueue ==
  ASSUME PlannerInv, dragged.fresh, Q!ServeMove
  PROVE  Q!MoveLandsInQueue
<1> DEFINE c == dragged.card
           p == dragged.position
           others == Queue \ {c}
           index == SpliceIndex(p, others)
<1>1. MeantInQueue(dragged) /\ p \in Nat /\ c \in PackCards /\ c \in Queue
  BY DEF PlannerInv, DraggedInv, DraggedOK, MeantInQueue, Queue
<1>2. /\ MovePackagingPlanningCard(c, p)
      /\ dispenser' = [dispenser EXCEPT ![c] = dragged.column]
  BY <1>1, SameOperations DEF Q!ServeMove
<1>3. dispenser'[c] = dragged.column
  BY <1>1, <1>2 DEF PlannerInv, DraggedOK
<1>4. PackInv
  BY DEF PlannerInv
<1>5. /\ packCard'[c].position = index
      /\ \A d \in others : packCard'[d].position = RankAround(packCard, others, d, index)
  BY <1>1, <1>2, <1>4, MovedQueue
<1>6. /\ IsFiniteSet(Queue) /\ InSequence(packCard, Queue) /\ Cardinality(Queue) \in Nat
      /\ \A d \in Queue : packCard[d].position \in 0 .. (Cardinality(Queue) - 1)
  BY <1>4, QueueFacts, NumberedLane DEF PackInv, QueueInSequence
<1>7. Cardinality(others) = Cardinality(Queue) - 1
  BY <1>1, <1>6, FS_RemoveElement
<1>8. index = p
  <2>1. p \in 0 .. Cardinality(others) /\ Cardinality(others) \in Int
    BY <1>1, <1>6, <1>7 DEF MeantInQueue
  <2> HIDE DEF others, p
  <2> QED BY <2>1 DEF SpliceIndex
<1>9. ASSUME dragged.by # NoCardId
      PROVE  /\ packCard'[c].position = packCard[dragged.by].position
             /\ packCard'[dragged.by].position - packCard'[c].position \in {-1, 1}
  <2> DEFINE d == dragged.by
  <2>1. d \in others /\ d \in Queue /\ p = packCard[d].position
    BY <1>1, <1>9 DEF MeantInQueue
  <2>2. Rank(packCard, others, d) = ClosedGap(packCard, c, d)
    BY <1>1, <1>6, <2>1, RankWithout
  <2>3. packCard'[d].position = RankAround(packCard, others, d, p)
    BY <1>5, <1>8, <2>1
  <2>4. packCard[c].position \in Int /\ packCard[d].position \in Int
    BY <1>1, <1>6, <2>1
  <2> HIDE DEF others, index, c, d
  <2>5. packCard'[d].position \in {p - 1, p + 1}
    BY <2>1, <2>2, <2>3, <2>4 DEF RankAround, ClosedGap
  <2>6. packCard'[c].position = p
    BY <1>5, <1>8
  <2>7. packCard'[d].position - packCard'[c].position \in {-1, 1}
    BY <1>1, <2>5, <2>6
  <2> QED BY <2>1, <2>6, <2>7 DEF c, d
<1> QED BY <1>3, <1>5, <1>8, <1>9 DEF Q!MoveLandsInQueue

(* The planner opens the page on an empty plan. *)
LEMMA PlannerStarts ==
  ASSUME Q!PlanAssumption, Q!PlanInit
  PROVE  PlannerInv
<1>1. NoCardId \notin PackCards
  BY DEF Q!PlanAssumption
<1>2. PackInv
  BY QueueStart DEF Q!PlanInit, Q!PackBoardInit, PackBoardInit, Q!NoPackCard, NoPackCard
<1>3. displayed.card = packCard /\ displayed.column = dispenser
  BY DEF Q!PlanInit, Q!Board
<1>4. dispenser \in [PackCards -> Q!Columns]
  BY DEF Q!PlanInit, Q!Columns
<1>5. dragged = Q!NoMove /\ dragged.fresh = FALSE
  BY DEF Q!PlanInit, Q!NoMove
<1>6. dragged \in [card: Q!CardIds, column: Q!Columns, position: Nat, by: Q!CardIds, fresh: BOOLEAN]
  BY <1>5 DEF Q!NoMove, Q!CardIds, Q!Columns
<1>7. DraggedOK /\ DraggedInv
  BY <1>2, <1>3, <1>4, <1>5, <1>6 DEF DraggedOK, DraggedInv, PackInv, PackBoardTypeOK, PackRows
<1>8. form \in [open: BOOLEAN, card: Q!CardIds, tank: Q!TankOrNone, column: Q!Columns]
  BY DEF Q!PlanInit, Q!NoForm, Q!CardIds, Q!TankOrNone, Q!Columns
<1>9. save \in Saves /\ save.sent = FALSE /\ save.fresh = FALSE
  BY DEF Q!PlanInit, Q!NoSave, Saves, Q!CardIds, Q!TankOrNone, Q!Columns
<1> QED BY <1>1, <1>2, <1>7, <1>8, <1>9 DEF PlannerInv, DialogOK, OfferedInv

(* Nothing happens on this page. *)
LEMMA PlannerStutters ==
  ASSUME PlannerInv, UNCHANGED Q!vars
  PROVE  PlannerInv' /\ Q!MoveLandsInQueue
<1>1. UNCHANGED <<packCard, dispenser, tankState, displayed, dragged, form, save>>
  BY DEF Q!vars, Q!server, Q!screen
<1>2. PackInv'
  BY <1>1, QueueUnchanged DEF PlannerInv
<1>3. DraggedOK' /\ DraggedInv' /\ DialogOK' /\ OfferedInv'
  BY <1>1 DEF PlannerInv, DraggedOK, DraggedInv, MeantInQueue, Queue, DialogOK, OfferedInv,
    Q!Acceptable, Q!Plannable, Q!CardsOf, Q!Queue
<1>4. dragged' # Q!NoMove \/ ~dragged.fresh
  BY <1>1, NoMoveFacts
<1> QED BY <1>2, <1>3, <1>4 DEF PlannerInv, Q!MoveLandsInQueue

(* Only the answer of a move clears one that was decided on the queue as it is. *)
LEMMA PlannerStep ==
  ASSUME PlannerInv, Q!Moving \/ Q!Editing \/ Q!Refresh \/ Q!RestOfThePlant
  PROVE  PlannerInv' /\ Q!MoveLandsInQueue
<1>0. ASSUME dragged = Q!NoMove \/ dragged' = dragged \/ dragged'.card = dragged.card
      PROVE  Q!MoveLandsInQueue
  BY <1>0, NoMoveFacts DEF Q!MoveLandsInQueue
<1>1. CASE Q!ServeMove
  <2>1. ~dragged.fresh => Q!MoveLandsInQueue
    BY DEF Q!MoveLandsInQueue
  <2> QED BY <1>1, <2>1, ServesKeep, ServedInQueue
<1>2. CASE Q!Moving /\ ~Q!ServeMove
  BY <1>0, <1>2, DragsKeep DEF Q!Moving
<1>3. CASE Q!Submit
  BY <1>0, <1>3, SubmitKeeps
<1>4. CASE Q!ServeSave
  BY <1>0, <1>4, AnswersKeep
<1>5. CASE Q!Editing /\ ~Q!Submit /\ ~Q!ServeSave
  BY <1>0, <1>5, FormsKeep DEF Q!Editing
<1>6. CASE Q!Refresh
  BY <1>0, <1>6, RefreshKeeps
<1>7. CASE Q!RestOfThePlant
  BY <1>0, <1>7, PlantKeeps
<1> QED BY <1>1, <1>2, <1>3, <1>4, <1>5, <1>6, <1>7

(* For any cards and tanks: a card moved on a queue nobody has changed since *)
(* takes the place of its neighbour or of the card under the pointer, which  *)
(* is then next to it, in the column meant (PackagingPlanningBoard.tsx       *)
(* 201-207, 318-356, plant.service.ts 565-586).                              *)
THEOREM MovesLandInQueue ==
  Q!PlanAssumption =>
    (Q!MovesSpec => []QueueInSequence /\ [][Q!MoveLandsInQueue]_(Q!vars))
<1>1. Q!PlanAssumption /\ Q!PlanInit => PlannerInv
  BY PlannerStarts
<1>2. PlannerInv /\ [Q!Moving \/ Q!Refresh \/ Q!RestOfThePlant]_(Q!vars) =>
        PlannerInv' /\ [Q!MoveLandsInQueue]_(Q!vars)
  BY PlannerStep, PlannerStutters
<1>3. PlannerInv => QueueInSequence
  BY DEF PlannerInv, PackInv
<1> QED BY <1>1, <1>2, <1>3, PTL DEF Q!MovesSpec

(* For any cards and tanks: what the dialog offers on an up-to-date board,   *)
(* the service accepts (PackagingPlanningBoard.tsx 123-134, 238-246,         *)
(* plant.service.ts 461-473, 525-533).                                       *)
THEOREM OfferedTanksAreAccepted ==
  Q!PlanAssumption => (Q!DialogSpec => [](QueueInSequence /\ Q!OfferedTankAccepted))
<1>1. Q!PlanAssumption /\ Q!PlanInit => PlannerInv
  BY PlannerStarts
<1>2. PlannerInv /\ [Q!Editing \/ Q!Refresh \/ Q!RestOfThePlant]_(Q!vars) => PlannerInv'
  BY PlannerStep, PlannerStutters
<1>3. PlannerInv => QueueInSequence /\ Q!OfferedTankAccepted
  BY DEF PlannerInv, PackInv, OfferedInv, Q!OfferedTankAccepted
<1> QED BY <1>1, <1>2, <1>3, PTL DEF Q!DialogSpec
=============================================================================
