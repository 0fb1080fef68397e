------------------------------ MODULE MCOperators ------------------------------
(***************************************************************************)
(* The operators and the planners in front of the plant: the statements of *)
(* their operations on one tank, the boards they move cards on, the dialog *)
(* of the packaging plan and the operations the pages offer.  Each         *)
(* behaviour is about one of them, "part" says which; the variables of the *)
(* others keep the value Idle.                                             *)
(***************************************************************************)
EXTENDS TankTransactions, TLC

CONSTANTS x1, x2, x3, x4,                  \* requests, cards
          t1, t2, t3,                      \* tanks
          o1, o2, l1,                      \* orders, a lot
          fab, lab, env,                   \* a user per sector
          NoCardId, NoTank, NoContent, NoLot

VARIABLES part,
          card, packCard, shown, move,
          edit, log,
          dispenser, tankState, form, save,
          tank, lot, samples, decisions, openOrders, openTransfers, openPeriods,
          audited, notice, config

MCRequests == {x1, x2, x3}

\* Moves between two columns of cards that hold the same order; edits of one.
Moves == INSTANCE PlanningScreens WITH
  BoardTanks <- {t1, t2}, Cards <- {x1, x2, x3, x4}, Contents <- {o1}, Planners <- {fab},
  Column <- t1 :> 1 @@ t2 :> 2, MaxEdits <- 0
Edits == INSTANCE PlanningScreens WITH
  BoardTanks <- {t1}, Cards <- {x1, x2}, Contents <- {o1, o2}, Planners <- {fab},
  Column <- t1 :> 1, MaxEdits <- 1

\* Moves in the queue of the packaging plan; its dialog with two
\* tanks, and at the limit of the plan.
Queueing == INSTANCE PackagingPlanScreens WITH
  BoardTanks <- {t1, t2, t3}, PackCards <- {x1, x2, x3}, MaxPlanned <- 3,
  UsedStates <- {"APROBADO"}
Planning == INSTANCE PackagingPlanScreens WITH
  BoardTanks <- {t1, t2}, PackCards <- {x1, x2, x3}, MaxPlanned <- 2,
  UsedStates <- {"APROBADO", "ENVASANDO"}
AtLimit == INSTANCE PackagingPlanScreens WITH
  BoardTanks <- {t1, t2}, PackCards <- {x1, x2, x3}, MaxPlanned <- 1,
  UsedStates <- {"VACIO", "APROBADO"}

\* A tank of a packaging plant (t1) and one of the transfer plant (t2).
Offers == INSTANCE PlantPages WITH
  Tanks <- {t1, t2}, Lots <- {l1}, Users <- {fab, lab, env},
  Role <- fab :> "FABRICACION" @@ lab :> "LABORATORIO" @@ env :> "ENVASADO",
  SystemOwners <- {}, CanTransfer <- {env},
  FinalOperation <- t1 :> "PACKAGING" @@ t2 :> "TRANSFER",
  BoardTanks <- {}, Contents <- {o1}, Cards <- {}, PackCards <- {}, MaxPlanned <- 4, MaxVersion <- 7

ASSUME InstancesAreLegal ==
  /\ Moves!PlanAssumption /\ Edits!PlanAssumption
  /\ Queueing!PlanAssumption /\ Planning!PlanAssumption /\ AtLimit!PlanAssumption

-----------------------------------------------------------------------------
Idle == 0

NoTransactions == RegisterInit /\ holder = NoRequest /\ request = [r \in Requests |-> NotSent]
                  /\ waiting = [d \in Dialogs |-> NoRequest] /\ answer = [d \in Dialogs |-> "NONE"]
NoBoard == card = Idle
NoQueue == packCard = Idle
NoScreen == shown = Idle /\ move = Idle
NoEdits == edit = Idle /\ log = Idle
NoDialogs == dispenser = Idle /\ tankState = Idle /\ form = Idle /\ save = Idle
NoPages == /\ tank = Idle /\ lot = Idle /\ samples = Idle /\ decisions = Idle
           /\ openOrders = Idle /\ openTransfers = Idle /\ openPeriods = Idle
           /\ audited = Idle /\ notice = Idle /\ config = Idle

editVars == <<edit, log>>
dialogVars == <<dispenser, tankState, form, save>>
pageVars == <<tank, lot, samples, decisions, openOrders, openTransfers, openPeriods,
              audited, notice, config>>
operatorVars == <<part, tankVars, card, packCard, shown, move, editVars, dialogVars, pageVars>>

OperatorsInit ==
  \/ /\ part = "tank" /\ TransactionsInit
     /\ NoBoard /\ NoQueue /\ NoScreen /\ NoEdits /\ NoDialogs /\ NoPages
  \/ /\ NoTransactions /\ NoQueue /\ NoDialogs /\ NoPages
     /\ \/ part = "moves" /\ Moves!PlanInit
        \/ part = "edits" /\ Edits!PlanInit
  \/ /\ NoTransactions /\ NoBoard /\ NoEdits /\ NoPages
     /\ \/ part = "queueing" /\ Queueing!PlanInit
        \/ part = "planning" /\ Planning!PlanInit
        \/ part = "limit" /\ AtLimit!PlanInit
  \/ /\ part = "offers" /\ Offers!PagesInit
     /\ NoTransactions /\ NoScreen /\ NoEdits /\ NoDialogs

NextTank ==
  /\ part = "tank" /\ TransactionsNext
  /\ UNCHANGED <<part, card, packCard, shown, move, editVars, dialogVars, pageVars>>
NextBoard ==
  /\ UNCHANGED <<part, tankVars, packCard, dialogVars, pageVars>>
  /\ \/ part = "moves" /\ Moves!PlanNext
     \/ part = "edits" /\ Edits!PlanNext
NextPlan ==
  /\ UNCHANGED <<part, tankVars, card, editVars, pageVars>>
  /\ \/ part = "queueing" /\ (Queueing!Moving \/ Queueing!Refresh \/ Queueing!RestOfThePlant)
     \/ part = "planning" /\ (Planning!Editing \/ Planning!Refresh \/ Planning!RestOfThePlant)
     \/ part = "limit" /\ (AtLimit!Editing \/ AtLimit!Refresh \/ AtLimit!RestOfThePlant)
NextPages ==
  /\ part = "offers" /\ Offers!PagesNext
  /\ UNCHANGED <<part, tankVars, shown, move, editVars, dialogVars>>

OperatorsNext == NextTank \/ NextBoard \/ NextPlan \/ NextPages

OperatorsSpec == OperatorsInit /\ [][OperatorsNext]_operatorVars

OperatorsSymmetry == Permutations({x1, x2, x3})

-----------------------------------------------------------------------------
(* A move sent from a board that is up to date does what the planner saw,  *)
(* on either board (dropCard of both pages against the splice of the       *)
(* service).                                                               *)
MovesLandAsMeant ==
  [][/\ part = "moves" => Moves!MoveLandsAsShown
     /\ part = "queueing" => Queueing!MoveLandsInQueue]_<<card, packCard, move>>

(* What a page offers of a tank as it is, and the dialog of the plan of    *)
(* the queue as it is, is accepted by the service, and the lot of a tank   *)
(* can always be led on; the lists stay without holes under the screens.   *)
OfferedIsAccepted ==
  /\ part = "offers" => Offers!OfferedIsAccepted /\ Offers!SomebodyLeadsOn
  /\ part = "planning" => Planning!PlanTypeOK /\ Planning!OfferedTankAccepted
  /\ part = "limit" => AtLimit!PlanTypeOK /\ AtLimit!OfferedTankAccepted
  /\ part = "queueing" => Queueing!PlanTypeOK /\ Queueing!QueueInSequence
  /\ part = "moves" => Moves!PlanTypeOK /\ Moves!ListsInSequence
  /\ part = "edits" => Edits!PlanTypeOK /\ Edits!ListsInSequence
===============================================================================
