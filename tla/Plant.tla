------------------------------- MODULE Plant -------------------------------
(***************************************************************************)
(* The life of the tanks of a plant: PlantService (plant.service.ts), one  *)
(* action per operation.  Each operation of the code runs in one           *)
(* Serializable transaction that reads the tank row, compares the version  *)
(* the operator saw with the stored one, checks the state, writes the rows *)
(* of the lot, laboratory, packaging and history, and increments the       *)
(* version; a failed check rolls everything back.  So a successful         *)
(* operation is one step and a refused one is no step.  The parameter v is *)
(* the version sent with the request.                                      *)
(***************************************************************************)
EXTENDS ManufacturingBoard, PackagingBoard, SequencesExt

CONSTANTS
  Tanks,           \* tanks of all the plants
  Lots,            \* ids of the ProductionLot rows that may come to exist
  NoLot,           \* null activeLotId
  Users,
  Role,            \* UserRole of each user
  SystemOwners,    \* users with isSystemOwner: the roles guard lets them pass
  CanTransfer,     \* users with UserPlantAccess.canTransfer
  FinalOperation,  \* finalOperation of the plant of each tank
  MaxVersion       \* bound on Tank.version, for TLC only

ASSUME TankIds == BoardTanks \subseteq Tanks /\ NoTank \notin Tanks
ASSUME LotIds == NoLot \notin Lots
ASSUME ContentIds == NoContent \notin Contents
ASSUME FinalOperations == FinalOperation \in [Tanks -> {"PACKAGING", "TRANSFER"}]
ASSUME VersionBound == MaxVersion \in Nat

VARIABLES
  tank,           \* Tank rows
  lot,            \* ProductionLot rows
  samples,        \* statuses of the LaboratorySample rows of a lot, by iteration
  decisions,      \* QualityDecision rows of a lot, oldest first
  openOrders,     \* PackagingOrder rows of a tank with finishedAt null, oldest first
  openTransfers,  \* TransferOperation rows of a tank with finishedAt null
  openPeriods,    \* TankStateHistory rows of a tank with endedAt null
  audited,        \* what the audit log of a tank says last of each fact
  notice          \* sector the newest notification about a tank is addressed to

labVars == <<samples, decisions>>
finalVars == <<openOrders, openTransfers>>
boardVars == <<card, packCard>>
plantVars == <<tank, lot, samples, decisions, openOrders, openTransfers,
               openPeriods, audited, notice>>
vars == <<plantVars, card, packCard>>

-----------------------------------------------------------------------------
TankStates == {"VACIO", "FABRICANDO", "LABORATORIO", "AJUSTE", "RECHAZADO",
               "APROBADO", "ENVASANDO", "TRASVASANDO", "FUERA_DE_SERVICIO"}
SampleStatuses == {"AWAITING_RECEIPT", "RECEIVED", "ANALYZING", "RESOLVED"}

\* Results of an analysis; the two kinds of rejection of the code lead to the
\* same state and are one.  A result is also the state the tank moves to.
Results == {"APROBADO", "AJUSTE", "RECHAZADO"}
Sectors == {"FABRICACION", "LABORATORIO", "ENVASADO"}

LotOrNone == Lots \cup {NoLot}
ContentOrNone == Contents \cup {NoContent}

TankRows == [state: TankStates, version: Nat, activeLot: LotOrNone,
             serviceReason: BOOLEAN]
LotRows == [tank: Tanks \cup {NoTank}, order: ContentOrNone,
            specificWeight: BOOLEAN, finished: BOOLEAN, closed: Nat]
DecisionRows == [result: Results, content: Contents]
OrderRows == [lot: Lots, content: Contents]
PeriodRows == [state: TankStates, lot: LotOrNone]
LastAudited == [state: TankStates, order: ContentOrNone,
                packaging: ContentOrNone, decision: ContentOrNone]

\* A lot id that has no row yet.  "closed" counts the finished packaging orders
\* or transfers of the lot.
NoLotRow == [tank |-> NoTank, order |-> NoContent, specificWeight |-> FALSE,
             finished |-> FALSE, closed |-> 0]

TypeOK ==
  /\ tank \in [Tanks -> TankRows]
  /\ lot \in [Lots -> LotRows]
  /\ samples \in [Lots -> Seq(SampleStatuses)]
  /\ decisions \in [Lots -> Seq(DecisionRows)]
  /\ openOrders \in [Tanks -> Seq(OrderRows)]
  /\ openTransfers \in [Tanks -> Seq(Lots)]
  /\ openPeriods \in [Tanks -> Seq(PeriodRows)]
  /\ audited \in [Tanks -> LastAudited]
  /\ notice \in [Tanks -> Sectors \cup {"NONE"}]
  /\ BoardTypeOK
  /\ PackBoardTypeOK

\* The seed creates the tanks empty, with an open period of state VACIO.
Init ==
  /\ tank = [t \in Tanks |-> [state |-> "VACIO", version |-> 0,
                              activeLot |-> NoLot, serviceReason |-> FALSE]]
  /\ lot = [l \in Lots |-> NoLotRow]
  /\ samples = [l \in Lots |-> << >>]
  /\ decisions = [l \in Lots |-> << >>]
  /\ openOrders = [t \in Tanks |-> << >>]
  /\ openTransfers = [t \in Tanks |-> << >>]
  /\ openPeriods = [t \in Tanks |-> <<[state |-> "VACIO", lot |-> NoLot]>>]
  /\ audited = [t \in Tanks |-> [state |-> "VACIO", order |-> NoContent,
                                 packaging |-> NoContent, decision |-> NoContent]]
  /\ notice = [t \in Tanks |-> "NONE"]
  /\ BoardInit
  /\ PackBoardInit

-----------------------------------------------------------------------------
(* Helpers of the service. *)

\* RolesGuard with the @Roles of the route; every route also admits ADMIN.
Can(u, roles) == u \in SystemOwners \/ Role[u] \in roles \cup {"ADMIN"}

\* Mutant of Current: the version of the request is not compared.
CurrentStateOnly(t, v, s) ==
  /\ tank[t].state = s
  /\ tank[t].version < MaxVersion

\* assertTank; the last conjunct only bounds the model.
Current(t, v, s) ==
  /\ tank[t].version = v
  /\ tank[t].state = s
  /\ v < MaxVersion

\* Mutant of Move: the open period is not closed.
MoveBesidePeriod(t, s, row, l) ==
  /\ tank' = [tank EXCEPT ![t] = [row EXCEPT !.state = s, !.version = @ + 1]]
  /\ openPeriods' = [openPeriods EXCEPT ![t] = Append(@, [state |-> s, lot |-> l])]

\* move: the row gets the new state and the next version ("row" carries the
\* other columns the operation writes), the newest open period is closed and a
\* period of the new state is opened for lot l.
Move(t, s, row, l) ==
  /\ tank' = [tank EXCEPT ![t] = [row EXCEPT !.state = s, !.version = @ + 1]]
  /\ openPeriods' = [openPeriods EXCEPT ![t] =
                       Append(Front(@), [state |-> s, lot |-> l])]

\* Mutant of BumpVersion: what keeps the state does not count as a change.
SameVersion(t) == UNCHANGED tank

\* updateMany(version: increment 1) of the operations that keep the state.
BumpVersion(t) == tank' = [tank EXCEPT ![t].version = @ + 1]

\* Mutant of Notify: the state of the tank is passed for the sector.
NotifyState(t, sector) == notice' = [notice EXCEPT ![t] = tank[t].state]

\* Mutant of Notify: a tank with an unread notification gets no other.
NotifyOnce(t, sector) ==
  notice' = [notice EXCEPT ![t] = IF @ = "NONE" THEN sector ELSE @]

Notify(t, sector) == notice' = [notice EXCEPT ![t] = sector]

\* The rows of lot l in this status, and the newest of them.
WithStatus(l, s) == {i \in DOMAIN samples[l] : samples[l][i] = s}
Newest(rows) == CHOOSE i \in rows : \A j \in rows : j <= i

-----------------------------------------------------------------------------
(* Manufacturing. *)

\* Mutant: a batch may be started in a tank of any state.
StartAnywhere(u, t, v, l, o) ==
  /\ Can(u, {"FABRICACION"})
  /\ Current(t, v, tank[t].state)
  /\ lot[l].tank = NoTank
  /\ lot' = [lot EXCEPT ![l].tank = t, ![l].order = o]
  /\ ConsumePlanningCard(t, o)
  /\ Move(t, "FABRICANDO", [tank[t] EXCEPT !.activeLot = l], l)
  /\ audited' = [audited EXCEPT ![t].state = "FABRICANDO", ![t].order = o]
  /\ UNCHANGED <<samples, decisions, openOrders, openTransfers, notice, packCard>>

Start(u, t, v, l, o) ==
  /\ Can(u, {"FABRICACION"})
  /\ Current(t, v, "VACIO")
  /\ lot[l].tank = NoTank
  /\ lot' = [lot EXCEPT ![l].tank = t, ![l].order = o]
  /\ ConsumePlanningCard(t, o)
  /\ Move(t, "FABRICANDO", [tank[t] EXCEPT !.activeLot = l], l)
  /\ audited' = [audited EXCEPT ![t].state = "FABRICANDO", ![t].order = o]
  /\ UNCHANGED <<samples, decisions, openOrders, openTransfers, notice, packCard>>

SendToLab(u, t, v) ==
  LET l == tank[t].activeLot
  IN /\ Can(u, {"FABRICACION"})
     /\ Current(t, v, "FABRICANDO") \/ Current(t, v, "AJUSTE")
     /\ l # NoLot
     /\ samples' = [samples EXCEPT ![l] = Append(@, "AWAITING_RECEIPT")]
     /\ Move(t, "LABORATORIO", tank[t], l)
     /\ audited' = [audited EXCEPT ![t].state = "LABORATORIO"]
     /\ Notify(t, "LABORATORIO")
     /\ UNCHANGED <<lot, decisions, openOrders, openTransfers, boardVars>>

EmptyRejected(u, t, v) ==
  /\ Can(u, {"FABRICACION"})
  /\ Current(t, v, "RECHAZADO")
  /\ lot' = [lot EXCEPT ![tank[t].activeLot].finished = TRUE]
  /\ Move(t, "VACIO", [tank[t] EXCEPT !.activeLot = NoLot], tank[t].activeLot)
  /\ audited' = [audited EXCEPT ![t].state = "VACIO"]
  /\ UNCHANGED <<labVars, finalVars, notice, boardVars>>

ServiceOut(u, t, v) ==
  /\ Can(u, {"FABRICACION"})
  /\ Current(t, v, "VACIO")
  /\ Move(t, "FUERA_DE_SERVICIO", [tank[t] EXCEPT !.serviceReason = TRUE], NoLot)
  /\ audited' = [audited EXCEPT ![t].state = "FUERA_DE_SERVICIO"]
  /\ UNCHANGED <<lot, labVars, finalVars, notice, boardVars>>

ServiceIn(u, t, v) ==
  /\ Can(u, {"FABRICACION"})
  /\ Current(t, v, "FUERA_DE_SERVICIO")
  /\ Move(t, "VACIO", [tank[t] EXCEPT !.serviceReason = FALSE], NoLot)
  /\ audited' = [audited EXCEPT ![t].state = "VACIO"]
  /\ UNCHANGED <<lot, labVars, finalVars, notice, boardVars>>

\* Mutant: the correction is not written to the audit log.
CorrectLotUnaudited(u, t, v, o) ==
  LET l == tank[t].activeLot
  IN /\ Can(u, {"FABRICACION"})
     /\ Current(t, v, tank[t].state)
     /\ l # NoLot
     /\ lot' = [lot EXCEPT ![l].order = o]
     /\ BumpVersion(t)
     /\ UNCHANGED <<labVars, finalVars, openPeriods, audited, notice, boardVars>>

\* The one operation that asks for no state, only for an active lot.
CorrectLot(u, t, v, o) ==
  LET l == tank[t].activeLot
  IN /\ Can(u, {"FABRICACION"})
     /\ Current(t, v, tank[t].state)
     /\ l # NoLot
     /\ lot' = [lot EXCEPT ![l].order = o]
     /\ BumpVersion(t)
     /\ audited' = [audited EXCEPT ![t].order = o]
     /\ UNCHANGED <<labVars, finalVars, openPeriods, notice, boardVars>>

-----------------------------------------------------------------------------
(* Laboratory. *)

\* startAnalysis: the reception may start the analysis at once.
ReceiveLaboratorySample(u, t, v, startAnalysis) ==
  LET l    == tank[t].activeLot
      rows == WithStatus(l, "AWAITING_RECEIPT")
  IN /\ Can(u, {"LABORATORIO"})
     /\ Current(t, v, "LABORATORIO")
     /\ l # NoLot
     /\ rows # {}
     /\ samples' = [samples EXCEPT ![l][Newest(rows)] =
                      IF startAnalysis THEN "ANALYZING" ELSE "RECEIVED"]
     /\ BumpVersion(t)
     /\ UNCHANGED <<lot, decisions, finalVars, openPeriods, audited, notice, boardVars>>

StartLaboratoryAnalysis(u, t, v) ==
  LET l    == tank[t].activeLot
      rows == WithStatus(l, "RECEIVED")
  IN /\ Can(u, {"LABORATORIO"})
     /\ Current(t, v, "LABORATORIO")
     /\ l # NoLot
     /\ rows # {}
     /\ samples' = [samples EXCEPT ![l][Newest(rows)] = "ANALYZING"]
     /\ BumpVersion(t)
     /\ UNCHANGED <<lot, decisions, finalVars, openPeriods, audited, notice, boardVars>>

Quality(u, t, v, result, content) ==
  LET l    == tank[t].activeLot
      rows == WithStatus(l, "ANALYZING")
  IN /\ Can(u, {"LABORATORIO"})
     /\ Current(t, v, "LABORATORIO")
     /\ l # NoLot
     /\ rows # {}
     /\ decisions' = [decisions EXCEPT ![l] =
                        Append(@, [result |-> result, content |-> content])]
     /\ lot' = [lot EXCEPT ![l].specificWeight = (result = "APROBADO")]
     /\ samples' = [samples EXCEPT ![l][Newest(rows)] = "RESOLVED"]
     /\ Move(t, result, tank[t], l)
     /\ audited' = [audited EXCEPT ![t].state = result, ![t].decision = content]
     /\ Notify(t, IF result = "APROBADO" THEN "ENVASADO" ELSE "FABRICACION")
     /\ UNCHANGED <<finalVars, boardVars>>

CorrectQualityAdjustment(u, t, v, content) ==
  LET l    == tank[t].activeLot
      rows == {i \in DOMAIN decisions[l] : decisions[l][i].result = "AJUSTE"}
  IN /\ Can(u, {"LABORATORIO"})
     /\ Current(t, v, "AJUSTE")
     /\ l # NoLot
     /\ rows # {}
     /\ decisions' = [decisions EXCEPT ![l][Newest(rows)].content = content]
     /\ BumpVersion(t)
     /\ audited' = [audited EXCEPT ![t].decision = content]
     /\ Notify(t, "FABRICACION")
     /\ UNCHANGED <<lot, samples, finalVars, openPeriods, boardVars>>

-----------------------------------------------------------------------------
(* Packaging. *)

StartPackaging(u, t, v, content) ==
  LET l == tank[t].activeLot
  IN /\ Can(u, {"ENVASADO"})
     /\ FinalOperation[t] = "PACKAGING"
     /\ Current(t, v, "APROBADO")
     /\ l # NoLot
     /\ openOrders' = [openOrders EXCEPT ![t] =
                         Append(@, [lot |-> l, content |-> content])]
     /\ Move(t, "ENVASANDO", tank[t], l)
     /\ ConsumePackagingPlanningCard(t)
     /\ audited' = [audited EXCEPT ![t].state = "ENVASANDO", ![t].packaging = content]
     /\ UNCHANGED <<lot, labVars, openTransfers, notice, card>>

\* closePackaging (the newest open order of the tank), then a new order.
NewPackagingOrder(u, t, v, content) ==
  LET l == tank[t].activeLot
  IN /\ Can(u, {"ENVASADO"})
     /\ FinalOperation[t] = "PACKAGING"
     /\ Current(t, v, "ENVASANDO")
     /\ l # NoLot
     /\ openOrders[t] # << >>
     /\ lot' = [lot EXCEPT ![Last(openOrders[t]).lot].closed = @ + 1]
     /\ openOrders' = [openOrders EXCEPT ![t] =
                         Append(Front(@), [lot |-> l, content |-> content])]
     /\ BumpVersion(t)
     /\ audited' = [audited EXCEPT ![t].packaging = content]
     /\ UNCHANGED <<labVars, openTransfers, openPeriods, notice, boardVars>>

CorrectPackaging(u, t, v, content) ==
  /\ Can(u, {"ENVASADO"})
  /\ FinalOperation[t] = "PACKAGING"
  /\ Current(t, v, "ENVASANDO")
  /\ openOrders[t] # << >>
  /\ openOrders' = [openOrders EXCEPT ![t][Len(openOrders[t])].content = content]
  /\ BumpVersion(t)
  /\ audited' = [audited EXCEPT ![t].packaging = content]
  /\ UNCHANGED <<lot, labVars, openTransfers, openPeriods, notice, boardVars>>

\* Mutant: the tank keeps pointing at the lot.
FinishPackagingKeepsLot(u, t, v) ==
  LET l == tank[t].activeLot
  IN /\ Can(u, {"ENVASADO"})
     /\ FinalOperation[t] = "PACKAGING"
     /\ Current(t, v, "ENVASANDO")
     /\ openOrders[t] # << >>
     /\ openOrders' = [openOrders EXCEPT ![t] = Front(@)]
     /\ lot' = [lot EXCEPT ![Last(openOrders[t]).lot].closed = @ + 1,
                           ![l].finished = TRUE]
     /\ Move(t, "VACIO", tank[t], l)
     /\ audited' = [audited EXCEPT ![t].state = "VACIO"]
     /\ Notify(t, "FABRICACION")
     /\ UNCHANGED <<labVars, openTransfers, boardVars>>

\* Mutant: the last order is not closed before the lot.
FinishPackagingOrderOpen(u, t, v) ==
  LET l == tank[t].activeLot
  IN /\ Can(u, {"ENVASADO"})
     /\ FinalOperation[t] = "PACKAGING"
     /\ Current(t, v, "ENVASANDO")
     /\ openOrders[t] # << >>
     /\ openOrders' = [openOrders EXCEPT ![t] = Front(@)]
     /\ lot' = [lot EXCEPT ![l].finished = TRUE]
     /\ Move(t, "VACIO", [tank[t] EXCEPT !.activeLot = NoLot], l)
     /\ audited' = [audited EXCEPT ![t].state = "VACIO"]
     /\ Notify(t, "FABRICACION")
     /\ UNCHANGED <<labVars, openTransfers, boardVars>>

FinishPackaging(u, t, v) ==
  LET l == tank[t].activeLot
  IN /\ Can(u, {"ENVASADO"})
     /\ FinalOperation[t] = "PACKAGING"
     /\ Current(t, v, "ENVASANDO")
     /\ openOrders[t] # << >>
     /\ openOrders' = [openOrders EXCEPT ![t] = Front(@)]
     /\ lot' = [lot EXCEPT ![Last(openOrders[t]).lot].closed = @ + 1,
                           ![l].finished = TRUE]
     /\ Move(t, "VACIO", [tank[t] EXCEPT !.activeLot = NoLot], l)
     /\ audited' = [audited EXCEPT ![t].state = "VACIO"]
     /\ Notify(t, "FABRICACION")
     /\ UNCHANGED <<labVars, openTransfers, boardVars>>

-----------------------------------------------------------------------------
(* Transfer between tanks, the final operation of plant SLURRY. *)

\* The explicit permission of the user on the plant; the system owner passes
\* the roles guard but not this check.
MayTransfer(u) ==
  /\ Can(u, {"FABRICACION", "ENVASADO"})
  /\ u \in CanTransfer \/ Role[u] = "ADMIN"

StartTransfer(u, t, v) ==
  LET l == tank[t].activeLot
  IN /\ Current(t, v, "APROBADO")
     /\ FinalOperation[t] = "TRANSFER"
     /\ MayTransfer(u)
     /\ l # NoLot
     /\ openTransfers' = [openTransfers EXCEPT ![t] = Append(@, l)]
     /\ Move(t, "TRASVASANDO", tank[t], l)
     /\ audited' = [audited EXCEPT ![t].state = "TRASVASANDO"]
     /\ UNCHANGED <<lot, labVars, openOrders, notice, boardVars>>

FinishTransfer(u, t, v) ==
  LET l == tank[t].activeLot
  IN /\ Current(t, v, "TRASVASANDO")
     /\ FinalOperation[t] = "TRANSFER"
     /\ MayTransfer(u)
     /\ openTransfers[t] # << >>
     /\ openTransfers' = [openTransfers EXCEPT ![t] = Front(@)]
     /\ lot' = [lot EXCEPT ![Last(openTransfers[t])].closed = @ + 1,
                           ![l].finished = TRUE]
     /\ Move(t, "VACIO", [tank[t] EXCEPT !.activeLot = NoLot], l)
     /\ audited' = [audited EXCEPT ![t].state = "VACIO"]
     /\ UNCHANGED <<labVars, openOrders, notice, boardVars>>

-----------------------------------------------------------------------------
(* The system: operators work on the tanks, planners on the two boards. *)

TankOperation(u, t, v) ==
  \/ \E l \in Lots, o \in Contents : Start(u, t, v, l, o)
  \/ SendToLab(u, t, v)
  \/ EmptyRejected(u, t, v)
  \/ ServiceOut(u, t, v)
  \/ ServiceIn(u, t, v)
  \/ \E o \in Contents : CorrectLot(u, t, v, o)
  \/ \E startAnalysis \in BOOLEAN : ReceiveLaboratorySample(u, t, v, startAnalysis)
  \/ StartLaboratoryAnalysis(u, t, v)
  \/ \E r \in Results, c \in Contents : Quality(u, t, v, r, c)
  \/ \E c \in Contents : CorrectQualityAdjustment(u, t, v, c)
  \/ \E c \in Contents : StartPackaging(u, t, v, c)
  \/ \E c \in Contents : NewPackagingOrder(u, t, v, c)
  \/ \E c \in Contents : CorrectPackaging(u, t, v, c)
  \/ FinishPackaging(u, t, v)
  \/ StartTransfer(u, t, v)
  \/ FinishTransfer(u, t, v)

Planning(u) ==
  /\ Can(u, {"FABRICACION", "ENVASADO", "JEFATURA"})
  /\ \/ PlanManufacturing /\ UNCHANGED packCard
     \/ PlanPackaging([t \in BoardTanks |-> tank[t].state]) /\ UNCHANGED card
  /\ UNCHANGED plantVars

\* A request may carry the version of any state the operator saw before.
Next ==
  \E u \in Users :
    \/ \E t \in Tanks, v \in 0 .. MaxVersion : TankOperation(u, t, v)
    \/ Planning(u)

Spec == Init /\ [][Next]_vars

-----------------------------------------------------------------------------
(* What the poll of the operators' screens reads about a tank. *)

NoDecision == [result |-> "NONE", content |-> NoContent]
NoOrder == [lot |-> NoLot, content |-> NoContent]
NoPeriod == [state |-> "NONE", lot |-> NoLot]

LastOr(q, none) == IF q = << >> THEN none ELSE Last(q)

NewestOrderOf(orders, l) ==
  LastOr(SelectSeq(orders, LAMBDA o : o.lot = l), NoOrder)

\* The tank row as read and the rows included with it: the open period of the
\* tank; the active lot of the row with its newest sample and decision and its
\* newest open order.
ViewOf(row, t) ==
  LET l == row.activeLot
  IN [row      |-> row,
      period   |-> LastOr(openPeriods[t], NoPeriod),
      lot      |-> IF l = NoLot THEN NoLotRow ELSE lot[l],
      sample   |-> IF l = NoLot THEN "NONE" ELSE LastOr(samples[l], "NONE"),
      decision |-> IF l = NoLot THEN NoDecision ELSE LastOr(decisions[l], NoDecision),
      order    |-> NewestOrderOf(openOrders[t], l)]

\* Everything the poll shows of tank t that an operation can change.
View(t) == ViewOf(tank[t], t)

-----------------------------------------------------------------------------
(* Properties. *)

Active(t) == tank[t].activeLot
Filling(t) == tank[t].state \in {"ENVASANDO", "TRASVASANDO"}
Decided(t) == tank[t].state \in {"AJUSTE", "RECHAZADO", "APROBADO",
                                 "ENVASANDO", "TRASVASANDO"}

\* A tank holds a lot unless it is empty or out of service, and a lot that was
\* started and not finished is held by exactly the tank it was started in.
LotMatchesState(t) ==
  /\ (Active(t) = NoLot) <=> (tank[t].state \in {"VACIO", "FUERA_DE_SERVICIO"})
  /\ \A l \in Lots : Active(t) = l <=> (lot[l].tank = t /\ ~lot[l].finished)

\* The laboratory rows of the lot agree with the state of its tank: every sample
\* but the newest is resolved and led to an adjustment, the newest is pending
\* exactly while the tank is in LABORATORIO, and its verdict is the tank's state
\* (or APROBADO, once the final operation runs).
LaboratoryMatchesState(t) == LET l == Active(t) IN l # NoLot =>
  /\ tank[t].state = "FABRICANDO" => samples[l] = << >>
  /\ tank[t].state # "FABRICANDO" => samples[l] # << >>
  /\ \A i \in DOMAIN samples[l] :
       samples[l][i] = "RESOLVED" <=>
         (i < Len(samples[l]) \/ tank[t].state # "LABORATORIO")
  /\ Len(decisions[l]) = IF tank[t].state = "LABORATORIO"
                         THEN Len(samples[l]) - 1 ELSE Len(samples[l])
  /\ \A i \in DOMAIN decisions[l] :
       decisions[l][i].result =
         IF i < Len(samples[l]) THEN "AJUSTE"
         ELSE IF Filling(t) THEN "APROBADO" ELSE tank[t].state

\* A tank has one open packaging order while it is filling containers, one open
\* transfer while it is being transferred, and none otherwise; both belong to
\* the lot in the tank.  The lot has a specific weight from its approval on.
FinalOperationMatchesState(t) ==
  /\ IF tank[t].state = "ENVASANDO"
     THEN Len(openOrders[t]) = 1 /\ openOrders[t][1].lot = Active(t)
     ELSE openOrders[t] = << >>
  /\ IF tank[t].state = "TRASVASANDO"
     THEN openTransfers[t] = <<Active(t)>>
     ELSE openTransfers[t] = << >>
  /\ Active(t) # NoLot =>
       (lot[Active(t)].specificWeight <=>
          tank[t].state \in {"APROBADO", "ENVASANDO", "TRASVASANDO"})

\* Exactly one period of the tank's history is open and it is in the tank's
\* state, for the tank's lot (an empty tank may show the lot it had last).
PeriodMatchesState(t) ==
  /\ Len(openPeriods[t]) = 1
  /\ openPeriods[t][1].state = tank[t].state
  /\ Active(t) # NoLot => openPeriods[t][1].lot = Active(t)
  /\ tank[t].serviceReason <=> tank[t].state = "FUERA_DE_SERVICIO"

\* The rows of the seven tables a tank operation touches always tell the same
\* story; no single write in the code states it (plant.service.ts:1078-1896).
StateMatchesRecords ==
  \A t \in Tanks :
    /\ LotMatchesState(t)
    /\ LaboratoryMatchesState(t)
    /\ FinalOperationMatchesState(t)
    /\ PeriodMatchesState(t)

\* Whatever an operation changes of what the screens show, it moves the tank to
\* a higher version: the comparison of versions (assertTank,
\* plant.service.ts:2620-2631) then detects every stale screen.
VisibleChangeBumpsVersion ==
  [][\A t \in Tanks : View(t)' # View(t) => tank'[t].version > tank[t].version]_vars

\* The audit log alone tells the present: the last STATUS_CHANGE is the state of
\* the tank, the last CREATE or CORRECTION of the lot, the order and the decision
\* are their present contents (audit calls of plant.service.ts:1078-1896).
AuditReplays ==
  \A t \in Tanks :
    /\ audited[t].state = tank[t].state
    /\ Active(t) # NoLot => audited[t].order = lot[Active(t)].order
    /\ tank[t].state = "ENVASANDO" =>
         audited[t].packaging = Last(openOrders[t]).content
    /\ Decided(t) => audited[t].decision = Last(decisions[Active(t)]).content

\* The newest notification about a tank went to the sector that has to act on it
\* (notifyTankAction calls, plant.service.ts:1164, 1387-1405, 1497, 1703).
NextSectorNotified ==
  \A t \in Tanks :
    /\ tank[t].state = "LABORATORIO" => notice[t] = "LABORATORIO"
    /\ tank[t].state \in {"APROBADO", "ENVASANDO", "TRASVASANDO"} =>
         notice[t] = "ENVASADO"
    /\ tank[t].state \in {"AJUSTE", "RECHAZADO"} => notice[t] = "FABRICACION"

\* Once a lot is finished nothing about it changes any more, whatever happens
\* later in its tank: its data, samples, decisions and closed orders are the
\* traceability record (correctLot, quality and closePackaging act on the active
\* lot only, plant.service.ts:1308-1524, 1856-1896, 2704-2730).
FinishedLotsFrozen ==
  [][\A l \in Lots : lot[l].finished =>
       UNCHANGED <<lot[l], samples[l], decisions[l]>>]_vars

\* A finished lot left its tank in one of the three legal ways: rejected, or
\* approved in its last analysis and closed by at least one order or transfer.
FinishedLotsAccounted ==
  \A l \in Lots : lot[l].finished =>
    /\ decisions[l] # << >> /\ Len(decisions[l]) = Len(samples[l])
    /\ IF lot[l].closed = 0
       THEN Last(decisions[l]).result = "RECHAZADO" /\ ~lot[l].specificWeight
       ELSE Last(decisions[l]).result = "APROBADO" /\ lot[l].specificWeight

\* A tank being packaged is not in the packaging plan any more, and the plan
\* never points at a tank outside the Latex plant's board: start of packaging
\* and edits of the plan race for the same tank (plant.service.ts:467-488,
\* 535-547, 1549-1560).
NoPlanWhileFilling ==
  \A t \in BoardTanks : tank[t].state = "ENVASANDO" => CardsOf(t) = {}

\* "Los tanques vacios o fuera de servicio no se pueden planificar para
\* envasado" (message of plant.service.ts:2589): no card of the packaging plan
\* names an empty tank or a tank out of service.
NoPlanOfEmptyTank ==
  \A t \in BoardTanks :
    tank[t].state \in {"VACIO", "FUERA_DE_SERVICIO"} => CardsOf(t) = {}
=============================================================================
