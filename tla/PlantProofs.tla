----------------------------- MODULE PlantProofs -----------------------------
(***************************************************************************)
(* The rows of a tank and of its lot agree with its state, for any tanks,  *)
(* lots, users and contents.                                               *)
(*                                                                         *)
(* Every operation works on one tank t and one lot m, the active lot of t  *)
(* or the one it starts, and leaves the rest alone (Local).  So each       *)
(* action needs two things only: that it is local, and that the rows of t  *)
(* and m agree after it.                                                   *)
(***************************************************************************)
EXTENDS Plant, BoardProofs, SequenceTheorems

\* A lot that was not started has no rows.
FreshLots ==
  \A l \in Lots : lot[l].tank = NoTank =>
    /\ ~lot[l].finished /\ ~lot[l].specificWeight
    /\ samples[l] = << >> /\ decisions[l] = << >>

RowsMatchState(t) ==
  /\ LotMatchesState(t)
  /\ LaboratoryMatchesState(t)
  /\ FinalOperationMatchesState(t)
  /\ PeriodMatchesState(t)

\* The types of the variables of the tanks.
PlantTypeOK ==
  /\ tank \in [Tanks -> TankRows]
  /\ lot \in [Lots -> LotRows]
  /\ samples \in [Lots -> Seq(SampleStatuses)]
  /\ decisions \in [Lots -> Seq(DecisionRows)]
  /\ openOrders \in [Tanks -> Seq(OrderRows)]
  /\ openTransfers \in [Tanks -> Seq(Lots)]
  /\ openPeriods \in [Tanks -> Seq(PeriodRows)]
  /\ audited \in [Tanks -> LastAudited]
  /\ notice \in [Tanks -> Sectors \cup {"NONE"}]

\* The step works on tank t and lot m.
Local(t, m) ==
  /\ Active(t) = m \/ (Active(t) = NoLot /\ m \in Lots /\ lot[m].tank = NoTank)
  /\ m \in Lots => lot'[m].tank = t
  /\ \A s \in Tanks \ {t} :
       /\ tank'[s] = tank[s]
       /\ openOrders'[s] = openOrders[s]
       /\ openTransfers'[s] = openTransfers[s]
       /\ openPeriods'[s] = openPeriods[s]
  /\ \A l \in Lots \ {m} :
       /\ lot'[l] = lot[l]
       /\ samples'[l] = samples[l]
       /\ decisions'[l] = decisions[l]

-----------------------------------------------------------------------------
(* Sequences. *)

LEMMA FrontFacts ==
  ASSUME NEW S, NEW s \in Seq(S), s # << >>
  PROVE  /\ Front(s) \in Seq(S)
         /\ Last(s) \in S
         /\ Len(s) \in Nat \ {0}
         /\ Len(s) = 1 => Front(s) = << >>
<1>1. Len(s) \in Nat \ {0}
  BY EmptySeq
<1>2. \A i \in 1 .. Len(s) : s[i] \in S
  BY ElementOfSeq
<1>3. Front(s) \in Seq(S)
  BY <1>1, <1>2, SubSeqProperties DEF Front
<1>4. Len(s) = 1 => Front(s) = << >>
  BY <1>1, SubSeqEmpty DEF Front
<1> QED BY <1>1, <1>2, <1>3, <1>4 DEF Last

LEMMA AppendFacts ==
  ASSUME NEW S, NEW s \in Seq(S), NEW x \in S
  PROVE  /\ Append(s, x) \in Seq(S)
         /\ Len(Append(s, x)) = Len(s) + 1
         /\ \A i \in 1 .. Len(s) : Append(s, x)[i] = s[i]
         /\ Append(s, x)[Len(s) + 1] = x
         /\ s = << >> => Append(s, x) = <<x>>
<1>1. s = << >> => Append(s, x) = <<x>>
  OBVIOUS
<1> QED BY <1>1, AppendProperties

LEMMA ReplaceOnly ==
  ASSUME NEW S, NEW s \in Seq(S), Len(s) = 1, NEW x \in S
  PROVE  [s EXCEPT ![1] = x] = <<x>>
<1>1. 1 \in 1 .. Len(s)
  OBVIOUS
<1>2. /\ [s EXCEPT ![1] = x] \in Seq(S) /\ Len([s EXCEPT ![1] = x]) = 1
      /\ [s EXCEPT ![1] = x][1] = x
  BY <1>1, ExceptSeq
<1>3. <<x>> \in Seq(S) /\ Len(<<x>>) = 1 /\ <<x>>[1] = x
  OBVIOUS
<1> DEFINE a == [s EXCEPT ![1] = x]
           b == <<x>>
<1> HIDE DEF a, b
<1>4. a \in Seq(S) /\ Len(a) = 1 /\ a[1] = x
  BY <1>2 DEF a
<1>5. b \in Seq(S) /\ Len(b) = 1 /\ b[1] = x
  BY <1>3 DEF b
<1>6. Len(a) = Len(b) /\ \A i \in 1 .. Len(a) : a[i] = b[i]
  BY <1>4, <1>5
<1>7. a = b
  BY ONLY <1>4, <1>5, <1>6, SeqEqual
<1> QED BY <1>7 DEF a, b

-----------------------------------------------------------------------------
(* Operations on one tank. *)

LEMMA OthersMatch ==
  ASSUME PlantTypeOK, StateMatchesRecords, NEW t \in Tanks, NEW m \in LotOrNone,
         Local(t, m), NEW s \in Tanks \ {t}
  PROVE  RowsMatchState(s)'
<1>1. RowsMatchState(s)
  BY DEF StateMatchesRecords, RowsMatchState
<1>2. /\ tank'[s] = tank[s] /\ openOrders'[s] = openOrders[s]
      /\ openTransfers'[s] = openTransfers[s] /\ openPeriods'[s] = openPeriods[s]
      /\ Active(s)' = Active(s)
  BY DEF Local, Active
<1>3. Active(s) \in LotOrNone /\ tank[s] \in TankRows
  BY DEF PlantTypeOK, TankRows, Active
<1>4. Active(s) # NoLot => Active(s) \in Lots /\ Active(s) # m
  <2> SUFFICES ASSUME Active(s) # NoLot PROVE Active(s) \in Lots /\ Active(s) # m
    OBVIOUS
  <2>1. Active(s) \in Lots /\ lot[Active(s)].tank = s
    BY <1>1, <1>3 DEF RowsMatchState, LotMatchesState, LotOrNone
  <2>2. LotMatchesState(t)
    BY DEF StateMatchesRecords
  <2>3. m \in Lots => lot[m].tank \in {t, NoTank}
    BY <2>2 DEF Local, LotMatchesState
  <2> QED BY <2>1, <2>3, TankIds
<1>5. LotMatchesState(s)'
  <2>1. \A l \in Lots \ {m} : lot'[l] = lot[l]
    BY DEF Local
  <2>2. m \in Lots => lot'[m].tank = t /\ Active(s) # m
    BY <1>4, LotIds DEF Local
  <2> QED BY <1>1, <1>2, <2>1, <2>2 DEF RowsMatchState, LotMatchesState
<1>6. Active(s) # NoLot => /\ lot'[Active(s)] = lot[Active(s)]
                           /\ samples'[Active(s)] = samples[Active(s)]
                           /\ decisions'[Active(s)] = decisions[Active(s)]
  BY <1>4 DEF Local
<1>7. LaboratoryMatchesState(s)'
  BY <1>1, <1>2, <1>6 DEF RowsMatchState, LaboratoryMatchesState, Filling
<1>8. FinalOperationMatchesState(s)' /\ PeriodMatchesState(s)'
  BY <1>1, <1>2, <1>6 DEF RowsMatchState, FinalOperationMatchesState, PeriodMatchesState
<1> QED BY <1>5, <1>7, <1>8 DEF RowsMatchState

LEMMA LocalStep ==
  ASSUME PlantTypeOK, StateMatchesRecords, FreshLots,
         NEW t \in Tanks, NEW m \in LotOrNone, Local(t, m), RowsMatchState(t)'
  PROVE  StateMatchesRecords' /\ FreshLots'
<1>1. StateMatchesRecords'
  BY OthersMatch DEF StateMatchesRecords, RowsMatchState
<1>2. FreshLots'
  BY TankIds DEF FreshLots, Local
<1> QED BY <1>1, <1>2

\* The lot stays in its tank, or is the one just started.
LEMMA LotHeld ==
  ASSUME NEW t \in Tanks, NEW m \in Lots, LotMatchesState(t), Local(t, m),
         Active(t)' = m, ~lot'[m].finished,
         tank'[t].state \notin {"VACIO", "FUERA_DE_SERVICIO"}
  PROVE  LotMatchesState(t)'
BY LotIds DEF LotMatchesState, Local

\* The tank is left without a lot.
LEMMA LotGone ==
  ASSUME NEW t \in Tanks, NEW m \in LotOrNone, LotMatchesState(t), Local(t, m),
         Active(t)' = NoLot, m \in Lots => lot'[m].finished,
         tank'[t].state \in {"VACIO", "FUERA_DE_SERVICIO"}
  PROVE  LotMatchesState(t)'
BY LotIds DEF LotMatchesState, Local

LEMMA MoveEffect ==
  ASSUME PlantTypeOK, NEW t \in Tanks, PeriodMatchesState(t),
         NEW s \in TankStates, NEW row \in TankRows, NEW l \in LotOrNone,
         Move(t, s, row, l)
  PROVE  /\ tank' \in [Tanks -> TankRows]
         /\ openPeriods' \in [Tanks -> Seq(PeriodRows)]
         /\ tank'[t].state = s
         /\ tank'[t].version = row.version + 1
         /\ tank'[t].activeLot = row.activeLot
         /\ tank'[t].serviceReason = row.serviceReason
         /\ openPeriods'[t] = <<[state |-> s, lot |-> l]>>
         /\ \A x \in Tanks \ {t} : /\ tank'[x] = tank[x]
                                   /\ openPeriods'[x] = openPeriods[x]
<1>1. openPeriods[t] \in Seq(PeriodRows) /\ Len(openPeriods[t]) = 1
  BY DEF PlantTypeOK, PeriodMatchesState
<1>2. Front(openPeriods[t]) = << >>
  BY <1>1, SubSeqEmpty DEF Front
<1>3. [state |-> s, lot |-> l] \in PeriodRows
  BY DEF PeriodRows
<1>4. Append(Front(openPeriods[t]), [state |-> s, lot |-> l]) = <<[state |-> s, lot |-> l]>>
  BY <1>2, <1>3, AppendFacts, EmptySeq
<1>5. <<[state |-> s, lot |-> l]>> \in Seq(PeriodRows)
  BY <1>3
<1>6. openPeriods' = [openPeriods EXCEPT ![t] = <<[state |-> s, lot |-> l]>>]
  BY <1>4 DEF Move
<1>7. [row EXCEPT !.state = s, !.version = @ + 1] \in TankRows
  <2>1. row.version + 1 \in Nat
    BY DEF TankRows
  <2> DEFINE w == row.version + 1
  <2> HIDE DEF w
  <2>2. [row EXCEPT !.state = s, !.version = w] \in TankRows
    BY <2>1 DEF TankRows, w
  <2> QED BY <2>2 DEF w
<1>8. tank' = [tank EXCEPT ![t] = [row EXCEPT !.state = s, !.version = @ + 1]]
  BY DEF Move
<1>9. /\ tank' \in [Tanks -> TankRows]
      /\ tank'[t] = [row EXCEPT !.state = s, !.version = @ + 1]
      /\ \A x \in Tanks \ {t} : tank'[x] = tank[x]
  BY <1>7, <1>8 DEF PlantTypeOK
<1>10. /\ openPeriods' \in [Tanks -> Seq(PeriodRows)]
       /\ openPeriods'[t] = <<[state |-> s, lot |-> l]>>
       /\ \A x \in Tanks \ {t} : openPeriods'[x] = openPeriods[x]
  BY <1>5, <1>6 DEF PlantTypeOK
<1> QED BY <1>9, <1>10 DEF TankRows

LEMMA BumpEffect ==
  ASSUME PlantTypeOK, NEW t \in Tanks, BumpVersion(t)
  PROVE  /\ tank' \in [Tanks -> TankRows]
         /\ tank'[t].version = tank[t].version + 1
         /\ tank'[t].state = tank[t].state
         /\ tank'[t].activeLot = tank[t].activeLot
         /\ tank'[t].serviceReason = tank[t].serviceReason
         /\ \A x \in Tanks \ {t} : tank'[x] = tank[x]
<1>1. tank \in [Tanks -> TankRows] /\ tank[t].version + 1 \in Nat
  BY DEF PlantTypeOK, TankRows
<1> DEFINE w == tank[t].version + 1
<1>2. tank' = [tank EXCEPT ![t].version = w] /\ w \in Nat
  BY <1>1 DEF BumpVersion
<1> HIDE DEF w
<1>3. /\ tank' \in [Tanks -> TankRows]
      /\ tank'[t].version = w
      /\ tank'[t].state = tank[t].state
      /\ tank'[t].activeLot = tank[t].activeLot
      /\ tank'[t].serviceReason = tank[t].serviceReason
      /\ \A x \in Tanks \ {t} : tank'[x] = tank[x]
  BY <1>1, <1>2 DEF TankRows
<1> QED BY <1>3 DEF w

LEMMA MovePeriod ==
  ASSUME PlantTypeOK, NEW t \in Tanks, PeriodMatchesState(t),
         NEW s \in TankStates, NEW row \in TankRows, NEW l \in LotOrNone,
         Move(t, s, row, l),
         row.activeLot # NoLot => row.activeLot = l,
         row.serviceReason <=> s = "FUERA_DE_SERVICIO"
  PROVE  PeriodMatchesState(t)'
<1>1. /\ tank'[t].state = s
      /\ tank'[t].activeLot = row.activeLot
      /\ tank'[t].serviceReason = row.serviceReason
      /\ openPeriods'[t] = <<[state |-> s, lot |-> l]>>
  BY MoveEffect
<1>2. Len(openPeriods'[t]) = 1 /\ openPeriods'[t][1] = [state |-> s, lot |-> l]
  BY <1>1
<1> QED BY <1>1, <1>2 DEF PeriodMatchesState, Active

LEMMA StateAudited ==
  ASSUME PlantTypeOK, NEW t \in Tanks, NEW s \in TankStates,
         audited' = [audited EXCEPT ![t].state = s]
  PROVE  audited' \in [Tanks -> LastAudited]
BY DEF PlantTypeOK, LastAudited

LEMMA FactAudited ==
  ASSUME PlantTypeOK, NEW t \in Tanks, NEW c \in Contents
  PROVE  /\ [audited EXCEPT ![t].order = c] \in [Tanks -> LastAudited]
         /\ [audited EXCEPT ![t].packaging = c] \in [Tanks -> LastAudited]
         /\ [audited EXCEPT ![t].decision = c] \in [Tanks -> LastAudited]
<1>1. audited \in [Tanks -> LastAudited] /\ c \in ContentOrNone
  BY DEF PlantTypeOK, ContentOrNone
<1> QED BY <1>1 DEF LastAudited

LEMMA StateAndFactAudited ==
  ASSUME PlantTypeOK, NEW t \in Tanks, NEW s \in TankStates, NEW c \in Contents
  PROVE  /\ [audited EXCEPT ![t].state = s, ![t].order = c] \in [Tanks -> LastAudited]
         /\ [audited EXCEPT ![t].state = s, ![t].packaging = c] \in [Tanks -> LastAudited]
         /\ [audited EXCEPT ![t].state = s, ![t].decision = c] \in [Tanks -> LastAudited]
<1>1. audited \in [Tanks -> LastAudited] /\ c \in ContentOrNone
  BY DEF PlantTypeOK, ContentOrNone
<1> QED BY <1>1 DEF LastAudited

\* What is known of the tank an operation works on.
RowsInv == PlantTypeOK /\ StateMatchesRecords /\ FreshLots

LEMMA TankFacts ==
  ASSUME RowsInv, NEW t \in Tanks
  PROVE  /\ tank[t] \in TankRows
         /\ Active(t) \in LotOrNone /\ Active(t) = tank[t].activeLot
         /\ Active(t) # NoLot => Active(t) \in Lots /\ lot[Active(t)].tank = t
                                 /\ ~lot[Active(t)].finished
         /\ PlantTypeOK
         /\ LotMatchesState(t) /\ LaboratoryMatchesState(t)
         /\ FinalOperationMatchesState(t) /\ PeriodMatchesState(t)
BY DEF RowsInv, PlantTypeOK, StateMatchesRecords, LotMatchesState, TankRows, Active, LotOrNone

LEMMA StepKeepsRows ==
  ASSUME RowsInv, NEW t \in Tanks, NEW m \in LotOrNone, Local(t, m), PlantTypeOK',
         LotMatchesState(t)', LaboratoryMatchesState(t)',
         FinalOperationMatchesState(t)', PeriodMatchesState(t)'
  PROVE  RowsInv'
BY LocalStep DEF RowsInv, RowsMatchState

-----------------------------------------------------------------------------
(* Manufacturing. *)

LEMMA StartKeepsRows ==
  ASSUME RowsInv, NEW u \in Users, NEW t \in Tanks, NEW v, NEW l \in Lots,
         NEW o \in Contents, Start(u, t, v, l, o)
  PROVE  RowsInv'
<1> DEFINE row == [tank[t] EXCEPT !.activeLot = l]
<1>1. /\ tank[t].state = "VACIO" /\ lot[l].tank = NoTank
      /\ lot' = [lot EXCEPT ![l].tank = t, ![l].order = o]
      /\ Move(t, "FABRICANDO", row, l)
      /\ audited' = [audited EXCEPT ![t].state = "FABRICANDO", ![t].order = o]
      /\ UNCHANGED <<samples, decisions, openOrders, openTransfers, notice>>
  BY DEF Start, Current
<1>2. /\ tank[t] \in TankRows /\ Active(t) = NoLot /\ PlantTypeOK
      /\ LotMatchesState(t) /\ FinalOperationMatchesState(t) /\ PeriodMatchesState(t)
  BY <1>1, TankFacts DEF LotMatchesState
<1>3. row \in TankRows /\ row.activeLot = l /\ row.serviceReason = tank[t].serviceReason
  BY <1>2 DEF TankRows, LotOrNone
<1>4. "FABRICANDO" \in TankStates /\ l \in LotOrNone
  BY DEF TankStates, LotOrNone
<1>5. ~row.serviceReason
  BY <1>1, <1>2, <1>3 DEF PeriodMatchesState
<1> HIDE DEF row
<1>6. /\ tank' \in [Tanks -> TankRows]
      /\ openPeriods' \in [Tanks -> Seq(PeriodRows)]
      /\ tank'[t].state = "FABRICANDO" /\ tank'[t].activeLot = l
      /\ \A x \in Tanks \ {t} : tank'[x] = tank[x] /\ openPeriods'[x] = openPeriods[x]
  BY <1>1, <1>2, <1>3, <1>4, MoveEffect
<1>7. PeriodMatchesState(t)'
  BY <1>1, <1>2, <1>3, <1>4, <1>5, MovePeriod
<1>8. /\ lot' \in [Lots -> LotRows]
      /\ lot'[l].tank = t /\ lot'[l].finished = lot[l].finished
      /\ lot'[l].specificWeight = lot[l].specificWeight
      /\ \A k \in Lots \ {l} : lot'[k] = lot[k]
  BY <1>1, <1>2 DEF PlantTypeOK, LotRows, ContentOrNone
<1>9. audited' \in [Tanks -> LastAudited]
  BY <1>1, <1>2, <1>4 DEF PlantTypeOK, LastAudited, ContentOrNone
<1>10. PlantTypeOK'
  BY <1>1, <1>2, <1>6, <1>8, <1>9 DEF PlantTypeOK
<1>11. Local(t, l)
  BY <1>1, <1>2, <1>6, <1>8 DEF Local
<1>12. Active(t)' = l /\ l # NoLot
  BY <1>6, LotIds DEF Active
<1>13. /\ ~lot[l].finished /\ ~lot[l].specificWeight
       /\ samples[l] = << >> /\ decisions[l] = << >>
  BY <1>1 DEF RowsInv, FreshLots
<1>14. LotMatchesState(t)'
  BY <1>2, <1>6, <1>8, <1>11, <1>12, <1>13, LotHeld
<1>15. LaboratoryMatchesState(t)'
  BY <1>1, <1>6, <1>12, <1>13 DEF LaboratoryMatchesState
<1>16. FinalOperationMatchesState(t)'
  BY <1>1, <1>2, <1>6, <1>8, <1>12, <1>13 DEF FinalOperationMatchesState
<1> QED BY <1>4, <1>7, <1>10, <1>11, <1>14, <1>15, <1>16, StepKeepsRows

\* Operations that keep the lot in the tank, seen from the row of the lot.
LEMMA LotRowKept ==
  ASSUME RowsInv, NEW t \in Tanks, Active(t) # NoLot, Local(t, Active(t)),
         Active(t)' = Active(t), lot'[Active(t)].finished = lot[Active(t)].finished,
         tank'[t].state \notin {"VACIO", "FUERA_DE_SERVICIO"}
  PROVE  LotMatchesState(t)'
<1> DEFINE m == Active(t)
<1>1. /\ m \in Lots /\ LotMatchesState(t) /\ ~lot[m].finished
      /\ Local(t, m) /\ lot'[m].finished = lot[m].finished
  BY TankFacts
<1>2. Active(t)' = m
  OBVIOUS
<1> HIDE DEF m
<1> QED BY <1>1, <1>2, LotHeld

LEMMA SendToLabKeepsRows ==
  ASSUME RowsInv, NEW u \in Users, NEW t \in Tanks, NEW v, SendToLab(u, t, v)
  PROVE  RowsInv'
<1> DEFINE l == Active(t)
<1>1. /\ tank[t].state \in {"FABRICANDO", "AJUSTE"}
      /\ samples' = [samples EXCEPT ![l] = Append(@, "AWAITING_RECEIPT")]
      /\ Move(t, "LABORATORIO", tank[t], l)
      /\ audited' = [audited EXCEPT ![t].state = "LABORATORIO"]
      /\ notice' = [notice EXCEPT ![t] = "LABORATORIO"]
      /\ UNCHANGED <<lot, decisions, openOrders, openTransfers>>
  BY DEF SendToLab, Current, Active, Notify
<1>2. /\ tank[t] \in TankRows /\ l \in Lots /\ l # NoLot /\ PlantTypeOK
      /\ l = tank[t].activeLot /\ l \in LotOrNone
      /\ lot[l].tank = t
      /\ LaboratoryMatchesState(t)
      /\ FinalOperationMatchesState(t) /\ PeriodMatchesState(t)
  <2>1. l # NoLot
    BY DEF SendToLab, Active
  <2> QED BY <2>1, TankFacts
<1>3. Active(t) = l /\ tank[t].serviceReason = FALSE
  BY <1>1, <1>2 DEF PeriodMatchesState, TankRows
<1> HIDE DEF l
<1>4. "LABORATORIO" \in TankStates /\ "AWAITING_RECEIPT" \in SampleStatuses
  BY DEF TankStates, SampleStatuses
<1>5. /\ tank' \in [Tanks -> TankRows]
      /\ openPeriods' \in [Tanks -> Seq(PeriodRows)]
      /\ tank'[t].state = "LABORATORIO" /\ tank'[t].activeLot = l
      /\ \A x \in Tanks \ {t} : tank'[x] = tank[x] /\ openPeriods'[x] = openPeriods[x]
  BY <1>1, <1>2, <1>4, MoveEffect
<1>6. PeriodMatchesState(t)'
  BY <1>1, <1>2, <1>3, <1>4, MovePeriod
<1> DEFINE q == samples[l]
<1>7. q \in Seq(SampleStatuses) /\ decisions[l] \in Seq(DecisionRows)
  BY <1>2 DEF PlantTypeOK
<1>8. /\ Append(q, "AWAITING_RECEIPT") \in Seq(SampleStatuses)
      /\ samples' \in [Lots -> Seq(SampleStatuses)]
      /\ samples'[l] = Append(q, "AWAITING_RECEIPT")
      /\ \A k \in Lots \ {l} : samples'[k] = samples[k]
  BY <1>1, <1>2, <1>4, <1>7 DEF PlantTypeOK
<1>9. audited' \in [Tanks -> LastAudited] /\ notice' \in [Tanks -> Sectors \cup {"NONE"}]
  BY <1>1, <1>2, <1>4 DEF PlantTypeOK, LastAudited, Sectors
<1>10. PlantTypeOK'
  BY <1>1, <1>2, <1>5, <1>8, <1>9 DEF PlantTypeOK
<1>11. Local(t, l)
  BY <1>1, <1>2, <1>3, <1>5, <1>8 DEF Local
<1>12. Active(t)' = l
  BY <1>5 DEF Active
<1>13. LotMatchesState(t)'
  BY <1>1, <1>2, <1>3, <1>5, <1>11, <1>12, LotRowKept
<1>14. LaboratoryMatchesState(t)'
  <2>1. /\ samples'[l] # << >> /\ Len(samples'[l]) = Len(q) + 1 /\ Len(q) \in Nat
        /\ DOMAIN samples'[l] = 1 .. Len(q) + 1 /\ DOMAIN q = 1 .. Len(q)
        /\ \A i \in 1 .. Len(q) : samples'[l][i] = q[i]
        /\ samples'[l][Len(q) + 1] = "AWAITING_RECEIPT"
    BY <1>4, <1>7, <1>8, AppendProperties, LenProperties
  <2>2. /\ \A i \in 1 .. Len(q) : q[i] = "RESOLVED"
        /\ Len(decisions[l]) = Len(q)
        /\ DOMAIN decisions[l] = 1 .. Len(q)
    BY <1>1, <1>2, <1>3, <1>7, <2>1, LenProperties DEF LaboratoryMatchesState
  <2>3. \A i \in 1 .. Len(q) : decisions[l][i].result = "AJUSTE"
    <3>1. CASE tank[t].state = "FABRICANDO"
      <4>1. q = << >>
        BY <1>2, <1>3, <3>1 DEF LaboratoryMatchesState
      <4> QED BY <4>1
    <3>2. CASE tank[t].state = "AJUSTE"
      BY <1>2, <1>3, <2>2, <3>2 DEF LaboratoryMatchesState, Filling
    <3> QED BY <1>1, <3>1, <3>2
  <2> HIDE DEF q
  <2>4. \A i \in 1 .. Len(q) + 1 : samples'[l][i] = "RESOLVED" <=> i < Len(q) + 1
    BY <2>1, <2>2
  <2> QED BY <1>1, <1>5, <1>12, <2>1, <2>2, <2>3, <2>4 DEF LaboratoryMatchesState
<1>15. FinalOperationMatchesState(t)'
  BY <1>1, <1>2, <1>3, <1>5, <1>12 DEF FinalOperationMatchesState
<1> QED BY <1>2, <1>6, <1>10, <1>11, <1>13, <1>14, <1>15, StepKeepsRows

\* A tank of which nothing but its state changes: it goes out of service or
\* comes back.
LEMMA ServiceKeepsRows ==
  ASSUME RowsInv, NEW t \in Tanks, NEW s \in {"VACIO", "FUERA_DE_SERVICIO"},
         tank[t].state \in {"VACIO", "FUERA_DE_SERVICIO"},
         Move(t, s, [tank[t] EXCEPT !.serviceReason = (s = "FUERA_DE_SERVICIO")], NoLot),
         audited' = [audited EXCEPT ![t].state = s],
         UNCHANGED <<lot, samples, decisions, openOrders, openTransfers, notice>>
  PROVE  RowsInv'
<1> DEFINE row == [tank[t] EXCEPT !.serviceReason = (s = "FUERA_DE_SERVICIO")]
<1>1. /\ tank[t] \in TankRows /\ Active(t) = NoLot /\ PlantTypeOK
      /\ tank[t].activeLot = NoLot
      /\ LotMatchesState(t) /\ FinalOperationMatchesState(t) /\ PeriodMatchesState(t)
  BY TankFacts DEF LotMatchesState
<1>2. /\ row \in TankRows /\ row.activeLot = NoLot
      /\ row.serviceReason = (s = "FUERA_DE_SERVICIO")
  BY <1>1 DEF TankRows
<1>3. s \in TankStates /\ NoLot \in LotOrNone /\ Move(t, s, row, NoLot)
  BY DEF TankStates, LotOrNone
<1> HIDE DEF row
<1>4. /\ tank' \in [Tanks -> TankRows]
      /\ openPeriods' \in [Tanks -> Seq(PeriodRows)]
      /\ tank'[t].state = s /\ tank'[t].activeLot = NoLot
      /\ \A x \in Tanks \ {t} : tank'[x] = tank[x] /\ openPeriods'[x] = openPeriods[x]
  BY <1>1, <1>2, <1>3, MoveEffect
<1>5. PeriodMatchesState(t)'
  BY <1>1, <1>2, <1>3, MovePeriod
<1>6. audited' \in [Tanks -> LastAudited]
  BY <1>1, <1>3, StateAudited
<1>7. PlantTypeOK'
  BY <1>1, <1>4, <1>6 DEF PlantTypeOK
<1>8. Local(t, NoLot)
  BY <1>1, <1>4, LotIds DEF Local
<1>9. Active(t)' = NoLot
  BY <1>4 DEF Active
<1>10. LotMatchesState(t)'
  BY <1>1, <1>3, <1>4, <1>8, <1>9, LotIds, LotGone
<1>11. LaboratoryMatchesState(t)'
  BY <1>9 DEF LaboratoryMatchesState
<1>12. FinalOperationMatchesState(t)'
  BY <1>1, <1>4, <1>9 DEF FinalOperationMatchesState
<1> QED BY <1>3, <1>5, <1>7, <1>8, <1>10, <1>11, <1>12, StepKeepsRows

LEMMA ServiceOutKeepsRows ==
  ASSUME RowsInv, NEW u \in Users, NEW t \in Tanks, NEW v, ServiceOut(u, t, v)
  PROVE  RowsInv'
<1>1. ("FUERA_DE_SERVICIO" = "FUERA_DE_SERVICIO") = TRUE
  OBVIOUS
<1>2. /\ tank[t].state = "VACIO"
      /\ Move(t, "FUERA_DE_SERVICIO", [tank[t] EXCEPT !.serviceReason = TRUE], NoLot)
      /\ audited' = [audited EXCEPT ![t].state = "FUERA_DE_SERVICIO"]
      /\ UNCHANGED <<lot, samples, decisions, openOrders, openTransfers, notice>>
  BY DEF ServiceOut, Current, labVars, finalVars
<1> QED BY <1>1, <1>2, ServiceKeepsRows

LEMMA ServiceInKeepsRows ==
  ASSUME RowsInv, NEW u \in Users, NEW t \in Tanks, NEW v, ServiceIn(u, t, v)
  PROVE  RowsInv'
<1>1. ("VACIO" = "FUERA_DE_SERVICIO") = FALSE
  OBVIOUS
<1>2. /\ tank[t].state = "FUERA_DE_SERVICIO"
      /\ Move(t, "VACIO", [tank[t] EXCEPT !.serviceReason = FALSE], NoLot)
      /\ audited' = [audited EXCEPT ![t].state = "VACIO"]
      /\ UNCHANGED <<lot, samples, decisions, openOrders, openTransfers, notice>>
  BY DEF ServiceIn, Current, labVars, finalVars
<1> QED BY <1>1, <1>2, ServiceKeepsRows

\* The end of a lot: the tank is emptied, whatever was open for it is closed.
LEMMA LeaveKeepsRows ==
  ASSUME RowsInv, NEW t \in Tanks, Active(t) # NoLot,
         Move(t, "VACIO", [tank[t] EXCEPT !.activeLot = NoLot], Active(t)),
         lot' \in [Lots -> LotRows],
         lot'[Active(t)].tank = t, lot'[Active(t)].finished,
         \A k \in Lots \ {Active(t)} : lot'[k] = lot[k],
         openOrders' \in [Tanks -> Seq(OrderRows)], openOrders'[t] = << >>,
         openTransfers' \in [Tanks -> Seq(Lots)], openTransfers'[t] = << >>,
         \A x \in Tanks \ {t} : /\ openOrders'[x] = openOrders[x]
                                /\ openTransfers'[x] = openTransfers[x],
         audited' = [audited EXCEPT ![t].state = "VACIO"],
         notice' \in [Tanks -> Sectors \cup {"NONE"}],
         UNCHANGED <<samples, decisions>>
  PROVE  RowsInv'
<1> DEFINE row == [tank[t] EXCEPT !.activeLot = NoLot]
           l == Active(t)
<1>1. /\ tank[t] \in TankRows /\ l \in Lots /\ PlantTypeOK
      /\ LotMatchesState(t) /\ PeriodMatchesState(t)
  BY TankFacts
<1>2. ~tank[t].serviceReason
  BY <1>1 DEF LotMatchesState, PeriodMatchesState
<1>3. row \in TankRows /\ row.activeLot = NoLot /\ ~row.serviceReason
  BY <1>1, <1>2 DEF TankRows, LotOrNone
<1>4. /\ l # NoLot /\ Active(t) = l
      /\ lot'[l].tank = t /\ lot'[l].finished
      /\ \A k \in Lots \ {l} : lot'[k] = lot[k]
  BY <1>1, LotIds
<1>0. "VACIO" \in TankStates /\ l \in LotOrNone /\ Move(t, "VACIO", row, l)
  BY <1>1 DEF TankStates, LotOrNone
<1> HIDE DEF row, l
<1>5. /\ tank' \in [Tanks -> TankRows]
      /\ openPeriods' \in [Tanks -> Seq(PeriodRows)]
      /\ tank'[t].state = "VACIO" /\ tank'[t].activeLot = NoLot
      /\ \A x \in Tanks \ {t} : tank'[x] = tank[x] /\ openPeriods'[x] = openPeriods[x]
  <2>1. PlantTypeOK /\ PeriodMatchesState(t) /\ row \in TankRows
    BY <1>1, <1>3
  <2>2. /\ tank' \in [Tanks -> TankRows]
        /\ openPeriods' \in [Tanks -> Seq(PeriodRows)]
        /\ tank'[t].state = "VACIO" /\ tank'[t].activeLot = row.activeLot
        /\ \A x \in Tanks \ {t} : tank'[x] = tank[x] /\ openPeriods'[x] = openPeriods[x]
    BY ONLY <1>0, <2>1, MoveEffect, t \in Tanks
  <2> QED BY <1>3, <2>2
<1>6. PeriodMatchesState(t)'
  BY <1>0, <1>1, <1>3, MovePeriod
<1>7. audited' \in [Tanks -> LastAudited]
  BY <1>0, <1>1, StateAudited
<1>8. PlantTypeOK'
  BY <1>1, <1>5, <1>7 DEF PlantTypeOK
<1>9. Local(t, l)
  BY <1>4, <1>5 DEF Local
<1>10. Active(t)' = NoLot
  BY <1>5 DEF Active
<1>11. LotMatchesState(t)'
  BY <1>0, <1>1, <1>4, <1>5, <1>9, <1>10, LotGone
<1>12. LaboratoryMatchesState(t)'
  BY <1>10 DEF LaboratoryMatchesState
<1>13. FinalOperationMatchesState(t)'
  BY <1>5, <1>10 DEF FinalOperationMatchesState
<1> QED BY <1>0, <1>6, <1>8, <1>9, <1>11, <1>12, <1>13, StepKeepsRows

LEMMA EmptyRejectedKeepsRows ==
  ASSUME RowsInv, NEW u \in Users, NEW t \in Tanks, NEW v, EmptyRejected(u, t, v)
  PROVE  RowsInv'
<1>1. /\ tank[t].state = "RECHAZADO"
      /\ lot' = [lot EXCEPT ![Active(t)].finished = TRUE]
      /\ Move(t, "VACIO", [tank[t] EXCEPT !.activeLot = NoLot], Active(t))
      /\ audited' = [audited EXCEPT ![t].state = "VACIO"]
      /\ UNCHANGED <<samples, decisions, openOrders, openTransfers, notice>>
  BY DEF EmptyRejected, Current, Active, labVars, finalVars
<1>2. /\ PlantTypeOK /\ LotMatchesState(t) /\ FinalOperationMatchesState(t)
      /\ Active(t) \in LotOrNone
  BY TankFacts
<1>3. Active(t) # NoLot /\ Active(t) \in Lots /\ lot[Active(t)].tank = t
  BY <1>1, <1>2, TankFacts DEF LotMatchesState
<1>4. /\ lot' \in [Lots -> LotRows] /\ lot'[Active(t)].tank = t
      /\ lot'[Active(t)].finished
      /\ \A k \in Lots \ {Active(t)} : lot'[k] = lot[k]
  BY <1>1, <1>2, <1>3 DEF PlantTypeOK, LotRows
<1>5. openOrders[t] = << >> /\ openTransfers[t] = << >>
  BY <1>1, <1>2 DEF FinalOperationMatchesState
<1> QED BY <1>1, <1>2, <1>3, <1>4, <1>5, LeaveKeepsRows DEF PlantTypeOK

\* closePackaging: the order it closes is the only one and is of the lot in the
\* tank.
LEMMA OneOpenOrder ==
  ASSUME RowsInv, NEW t \in Tanks, tank[t].state = "ENVASANDO"
  PROVE  /\ Active(t) # NoLot /\ Active(t) \in Lots /\ lot[Active(t)].tank = t
         /\ openOrders[t] \in Seq(OrderRows)
         /\ Len(openOrders[t]) = 1 /\ Front(openOrders[t]) = << >>
         /\ Last(openOrders[t]) = openOrders[t][1]
         /\ Last(openOrders[t]).lot = Active(t)
<1>1. /\ LotMatchesState(t) /\ FinalOperationMatchesState(t)
      /\ openOrders[t] \in Seq(OrderRows)
  BY TankFacts DEF PlantTypeOK
<1>2. Active(t) # NoLot /\ Active(t) \in Lots /\ lot[Active(t)].tank = t
  BY <1>1, TankFacts DEF LotMatchesState
<1>3. Len(openOrders[t]) = 1 /\ openOrders[t][1].lot = Active(t)
  BY <1>1 DEF FinalOperationMatchesState
<1>4. Front(openOrders[t]) = << >>
  BY <1>3, SubSeqEmpty DEF Front
<1>5. Last(openOrders[t]) = openOrders[t][1]
  BY <1>3 DEF Last
<1> QED BY <1>1, <1>2, <1>3, <1>4, <1>5

LEMMA ClosedRow ==
  ASSUME NEW r \in LotRows
  PROVE  /\ [r EXCEPT !.closed = @ + 1, !.finished = TRUE] \in LotRows
         /\ [r EXCEPT !.closed = @ + 1] \in LotRows
<1>1. r.closed + 1 \in Nat
  BY DEF LotRows
<1> DEFINE n == r.closed + 1
<1> HIDE DEF n
<1>2. /\ [r EXCEPT !.closed = n, !.finished = TRUE] \in LotRows
      /\ [r EXCEPT !.closed = n] \in LotRows
  BY <1>1 DEF LotRows, n
<1> QED BY <1>2 DEF n

LEMMA FinishPackagingKeepsRows ==
  ASSUME RowsInv, NEW u \in Users, NEW t \in Tanks, NEW v, FinishPackaging(u, t, v)
  PROVE  RowsInv'
<1> DEFINE l == Active(t)
<1>1. /\ tank[t].state = "ENVASANDO"
      /\ openOrders' = [openOrders EXCEPT ![t] = Front(@)]
      /\ lot' = [lot EXCEPT ![Last(openOrders[t]).lot].closed = @ + 1,
                            ![l].finished = TRUE]
      /\ Move(t, "VACIO", [tank[t] EXCEPT !.activeLot = NoLot], l)
      /\ audited' = [audited EXCEPT ![t].state = "VACIO"]
      /\ notice' = [notice EXCEPT ![t] = "FABRICACION"]
      /\ UNCHANGED <<samples, decisions, openTransfers>>
  BY DEF FinishPackaging, Current, Active, Notify, labVars
<1>2. /\ PlantTypeOK /\ FinalOperationMatchesState(t)
      /\ l # NoLot /\ l \in Lots /\ lot[l].tank = t
      /\ Front(openOrders[t]) = << >> /\ Last(openOrders[t]).lot = l
  BY <1>1, TankFacts, OneOpenOrder
<1> HIDE DEF l
<1>3. lot' = [lot EXCEPT ![l] = [lot[l] EXCEPT !.closed = @ + 1, !.finished = TRUE]]
  BY <1>1, <1>2 DEF PlantTypeOK
<1>4. [lot[l] EXCEPT !.closed = @ + 1, !.finished = TRUE] \in LotRows
  BY <1>2, ClosedRow DEF PlantTypeOK
<1>5. /\ lot' \in [Lots -> LotRows] /\ lot'[l].tank = t /\ lot'[l].finished
      /\ \A k \in Lots \ {l} : lot'[k] = lot[k]
  BY <1>2, <1>3, <1>4 DEF PlantTypeOK, LotRows
<1>6. openOrders' = [openOrders EXCEPT ![t] = << >>]
  BY <1>1, <1>2
<1>7. /\ openOrders' \in [Tanks -> Seq(OrderRows)] /\ openOrders'[t] = << >>
      /\ \A x \in Tanks \ {t} : openOrders'[x] = openOrders[x]
  BY <1>2, <1>6, EmptySeq DEF PlantTypeOK
<1>8. openTransfers[t] = << >> /\ openTransfers \in [Tanks -> Seq(Lots)]
  BY <1>1, <1>2 DEF FinalOperationMatchesState, PlantTypeOK
<1>9. notice' \in [Tanks -> Sectors \cup {"NONE"}]
  BY <1>1, <1>2 DEF PlantTypeOK, Sectors
<1> QED BY <1>1, <1>2, <1>5, <1>7, <1>8, <1>9, LeaveKeepsRows DEF l

LEMMA FinishTransferKeepsRows ==
  ASSUME RowsInv, NEW u \in Users, NEW t \in Tanks, NEW v, FinishTransfer(u, t, v)
  PROVE  RowsInv'
<1> DEFINE l == Active(t)
<1>1. /\ tank[t].state = "TRASVASANDO"
      /\ openTransfers' = [openTransfers EXCEPT ![t] = Front(@)]
      /\ lot' = [lot EXCEPT ![Last(openTransfers[t])].closed = @ + 1,
                            ![l].finished = TRUE]
      /\ Move(t, "VACIO", [tank[t] EXCEPT !.activeLot = NoLot], l)
      /\ audited' = [audited EXCEPT ![t].state = "VACIO"]
      /\ UNCHANGED <<samples, decisions, openOrders, notice>>
  BY DEF FinishTransfer, Current, Active, labVars
<1>2. /\ PlantTypeOK /\ FinalOperationMatchesState(t)
      /\ l # NoLot /\ l \in Lots /\ lot[l].tank = t
  BY <1>1, TankFacts DEF LotMatchesState
<1>3. openTransfers[t] = <<l>>
  BY <1>1, <1>2 DEF FinalOperationMatchesState
<1> HIDE DEF l
<1>4. Len(openTransfers[t]) = 1 /\ openTransfers[t][1] = l
  BY <1>3
<1>5. Front(openTransfers[t]) = << >> /\ Last(openTransfers[t]) = l
  BY <1>4, SubSeqEmpty DEF Front, Last
<1>6. lot' = [lot EXCEPT ![l] = [lot[l] EXCEPT !.closed = @ + 1, !.finished = TRUE]]
  BY <1>1, <1>2, <1>5 DEF PlantTypeOK
<1>7. [lot[l] EXCEPT !.closed = @ + 1, !.finished = TRUE] \in LotRows
  BY <1>2, ClosedRow DEF PlantTypeOK
<1>8. /\ lot' \in [Lots -> LotRows] /\ lot'[l].tank = t /\ lot'[l].finished
      /\ \A k \in Lots \ {l} : lot'[k] = lot[k]
  BY <1>2, <1>6, <1>7 DEF PlantTypeOK, LotRows
<1>9. openTransfers' = [openTransfers EXCEPT ![t] = << >>]
  BY <1>1, <1>5
<1>10. /\ openTransfers' \in [Tanks -> Seq(Lots)] /\ openTransfers'[t] = << >>
       /\ \A x \in Tanks \ {t} : openTransfers'[x] = openTransfers[x]
  BY <1>2, <1>9, EmptySeq DEF PlantTypeOK
<1>11. openOrders[t] = << >> /\ openOrders \in [Tanks -> Seq(OrderRows)]
       /\ notice \in [Tanks -> Sectors \cup {"NONE"}]
  BY <1>1, <1>2 DEF FinalOperationMatchesState, PlantTypeOK
<1> QED BY <1>1, <1>2, <1>8, <1>10, <1>11, LeaveKeepsRows DEF l

-----------------------------------------------------------------------------
(* Operations that keep the state. *)

LEMMA BumpKeepsRows ==
  ASSUME RowsInv, NEW t \in Tanks, NEW l \in Lots, Active(t) = l, BumpVersion(t),
         openPeriods' = openPeriods, openTransfers' = openTransfers,
         lot' \in [Lots -> LotRows],
         lot'[l].tank = t, lot'[l].finished = lot[l].finished,
         lot'[l].specificWeight = lot[l].specificWeight,
         samples' \in [Lots -> Seq(SampleStatuses)],
         decisions' \in [Lots -> Seq(DecisionRows)],
         \A k \in Lots \ {l} : /\ lot'[k] = lot[k]
                               /\ samples'[k] = samples[k]
                               /\ decisions'[k] = decisions[k],
         openOrders' \in [Tanks -> Seq(OrderRows)],
         \A x \in Tanks \ {t} : openOrders'[x] = openOrders[x],
         audited' \in [Tanks -> LastAudited],
         notice' \in [Tanks -> Sectors \cup {"NONE"}],
         LaboratoryMatchesState(t)',
         IF tank[t].state = "ENVASANDO"
         THEN Len(openOrders'[t]) = 1 /\ openOrders'[t][1].lot = l
         ELSE openOrders'[t] = << >>
  PROVE  RowsInv'
<1>1. /\ PlantTypeOK /\ l # NoLot /\ l \in LotOrNone
      /\ LotMatchesState(t) /\ FinalOperationMatchesState(t) /\ PeriodMatchesState(t)
  BY TankFacts, LotIds
<1>2. /\ tank' \in [Tanks -> TankRows]
      /\ tank'[t].state = tank[t].state
      /\ tank'[t].activeLot = tank[t].activeLot
      /\ tank'[t].serviceReason = tank[t].serviceReason
      /\ \A x \in Tanks \ {t} : tank'[x] = tank[x]
  BY <1>1, BumpEffect
<1>3. PlantTypeOK'
  BY <1>1, <1>2 DEF PlantTypeOK
<1>4. Local(t, l)
  BY <1>2 DEF Local
<1>5. Active(t)' = l
  BY <1>2 DEF Active
<1>6. LotMatchesState(t)'
  <2>1. ~lot'[l].finished /\ tank'[t].state \notin {"VACIO", "FUERA_DE_SERVICIO"}
    BY <1>1, <1>2 DEF LotMatchesState
  <2> QED BY <1>1, <1>4, <1>5, <2>1, LotHeld
<1>7. FinalOperationMatchesState(t)'
  BY <1>1, <1>2, <1>5 DEF FinalOperationMatchesState
<1>8. PeriodMatchesState(t)'
  BY <1>1, <1>2, <1>5 DEF PeriodMatchesState
<1> QED BY <1>1, <1>3, <1>4, <1>6, <1>7, <1>8, StepKeepsRows

\* The laboratory rows agree as before when neither they nor the state changed.
LEMMA LaboratoryKept ==
  ASSUME NEW t \in Tanks, NEW l, LaboratoryMatchesState(t), Active(t) = l,
         Active(t)' = l, samples'[l] = samples[l], decisions'[l] = decisions[l],
         tank'[t].state = tank[t].state
  PROVE  LaboratoryMatchesState(t)'
BY DEF LaboratoryMatchesState, Filling

LEMMA CorrectLotKeepsRows ==
  ASSUME RowsInv, NEW u \in Users, NEW t \in Tanks, NEW v, NEW o \in Contents,
         CorrectLot(u, t, v, o)
  PROVE  RowsInv'
<1> DEFINE l == Active(t)
<1>1. /\ l # NoLot /\ BumpVersion(t)
      /\ lot' = [lot EXCEPT ![l].order = o]
      /\ audited' = [audited EXCEPT ![t].order = o]
      /\ UNCHANGED <<samples, decisions, openOrders, openTransfers, openPeriods, notice>>
  BY DEF CorrectLot, Active, labVars, finalVars
<1>2. /\ PlantTypeOK /\ l \in Lots /\ lot[l].tank = t
      /\ LaboratoryMatchesState(t) /\ FinalOperationMatchesState(t)
  BY <1>1, TankFacts
<1>3. Active(t) = l
  OBVIOUS
<1> HIDE DEF l
<1>4. /\ lot' \in [Lots -> LotRows]
      /\ lot'[l].tank = t /\ lot'[l].finished = lot[l].finished
      /\ lot'[l].specificWeight = lot[l].specificWeight
      /\ \A k \in Lots \ {l} : lot'[k] = lot[k]
  BY <1>1, <1>2 DEF PlantTypeOK, LotRows, ContentOrNone
<1>5. audited' \in [Tanks -> LastAudited]
  BY <1>1, <1>2, FactAudited
<1>6. tank'[t].state = tank[t].state /\ Active(t)' = l
  BY <1>1, <1>2, <1>3, BumpEffect DEF Active
<1>7. LaboratoryMatchesState(t)'
  BY <1>1, <1>2, <1>3, <1>6, LaboratoryKept
<1>8. IF tank[t].state = "ENVASANDO"
      THEN Len(openOrders'[t]) = 1 /\ openOrders'[t][1].lot = l
      ELSE openOrders'[t] = << >>
  BY <1>1, <1>2, <1>3 DEF FinalOperationMatchesState
<1> QED BY <1>1, <1>2, <1>3, <1>4, <1>5, <1>7, <1>8, BumpKeepsRows DEF PlantTypeOK

\* The only sample that is not resolved is the newest one.
LEMMA PendingIsNewest ==
  ASSUME RowsInv, NEW t \in Tanks, NEW l \in Lots, Active(t) = l,
         tank[t].state = "LABORATORIO", NEW s, s # "RESOLVED", WithStatus(l, s) # {}
  PROVE  /\ samples[l] \in Seq(SampleStatuses)
         /\ Len(samples[l]) \in Nat \ {0}
         /\ DOMAIN samples[l] = 1 .. Len(samples[l])
         /\ Newest(WithStatus(l, s)) = Len(samples[l])
         /\ \A i \in 1 .. Len(samples[l]) :
              samples[l][i] = "RESOLVED" <=> i < Len(samples[l])
<1> DEFINE n == Len(samples[l])
<1>1. samples[l] \in Seq(SampleStatuses) /\ LaboratoryMatchesState(t)
  BY TankFacts DEF PlantTypeOK
<1>2. n \in Nat /\ DOMAIN samples[l] = 1 .. n
  BY <1>1, LenProperties
<1>3. \A i \in 1 .. n : samples[l][i] = "RESOLVED" <=> i < n
  BY <1>1, <1>2, LotIds DEF LaboratoryMatchesState
<1>4. PICK i \in 1 .. n : samples[l][i] = s
  BY <1>2 DEF WithStatus
<1>5. \A j \in WithStatus(l, s) : j = n
  BY <1>2, <1>3 DEF WithStatus
<1>6. WithStatus(l, s) = {n} /\ n # 0
  BY <1>2, <1>4, <1>5
<1>7. Newest({n}) = n
  BY <1>2 DEF Newest
<1> QED BY <1>1, <1>2, <1>3, <1>6, <1>7

\* Reception of the sample and start of its analysis: the newest sample gets a
\* status that is still pending.
LEMMA SampleKeepsRows ==
  ASSUME RowsInv, NEW t \in Tanks, NEW l \in Lots, Active(t) = l,
         tank[t].state = "LABORATORIO",
         NEW s, s # "RESOLVED", WithStatus(l, s) # {},
         NEW next \in SampleStatuses, next # "RESOLVED",
         samples' = [samples EXCEPT ![l][Newest(WithStatus(l, s))] = next],
         BumpVersion(t),
         UNCHANGED <<lot, decisions, openOrders, openTransfers, openPeriods,
                     audited, notice>>
  PROVE  RowsInv'
<1> DEFINE q == samples[l]
           n == Len(q)
<1>1. /\ PlantTypeOK /\ lot[l].tank = t /\ l # NoLot
      /\ LaboratoryMatchesState(t) /\ FinalOperationMatchesState(t)
  BY TankFacts, LotIds
<1>2. /\ q \in Seq(SampleStatuses) /\ n \in Nat \ {0} /\ DOMAIN q = 1 .. n
      /\ Newest(WithStatus(l, s)) = n
      /\ \A i \in 1 .. n : q[i] = "RESOLVED" <=> i < n
  BY PendingIsNewest
<1>3. /\ [q EXCEPT ![n] = next] \in Seq(SampleStatuses)
      /\ Len([q EXCEPT ![n] = next]) = n
      /\ \A i \in 1 .. n : [q EXCEPT ![n] = next][i] = IF i = n THEN next ELSE q[i]
  BY <1>2, ExceptSeq
<1>4. samples' = [samples EXCEPT ![l] = [q EXCEPT ![n] = next]]
  BY <1>1, <1>2 DEF PlantTypeOK
<1> HIDE DEF q
<1> DEFINE r == [q EXCEPT ![n] = next]
<1>5. r \in Seq(SampleStatuses) /\ Len(r) = n /\ DOMAIN r = 1 .. n
  BY <1>3, LenProperties
<1>6. \A i \in 1 .. n : r[i] = "RESOLVED" <=> i < n
  BY <1>2, <1>3
<1>7. samples' = [samples EXCEPT ![l] = r]
  BY <1>4
<1> HIDE DEF r
<1>8. /\ samples' \in [Lots -> Seq(SampleStatuses)] /\ samples'[l] = r
      /\ \A k \in Lots \ {l} : samples'[k] = samples[k]
  BY <1>1, <1>5, <1>7 DEF PlantTypeOK
<1>9. tank'[t].state = "LABORATORIO" /\ Active(t)' = l
  BY <1>1, BumpEffect DEF Active
<1>10. LaboratoryMatchesState(t)'
  <2>1. /\ Len(decisions[l]) = n - 1
        /\ \A i \in DOMAIN decisions[l] :
             decisions[l][i].result = IF i < n THEN "AJUSTE" ELSE "LABORATORIO"
    BY <1>1 DEF LaboratoryMatchesState, Filling, q
  <2>2. r # << >>
    BY <1>2, <1>5
  <2>3. /\ Active(t)' = l /\ samples'[l] = r /\ decisions'[l] = decisions[l]
        /\ tank'[t].state = "LABORATORIO"
    BY <1>8, <1>9
  <2> QED BY <1>5, <1>6, <2>1, <2>2, <2>3 DEF LaboratoryMatchesState, Filling
<1>11. openOrders[t] = << >>
  BY <1>1 DEF FinalOperationMatchesState
<1> QED BY <1>1, <1>8, <1>10, <1>11, BumpKeepsRows DEF PlantTypeOK

LEMMA ReceiveKeepsRows ==
  ASSUME RowsInv, NEW u \in Users, NEW t \in Tanks, NEW v, NEW b \in BOOLEAN,
         ReceiveLaboratorySample(u, t, v, b)
  PROVE  RowsInv'
<1> DEFINE l == Active(t)
           next == IF b THEN "ANALYZING" ELSE "RECEIVED"
<1>1. /\ tank[t].state = "LABORATORIO" /\ l # NoLot
      /\ WithStatus(l, "AWAITING_RECEIPT") # {}
      /\ samples' = [samples EXCEPT ![l][Newest(WithStatus(l, "AWAITING_RECEIPT"))] = next]
      /\ BumpVersion(t)
      /\ UNCHANGED <<lot, decisions, openOrders, openTransfers, openPeriods,
                     audited, notice>>
  BY DEF ReceiveLaboratorySample, Current, Active, finalVars
<1>2. l \in Lots
  BY <1>1, TankFacts
<1>3. next \in SampleStatuses /\ next # "RESOLVED" /\ "AWAITING_RECEIPT" # "RESOLVED"
  BY DEF SampleStatuses
<1> HIDE DEF next
<1> QED BY <1>1, <1>2, <1>3, SampleKeepsRows

LEMMA AnalysisKeepsRows ==
  ASSUME RowsInv, NEW u \in Users, NEW t \in Tanks, NEW v, StartLaboratoryAnalysis(u, t, v)
  PROVE  RowsInv'
<1> DEFINE l == Active(t)
<1>1. /\ tank[t].state = "LABORATORIO" /\ l # NoLot
      /\ WithStatus(l, "RECEIVED") # {}
      /\ samples' = [samples EXCEPT ![l][Newest(WithStatus(l, "RECEIVED"))] = "ANALYZING"]
      /\ BumpVersion(t)
      /\ UNCHANGED <<lot, decisions, openOrders, openTransfers, openPeriods,
                     audited, notice>>
  BY DEF StartLaboratoryAnalysis, Current, Active, finalVars
<1>2. l \in Lots
  BY <1>1, TankFacts
<1>3. "ANALYZING" \in SampleStatuses /\ "ANALYZING" # "RESOLVED" /\ "RECEIVED" # "RESOLVED"
  BY DEF SampleStatuses
<1> QED BY <1>1, <1>2, <1>3, SampleKeepsRows

LEMMA CorrectQualityKeepsRows ==
  ASSUME RowsInv, NEW u \in Users, NEW t \in Tanks, NEW v, NEW c \in Contents,
         CorrectQualityAdjustment(u, t, v, c)
  PROVE  RowsInv'
<1> DEFINE l == Active(t)
           rows == {i \in DOMAIN decisions[l] : decisions[l][i].result = "AJUSTE"}
           n == Newest(rows)
<1>1. /\ tank[t].state = "AJUSTE" /\ l # NoLot /\ rows # {} /\ BumpVersion(t)
      /\ decisions' = [decisions EXCEPT ![l][n].content = c]
      /\ audited' = [audited EXCEPT ![t].decision = c]
      /\ notice' = [notice EXCEPT ![t] = "FABRICACION"]
      /\ UNCHANGED <<lot, samples, openOrders, openTransfers, openPeriods>>
  BY DEF CorrectQualityAdjustment, Current, Active, Notify, finalVars
<1>2. /\ PlantTypeOK /\ l \in Lots /\ lot[l].tank = t
      /\ LaboratoryMatchesState(t) /\ FinalOperationMatchesState(t)
  BY <1>1, TankFacts
<1> DEFINE q == decisions[l]
<1>3. q \in Seq(DecisionRows) /\ Len(q) \in Nat /\ DOMAIN q = 1 .. Len(q)
  BY <1>2, LenProperties DEF PlantTypeOK
<1>4. \A i \in 1 .. Len(q) : q[i].result = "AJUSTE"
  BY <1>1, <1>2, <1>3 DEF LaboratoryMatchesState, Filling
<1>5. rows = 1 .. Len(q)
  BY <1>3, <1>4
<1>6. Len(q) \in 1 .. Len(q)
  BY <1>1, <1>3, <1>5
<1>7. n \in 1 .. Len(q)
  <2>1. \A j \in rows : j <= Len(q)
    BY <1>3, <1>5
  <2>2. \E i \in rows : \A j \in rows : j <= i
    BY <1>5, <1>6, <2>1
  <2>3. n \in rows
    BY <2>2 DEF Newest
  <2> QED BY <1>5, <2>3
<1> DEFINE d == [q[n] EXCEPT !.content = c]
           r == [q EXCEPT ![n] = d]
<1>8. d \in DecisionRows /\ d.result = q[n].result
  <2>1. q[n] \in DecisionRows
    <3> HIDE DEF q, n
    <3> QED BY <1>3, <1>7, ElementOfSeq
  <2> HIDE DEF q, n
  <2> QED BY <2>1 DEF DecisionRows
<1>9. decisions' = [decisions EXCEPT ![l] = r]
  BY <1>1, <1>2 DEF PlantTypeOK
<1>10. Active(t) = l
  OBVIOUS
<1> HIDE DEF n, rows, l
<1>11. /\ r \in Seq(DecisionRows) /\ Len(r) = Len(q)
       /\ \A i \in 1 .. Len(q) : r[i] = IF i = n THEN d ELSE q[i]
  <2> HIDE DEF d, q
  <2> QED BY <1>3, <1>7, <1>8, ExceptSeq
<1>12. DOMAIN r = 1 .. Len(q) /\ \A i \in 1 .. Len(q) : r[i].result = "AJUSTE"
  <2> HIDE DEF d, q, r
  <2> QED BY <1>3, <1>4, <1>7, <1>8, <1>11, LenProperties
<1> HIDE DEF r
<1>13. /\ decisions' \in [Lots -> Seq(DecisionRows)] /\ decisions'[l] = r
       /\ \A k \in Lots \ {l} : decisions'[k] = decisions[k]
  BY <1>2, <1>9, <1>11 DEF PlantTypeOK
<1>14. audited' \in [Tanks -> LastAudited] /\ notice' \in [Tanks -> Sectors \cup {"NONE"}]
  BY <1>1, <1>2, FactAudited DEF PlantTypeOK, Sectors
<1>15. tank'[t].state = "AJUSTE" /\ Active(t)' = l
  BY <1>1, <1>2, <1>10, BumpEffect DEF Active
<1>16. LaboratoryMatchesState(t)'
  <2>1. /\ samples[l] # << >> /\ Len(q) = Len(samples[l])
        /\ \A i \in DOMAIN samples[l] : samples[l][i] = "RESOLVED"
    BY <1>1, <1>2, <1>10 DEF LaboratoryMatchesState
  <2>2. \A i \in DOMAIN r : r[i].result = "AJUSTE"
    BY <1>12
  <2>3. /\ Active(t)' = l /\ samples'[l] = samples[l] /\ decisions'[l] = r
        /\ tank'[t].state = "AJUSTE"
    BY <1>1, <1>13, <1>15
  <2> QED BY <1>11, <2>1, <2>2, <2>3 DEF LaboratoryMatchesState, Filling
<1>17. openOrders[t] = << >>
  BY <1>1, <1>2 DEF FinalOperationMatchesState
<1> QED BY <1>1, <1>2, <1>10, <1>13, <1>14, <1>16, <1>17, BumpKeepsRows DEF PlantTypeOK

-----------------------------------------------------------------------------
(* Packaging orders. *)

\* A correction or a replacement of the open order of a tank being packaged.
LEMMA OrderKeepsRows ==
  ASSUME RowsInv, NEW t \in Tanks, NEW l \in Lots, Active(t) = l,
         tank[t].state = "ENVASANDO", BumpVersion(t), NEW c \in Contents,
         openOrders' = [openOrders EXCEPT ![t] = <<[lot |-> l, content |-> c]>>],
         lot' \in [Lots -> LotRows],
         lot'[l].tank = t, lot'[l].finished = lot[l].finished,
         lot'[l].specificWeight = lot[l].specificWeight,
         \A k \in Lots \ {l} : lot'[k] = lot[k],
         audited' = [audited EXCEPT ![t].packaging = c],
         UNCHANGED <<samples, decisions, openTransfers, openPeriods, notice>>
  PROVE  RowsInv'
<1>1. PlantTypeOK /\ LaboratoryMatchesState(t) /\ lot[l].tank = t
  BY TankFacts, LotIds
<1> DEFINE e == [lot |-> l, content |-> c]
           q == <<e>>
<1>2. e \in OrderRows /\ e.lot = l
  BY DEF OrderRows
<1> HIDE DEF e
<1>3. q \in Seq(OrderRows) /\ Len(q) = 1 /\ q[1].lot = l
  BY <1>2
<1>4. openOrders' = [openOrders EXCEPT ![t] = q]
  BY DEF e
<1> HIDE DEF q
<1>5. /\ openOrders' \in [Tanks -> Seq(OrderRows)] /\ openOrders'[t] = q
      /\ \A x \in Tanks \ {t} : openOrders'[x] = openOrders[x]
  BY <1>1, <1>3, <1>4 DEF PlantTypeOK
<1>6. audited' \in [Tanks -> LastAudited]
  BY <1>1, FactAudited
<1>7. tank'[t].state = tank[t].state /\ Active(t)' = l
  BY <1>1, BumpEffect DEF Active
<1>8. LaboratoryMatchesState(t)'
  BY <1>1, <1>7, LaboratoryKept
<1>9. IF tank[t].state = "ENVASANDO"
      THEN Len(openOrders'[t]) = 1 /\ openOrders'[t][1].lot = l
      ELSE openOrders'[t] = << >>
  BY <1>3, <1>5
<1>10. /\ samples' \in [Lots -> Seq(SampleStatuses)]
       /\ decisions' \in [Lots -> Seq(DecisionRows)]
       /\ notice' \in [Tanks -> Sectors \cup {"NONE"}]
       /\ \A k \in Lots \ {l} : /\ lot'[k] = lot[k]
                               /\ samples'[k] = samples[k]
                               /\ decisions'[k] = decisions[k]
  BY <1>1 DEF PlantTypeOK
<1>11. /\ openOrders' \in [Tanks -> Seq(OrderRows)]
       /\ \A x \in Tanks \ {t} : openOrders'[x] = openOrders[x]
       /\ openPeriods' = openPeriods /\ openTransfers' = openTransfers
  BY <1>5
<1>12. /\ RowsInv /\ t \in Tanks /\ l \in Lots /\ Active(t) = l /\ BumpVersion(t)
       /\ lot' \in [Lots -> LotRows] /\ lot'[l].tank = t
       /\ lot'[l].finished = lot[l].finished
       /\ lot'[l].specificWeight = lot[l].specificWeight
  OBVIOUS
<1> QED BY ONLY <1>6, <1>8, <1>9, <1>10, <1>11, <1>12, BumpKeepsRows

LEMMA NewOrderKeepsRows ==
  ASSUME RowsInv, NEW u \in Users, NEW t \in Tanks, NEW v, NEW c \in Contents,
         NewPackagingOrder(u, t, v, c)
  PROVE  RowsInv'
<1> DEFINE l == Active(t)
           e == [lot |-> l, content |-> c]
<1>1. /\ tank[t].state = "ENVASANDO" /\ BumpVersion(t)
      /\ lot' = [lot EXCEPT ![Last(openOrders[t]).lot].closed = @ + 1]
      /\ openOrders' = [openOrders EXCEPT ![t] = Append(Front(@), e)]
      /\ audited' = [audited EXCEPT ![t].packaging = c]
      /\ UNCHANGED <<samples, decisions, openTransfers, openPeriods, notice>>
  BY DEF NewPackagingOrder, Current, Active, labVars
<1>2. /\ l \in Lots /\ lot[l].tank = t /\ PlantTypeOK
      /\ Front(openOrders[t]) = << >> /\ Last(openOrders[t]).lot = l
  BY <1>1, OneOpenOrder, TankFacts
<1>3. Append(<< >>, e) = <<e>>
  OBVIOUS
<1>4. Active(t) = l
  OBVIOUS
<1> HIDE DEF l
<1>5. openOrders' = [openOrders EXCEPT ![t] = <<e>>]
  BY <1>1, <1>2, <1>3
<1>6. lot' = [lot EXCEPT ![l] = [lot[l] EXCEPT !.closed = @ + 1]]
  BY <1>1, <1>2 DEF PlantTypeOK
<1>7. [lot[l] EXCEPT !.closed = @ + 1] \in LotRows
  BY <1>2, ClosedRow DEF PlantTypeOK
<1>8. /\ lot' \in [Lots -> LotRows] /\ lot'[l].tank = t
      /\ lot'[l].finished = lot[l].finished
      /\ lot'[l].specificWeight = lot[l].specificWeight
      /\ \A k \in Lots \ {l} : lot'[k] = lot[k]
  BY <1>2, <1>6, <1>7 DEF PlantTypeOK, LotRows
<1> QED BY <1>1, <1>2, <1>4, <1>5, <1>8, OrderKeepsRows

LEMMA CorrectPackagingKeepsRows ==
  ASSUME RowsInv, NEW u \in Users, NEW t \in Tanks, NEW v, NEW c \in Contents,
         CorrectPackaging(u, t, v, c)
  PROVE  RowsInv'
<1> DEFINE l == Active(t)
           q == openOrders[t]
<1>1. /\ tank[t].state = "ENVASANDO" /\ BumpVersion(t)
      /\ openOrders' = [openOrders EXCEPT ![t][Len(openOrders[t])].content = c]
      /\ audited' = [audited EXCEPT ![t].packaging = c]
      /\ UNCHANGED <<lot, samples, decisions, openTransfers, openPeriods, notice>>
  BY DEF CorrectPackaging, Current, labVars
<1>2. /\ l \in Lots /\ lot[l].tank = t /\ PlantTypeOK
      /\ q \in Seq(OrderRows) /\ Len(q) = 1 /\ q[1].lot = l
  BY <1>1, OneOpenOrder, TankFacts
<1>3. Active(t) = l
  OBVIOUS
<1> HIDE DEF l
<1> DEFINE e == [q[1] EXCEPT !.content = c]
<1>4. q[1] \in OrderRows
  BY <1>2, ElementOfSeq
<1>5. e = [lot |-> l, content |-> c] /\ e \in OrderRows
  BY <1>2, <1>4 DEF OrderRows
<1>6. openOrders' = [openOrders EXCEPT ![t] = [q EXCEPT ![1] = e]]
  BY <1>1, <1>2 DEF PlantTypeOK
<1>7. [q EXCEPT ![1] = e] = <<e>>
  <2> HIDE DEF e, q
  <2> QED BY <1>2, <1>5, ReplaceOnly
<1>8. openOrders' = [openOrders EXCEPT ![t] = <<[lot |-> l, content |-> c]>>]
  BY <1>5, <1>6, <1>7
<1> QED BY <1>1, <1>2, <1>3, <1>8, OrderKeepsRows DEF PlantTypeOK

-----------------------------------------------------------------------------
(* Operations that move the tank and keep its lot. *)

\* What the move of a tank with its lot leaves, and where.
Moved(t, l) ==
  /\ tank' \in [Tanks -> TankRows]
  /\ openPeriods' \in [Tanks -> Seq(PeriodRows)]
  /\ tank'[t].state \notin {"VACIO", "FUERA_DE_SERVICIO"}
  /\ Active(t)' = l
  /\ PeriodMatchesState(t)'
  /\ \A x \in Tanks \ {t} : tank'[x] = tank[x] /\ openPeriods'[x] = openPeriods[x]

LEMMA MoveWithLot ==
  ASSUME RowsInv, NEW t \in Tanks, Active(t) # NoLot,
         NEW s \in TankStates, s \notin {"VACIO", "FUERA_DE_SERVICIO"},
         Move(t, s, tank[t], Active(t))
  PROVE  Moved(t, Active(t)) /\ tank'[t].state = s
<1> DEFINE l == Active(t)
<1>1. /\ PlantTypeOK /\ l \in LotOrNone /\ tank[t] \in TankRows
      /\ tank[t].activeLot = l
      /\ LotMatchesState(t) /\ PeriodMatchesState(t)
  BY TankFacts
<1>2. ~tank[t].serviceReason
  BY <1>1 DEF LotMatchesState, PeriodMatchesState
<1>3. Move(t, s, tank[t], l)
  OBVIOUS
<1> HIDE DEF l
<1>4. /\ tank' \in [Tanks -> TankRows]
      /\ openPeriods' \in [Tanks -> Seq(PeriodRows)]
      /\ tank'[t].state = s /\ tank'[t].activeLot = l
      /\ \A x \in Tanks \ {t} : tank'[x] = tank[x] /\ openPeriods'[x] = openPeriods[x]
  BY <1>1, <1>3, MoveEffect
<1>5. PeriodMatchesState(t)'
  BY <1>1, <1>2, <1>3, MovePeriod
<1>6. Active(t)' = l
  BY <1>4 DEF Active
<1>7. Moved(t, l) /\ tank'[t].state = s
  BY <1>4, <1>5, <1>6 DEF Moved
<1> QED BY <1>7 DEF l

\* The types of the other variables, and where an operation writes them.
OtherTypesOK ==
  /\ lot \in [Lots -> LotRows]
  /\ samples \in [Lots -> Seq(SampleStatuses)]
  /\ decisions \in [Lots -> Seq(DecisionRows)]
  /\ openOrders \in [Tanks -> Seq(OrderRows)]
  /\ openTransfers \in [Tanks -> Seq(Lots)]
  /\ audited \in [Tanks -> LastAudited]
  /\ notice \in [Tanks -> Sectors \cup {"NONE"}]

LocalRows(t, l) ==
  /\ lot'[l].tank = t /\ lot'[l].finished = lot[l].finished
  /\ \A k \in Lots \ {l} : /\ lot'[k] = lot[k]
                           /\ samples'[k] = samples[k]
                           /\ decisions'[k] = decisions[k]
  /\ \A x \in Tanks \ {t} : /\ openOrders'[x] = openOrders[x]
                            /\ openTransfers'[x] = openTransfers[x]

LEMMA MoveKeepsRows ==
  ASSUME RowsInv, NEW t \in Tanks, NEW l \in Lots, Active(t) = l, Moved(t, l),
         OtherTypesOK', LocalRows(t, l),
         LaboratoryMatchesState(t)', FinalOperationMatchesState(t)'
  PROVE  RowsInv'
<1>1. /\ l # NoLot /\ l \in LotOrNone /\ ~lot[l].finished /\ LotMatchesState(t)
  BY TankFacts, LotIds
<1>2. PlantTypeOK'
  BY DEF PlantTypeOK, OtherTypesOK, Moved
<1>3. Local(t, l)
  BY DEF Local, LocalRows, Moved
<1>4. LotMatchesState(t)'
  BY <1>1, <1>3, LotHeld DEF Moved, LocalRows
<1>5. PeriodMatchesState(t)'
  BY DEF Moved
<1> QED BY <1>1, <1>2, <1>3, <1>4, <1>5, StepKeepsRows

\* An approved tank starts its final operation.
LEMMA FinalStarts ==
  ASSUME RowsInv, NEW t \in Tanks, tank[t].state = "APROBADO"
  PROVE  /\ Active(t) # NoLot /\ Active(t) \in Lots /\ Active(t) = tank[t].activeLot
         /\ lot[Active(t)].tank = t /\ lot[Active(t)].specificWeight
         /\ openOrders[t] = << >> /\ openTransfers[t] = << >>
         /\ openOrders \in [Tanks -> Seq(OrderRows)]
         /\ openTransfers \in [Tanks -> Seq(Lots)]
         /\ PlantTypeOK /\ tank[t] \in TankRows
         /\ LaboratoryMatchesState(t) /\ PeriodMatchesState(t)
<1>1. /\ PlantTypeOK /\ LotMatchesState(t) /\ FinalOperationMatchesState(t)
      /\ Active(t) = tank[t].activeLot
      /\ LaboratoryMatchesState(t) /\ PeriodMatchesState(t) /\ tank[t] \in TankRows
  BY TankFacts
<1>2. Active(t) # NoLot /\ Active(t) \in Lots /\ lot[Active(t)].tank = t
  BY <1>1, TankFacts DEF LotMatchesState
<1> QED BY <1>1, <1>2 DEF FinalOperationMatchesState, PlantTypeOK

LEMMA FinalKeepsLaboratory ==
  ASSUME NEW t \in Tanks, NEW l, LaboratoryMatchesState(t), Active(t) = l,
         Active(t)' = l, samples'[l] = samples[l], decisions'[l] = decisions[l],
         tank[t].state = "APROBADO", tank'[t].state \in {"ENVASANDO", "TRASVASANDO"}
  PROVE  LaboratoryMatchesState(t)'
BY DEF LaboratoryMatchesState, Filling

LEMMA StartPackagingKeepsRows ==
  ASSUME RowsInv, NEW u \in Users, NEW t \in Tanks, NEW v, NEW c \in Contents,
         StartPackaging(u, t, v, c)
  PROVE  RowsInv'
<1> DEFINE l == Active(t)
           e == [lot |-> l, content |-> c]
<1>1. /\ tank[t].state = "APROBADO"
      /\ openOrders' = [openOrders EXCEPT ![t] = Append(@, e)]
      /\ Move(t, "ENVASANDO", tank[t], l)
      /\ audited' = [audited EXCEPT ![t].state = "ENVASANDO", ![t].packaging = c]
      /\ lot' = lot /\ samples' = samples /\ decisions' = decisions
      /\ openTransfers' = openTransfers /\ notice' = notice
  BY DEF StartPackaging, Current, Active, labVars
<1>2. /\ l # NoLot /\ l \in Lots /\ l = tank[t].activeLot
      /\ lot[l].tank = t /\ lot[l].specificWeight
      /\ openOrders[t] = << >> /\ openTransfers[t] = << >>
      /\ PlantTypeOK /\ tank[t] \in TankRows
      /\ LaboratoryMatchesState(t) /\ PeriodMatchesState(t)
  BY <1>1, FinalStarts
<1>3. Active(t) = l /\ l \in LotOrNone /\ "ENVASANDO" \in TankStates
  BY <1>2 DEF LotOrNone, TankStates
<1>4. e \in OrderRows /\ e.lot = l
  BY <1>2 DEF OrderRows
<1> HIDE DEF l, e
<1>5. Append(<< >>, e) = <<e>>
  OBVIOUS
<1>6. <<e>> \in Seq(OrderRows) /\ Len(<<e>>) = 1 /\ <<e>>[1].lot = l
  BY <1>4
<1> DEFINE q == <<e>>
<1>7. openOrders' = [openOrders EXCEPT ![t] = q]
  BY <1>1, <1>2, <1>5
<1>8. q \in Seq(OrderRows) /\ Len(q) = 1 /\ q[1].lot = l
  BY <1>6
<1> HIDE DEF q
<1>9. /\ openOrders' \in [Tanks -> Seq(OrderRows)] /\ openOrders'[t] = q
      /\ \A x \in Tanks \ {t} : openOrders'[x] = openOrders[x]
  BY <1>2, <1>7, <1>8 DEF PlantTypeOK
<1>10. Moved(t, l) /\ tank'[t].state = "ENVASANDO"
  BY <1>1, <1>2, <1>3, MoveWithLot
<1>11. Active(t)' = l
  BY <1>10 DEF Moved
<1>12. audited' \in [Tanks -> LastAudited]
  BY <1>1, <1>2, <1>3, StateAndFactAudited
<1>13. LaboratoryMatchesState(t)'
  BY <1>1, <1>2, <1>3, <1>10, <1>11, FinalKeepsLaboratory
<1>14. FinalOperationMatchesState(t)'
  BY <1>1, <1>2, <1>8, <1>9, <1>10, <1>11 DEF FinalOperationMatchesState
<1>15. OtherTypesOK'
  BY <1>1, <1>2, <1>9, <1>12 DEF PlantTypeOK, OtherTypesOK
<1>16. LocalRows(t, l)
  BY <1>1, <1>2, <1>9 DEF LocalRows
<1> QED BY <1>2, <1>3, <1>10, <1>13, <1>14, <1>15, <1>16, MoveKeepsRows

LEMMA StartTransferKeepsRows ==
  ASSUME RowsInv, NEW u \in Users, NEW t \in Tanks, NEW v, StartTransfer(u, t, v)
  PROVE  RowsInv'
<1> DEFINE l == Active(t)
<1>1. /\ tank[t].state = "APROBADO"
      /\ openTransfers' = [openTransfers EXCEPT ![t] = Append(@, l)]
      /\ Move(t, "TRASVASANDO", tank[t], l)
      /\ audited' = [audited EXCEPT ![t].state = "TRASVASANDO"]
      /\ lot' = lot /\ samples' = samples /\ decisions' = decisions
      /\ openOrders' = openOrders /\ notice' = notice
  BY DEF StartTransfer, Current, Active, labVars
<1>2. /\ l # NoLot /\ l \in Lots /\ l = tank[t].activeLot
      /\ lot[l].tank = t /\ lot[l].specificWeight
      /\ openOrders[t] = << >> /\ openTransfers[t] = << >>
      /\ PlantTypeOK /\ tank[t] \in TankRows
      /\ LaboratoryMatchesState(t) /\ PeriodMatchesState(t)
  BY <1>1, FinalStarts
<1>3. Active(t) = l /\ l \in LotOrNone /\ "TRASVASANDO" \in TankStates
  BY <1>2 DEF LotOrNone, TankStates
<1> HIDE DEF l
<1> DEFINE q == <<l>>
<1>4. openTransfers' = [openTransfers EXCEPT ![t] = q] /\ q \in Seq(Lots)
  BY <1>1, <1>2
<1>5. q = <<l>>
  OBVIOUS
<1> HIDE DEF q
<1>6. /\ openTransfers' \in [Tanks -> Seq(Lots)] /\ openTransfers'[t] = q
      /\ \A x \in Tanks \ {t} : openTransfers'[x] = openTransfers[x]
  BY <1>2, <1>4 DEF PlantTypeOK
<1>7. Moved(t, l) /\ tank'[t].state = "TRASVASANDO"
  BY <1>1, <1>2, <1>3, MoveWithLot
<1>8. Active(t)' = l
  BY <1>7 DEF Moved
<1>9. audited' \in [Tanks -> LastAudited]
  BY <1>1, <1>2, <1>3, StateAudited
<1>10. LaboratoryMatchesState(t)'
  BY <1>1, <1>2, <1>3, <1>7, <1>8, FinalKeepsLaboratory
<1>11. FinalOperationMatchesState(t)'
  BY <1>1, <1>2, <1>5, <1>6, <1>7, <1>8 DEF FinalOperationMatchesState
<1>12. OtherTypesOK'
  BY <1>1, <1>2, <1>6, <1>9 DEF PlantTypeOK, OtherTypesOK
<1>13. LocalRows(t, l)
  BY <1>1, <1>2, <1>6 DEF LocalRows
<1> QED BY <1>2, <1>3, <1>7, <1>10, <1>11, <1>12, <1>13, MoveKeepsRows

\* The verdict on the newest sample, the tank's lot being in the laboratory.
LEMMA QualityKeepsRows ==
  ASSUME RowsInv, NEW u \in Users, NEW t \in Tanks, NEW v, NEW r \in Results,
         NEW c \in Contents, Quality(u, t, v, r, c)
  PROVE  RowsInv'
<1> DEFINE l == Active(t)
           d == [result |-> r, content |-> c]
           rows == WithStatus(l, "ANALYZING")
           q == samples[l]
           n == Len(q)
           ds == decisions[l]
<1>1. /\ tank[t].state = "LABORATORIO" /\ l # NoLot /\ rows # {}
      /\ decisions' = [decisions EXCEPT ![l] = Append(@, d)]
      /\ lot' = [lot EXCEPT ![l].specificWeight = (r = "APROBADO")]
      /\ samples' = [samples EXCEPT ![l][Newest(rows)] = "RESOLVED"]
      /\ Move(t, r, tank[t], l)
      /\ audited' = [audited EXCEPT ![t].state = r, ![t].decision = c]
      /\ notice' = [notice EXCEPT ![t] = IF r = "APROBADO" THEN "ENVASADO"
                                         ELSE "FABRICACION"]
      /\ openOrders' = openOrders /\ openTransfers' = openTransfers
  BY DEF Quality, Current, Active, Notify, finalVars
<1>2. /\ l \in Lots /\ lot[l].tank = t /\ PlantTypeOK
      /\ LaboratoryMatchesState(t) /\ FinalOperationMatchesState(t)
  BY <1>1, TankFacts
<1>3. /\ r \in TankStates /\ r \notin {"VACIO", "FUERA_DE_SERVICIO"}
      /\ r \notin {"FABRICANDO", "LABORATORIO", "ENVASANDO", "TRASVASANDO"}
  BY DEF Results, TankStates
<1>4. Active(t) = l
  OBVIOUS
<1>5. /\ q \in Seq(SampleStatuses) /\ n \in Nat \ {0} /\ DOMAIN q = 1 .. n
      /\ Newest(rows) = n
      /\ \A i \in 1 .. n : q[i] = "RESOLVED" <=> i < n
  BY <1>1, <1>2, PendingIsNewest
<1>6. /\ ds \in Seq(DecisionRows) /\ Len(ds) = n - 1 /\ DOMAIN ds = 1 .. n - 1
      /\ \A i \in 1 .. n - 1 : ds[i].result = "AJUSTE"
  <2>1. ds \in Seq(DecisionRows) /\ Len(ds) = n - 1
    BY <1>1, <1>2 DEF PlantTypeOK, LaboratoryMatchesState
  <2>2. DOMAIN ds = 1 .. n - 1
    BY <2>1, LenProperties
  <2>3. \A i \in DOMAIN ds : i < n => ds[i].result = "AJUSTE"
    BY <1>1, <1>2 DEF LaboratoryMatchesState
  <2> HIDE DEF n, ds
  <2>4. \A i \in 1 .. n - 1 : i < n /\ i \in DOMAIN ds
    BY <1>5, <2>2
  <2>5. \A i \in 1 .. n - 1 : ds[i].result = "AJUSTE"
    BY <2>3, <2>4
  <2> QED BY <2>1, <2>2, <2>5
<1>7. d \in DecisionRows /\ d.result = r
  BY DEF DecisionRows
<1>8. samples' = [samples EXCEPT ![l] = [q EXCEPT ![n] = "RESOLVED"]]
  BY <1>1, <1>2, <1>5 DEF PlantTypeOK
<1>9. decisions' = [decisions EXCEPT ![l] = Append(ds, d)]
  BY <1>1, <1>2 DEF PlantTypeOK
<1> HIDE DEF l, d, rows, q, n, ds
<1>10. /\ [q EXCEPT ![n] = "RESOLVED"] \in Seq(SampleStatuses)
       /\ Len([q EXCEPT ![n] = "RESOLVED"]) = n
       /\ \A i \in 1 .. n : [q EXCEPT ![n] = "RESOLVED"][i] = "RESOLVED"
  <2>1. n \in 1 .. Len(q) /\ "RESOLVED" \in SampleStatuses /\ Len(q) = n
    BY <1>5 DEF SampleStatuses, n
  <2>2. /\ [q EXCEPT ![n] = "RESOLVED"] \in Seq(SampleStatuses)
        /\ Len([q EXCEPT ![n] = "RESOLVED"]) = n
        /\ \A i \in 1 .. n : [q EXCEPT ![n] = "RESOLVED"][i] =
                              IF i = n THEN "RESOLVED" ELSE q[i]
    BY <1>5, <2>1, ExceptSeq
  <2> QED BY <1>5, <2>2
<1>11. /\ Append(ds, d) \in Seq(DecisionRows) /\ Len(Append(ds, d)) = n
       /\ \A i \in 1 .. n - 1 : Append(ds, d)[i].result = "AJUSTE"
       /\ Append(ds, d)[n].result = r
  <2>1. Len(ds) + 1 = n
    BY <1>5, <1>6
  <2> QED BY <1>6, <1>7, <2>1, AppendFacts
<1> DEFINE q2 == [q EXCEPT ![n] = "RESOLVED"]
           ds2 == Append(ds, d)
<1>12. /\ q2 \in Seq(SampleStatuses) /\ Len(q2) = n /\ DOMAIN q2 = 1 .. n
       /\ \A i \in 1 .. n : q2[i] = "RESOLVED"
  BY <1>10, LenProperties
<1>13. /\ ds2 \in Seq(DecisionRows) /\ Len(ds2) = n /\ DOMAIN ds2 = 1 .. n
       /\ \A i \in 1 .. n - 1 : ds2[i].result = "AJUSTE"
       /\ ds2[n].result = r
  BY <1>11, LenProperties
<1>14. samples' = [samples EXCEPT ![l] = q2] /\ decisions' = [decisions EXCEPT ![l] = ds2]
  BY <1>8, <1>9
<1> HIDE DEF q2, ds2
<1>15. /\ samples' \in [Lots -> Seq(SampleStatuses)] /\ samples'[l] = q2
       /\ \A k \in Lots \ {l} : samples'[k] = samples[k]
  BY <1>2, <1>12, <1>14 DEF PlantTypeOK
<1>16. /\ decisions' \in [Lots -> Seq(DecisionRows)] /\ decisions'[l] = ds2
       /\ \A k \in Lots \ {l} : decisions'[k] = decisions[k]
  BY <1>2, <1>13, <1>14 DEF PlantTypeOK
<1>17. /\ lot' \in [Lots -> LotRows] /\ lot'[l].tank = t
       /\ lot'[l].finished = lot[l].finished
       /\ lot'[l].specificWeight = (r = "APROBADO")
       /\ \A k \in Lots \ {l} : lot'[k] = lot[k]
  <2> DEFINE b == (r = "APROBADO")
             x == [lot[l] EXCEPT !.specificWeight = b]
  <2>1. lot' = [lot EXCEPT ![l] = x] /\ b \in BOOLEAN
    BY <1>1, <1>2 DEF PlantTypeOK
  <2>2. lot \in [Lots -> LotRows] /\ lot[l] \in LotRows
    BY <1>2 DEF PlantTypeOK
  <2> HIDE DEF b
  <2>3. /\ x \in LotRows /\ x.tank = t /\ x.finished = lot[l].finished
        /\ x.specificWeight = b
    BY <1>2, <2>1, <2>2 DEF LotRows
  <2> HIDE DEF x
  <2>4. /\ lot' \in [Lots -> LotRows] /\ lot'[l] = x
        /\ \A k \in Lots \ {l} : lot'[k] = lot[k]
    BY <1>2, <2>1, <2>2, <2>3
  <2>5. lot'[l].specificWeight = b
    BY <2>3, <2>4
  <2> QED BY <2>3, <2>4, <2>5 DEF b
<1>18. Moved(t, l) /\ tank'[t].state = r
  BY <1>1, <1>3, <1>4, MoveWithLot
<1>19. Active(t)' = l
  BY <1>18 DEF Moved
<1>20. audited' \in [Tanks -> LastAudited]
  BY <1>1, <1>2, <1>3, StateAndFactAudited
<1>21. notice' \in [Tanks -> Sectors \cup {"NONE"}]
  BY <1>1, <1>2 DEF PlantTypeOK, Sectors
<1>22. OtherTypesOK'
  BY <1>1, <1>2, <1>15, <1>16, <1>17, <1>20, <1>21 DEF PlantTypeOK, OtherTypesOK
<1>23. LocalRows(t, l)
  BY <1>1, <1>15, <1>16, <1>17 DEF LocalRows
<1>24. LaboratoryMatchesState(t)'
  <2>1. q2 # << >>
    BY <1>5, <1>12
  <2>2. \A i \in DOMAIN ds2 :
          ds2[i].result = IF i < Len(q2) THEN "AJUSTE" ELSE r
    BY <1>5, <1>12, <1>13
  <2>3. \A i \in DOMAIN q2 : q2[i] = "RESOLVED"
    BY <1>12
  <2>4. Len(ds2) = Len(q2)
    BY <1>12, <1>13
  <2> QED BY <1>3, <1>15, <1>16, <1>18, <1>19, <2>1, <2>2, <2>3, <2>4
       DEF LaboratoryMatchesState, Filling
<1>25. FinalOperationMatchesState(t)'
  <2>1. openOrders[t] = << >> /\ openTransfers[t] = << >>
    BY <1>1, <1>2 DEF FinalOperationMatchesState
  <2> QED BY <1>1, <1>3, <1>17, <1>18, <1>19, <2>1 DEF FinalOperationMatchesState
<1> QED BY <1>2, <1>4, <1>18, <1>22, <1>23, <1>24, <1>25, MoveKeepsRows

-----------------------------------------------------------------------------
(* The whole plant. *)

PlantInv == RowsInv /\ BoardInv /\ PackInv

LEMMA OperationKeepsRows ==
  ASSUME RowsInv, NEW u \in Users, NEW t \in Tanks, NEW v, TankOperation(u, t, v)
  PROVE  RowsInv'
<1>1. CASE \E l \in Lots, o \in Contents : Start(u, t, v, l, o)
  BY <1>1, StartKeepsRows
<1>2. CASE SendToLab(u, t, v)
  BY <1>2, SendToLabKeepsRows
<1>3. CASE EmptyRejected(u, t, v)
  BY <1>3, EmptyRejectedKeepsRows
<1>4. CASE ServiceOut(u, t, v)
  BY <1>4, ServiceOutKeepsRows
<1>5. CASE ServiceIn(u, t, v)
  BY <1>5, ServiceInKeepsRows
<1>6. CASE \E o \in Contents : CorrectLot(u, t, v, o)
  BY <1>6, CorrectLotKeepsRows
<1>7. CASE \E startAnalysis \in BOOLEAN : ReceiveLaboratorySample(u, t, v, startAnalysis)
  BY <1>7, ReceiveKeepsRows
<1>8. CASE StartLaboratoryAnalysis(u, t, v)
  BY <1>8, AnalysisKeepsRows
<1>9. CASE \E r \in Results, c \in Contents : Quality(u, t, v, r, c)
  BY <1>9, QualityKeepsRows
<1>10. CASE \E c \in Contents : CorrectQualityAdjustment(u, t, v, c)
  BY <1>10, CorrectQualityKeepsRows
<1>11. CASE \E c \in Contents : StartPackaging(u, t, v, c)
  BY <1>11, StartPackagingKeepsRows
<1>12. CASE \E c \in Contents : NewPackagingOrder(u, t, v, c)
  BY <1>12, NewOrderKeepsRows
<1>13. CASE \E c \in Contents : CorrectPackaging(u, t, v, c)
  BY <1>13, CorrectPackagingKeepsRows
<1>14. CASE FinishPackaging(u, t, v)
  BY <1>14, FinishPackagingKeepsRows
<1>15. CASE StartTransfer(u, t, v)
  BY <1>15, StartTransferKeepsRows
<1>16. CASE FinishTransfer(u, t, v)
  BY <1>16, FinishTransferKeepsRows
<1> QED BY <1>1, <1>2, <1>3, <1>4, <1>5, <1>6, <1>7, <1>8,
           <1>9, <1>10, <1>11, <1>12, <1>13, <1>14, <1>15, <1>16 DEF TankOperation

LEMMA OperationKeepsBoards ==
  ASSUME BoardInv, PackInv, NEW u \in Users, NEW t \in Tanks, NEW v,
         TankOperation(u, t, v)
  PROVE  BoardInv' /\ PackInv'
<1>1. t # NoTank
  BY TankIds
<1>2. CASE \E l \in Lots, o \in Contents : Start(u, t, v, l, o)
  BY <1>1, <1>2, ConsumeKeepsBoard, QueueUnchanged DEF Start
<1>3. CASE \E c \in Contents : StartPackaging(u, t, v, c)
  BY <1>3, BoardUnchanged, ConsumeKeepsQueue DEF StartPackaging
<1>4. CASE UNCHANGED boardVars
  BY <1>4, BoardUnchanged, QueueUnchanged DEF boardVars
<1> QED BY <1>2, <1>3, <1>4
       DEF TankOperation, SendToLab, EmptyRejected, ServiceOut, ServiceIn, CorrectLot,
           ReceiveLaboratorySample, StartLaboratoryAnalysis, Quality,
           CorrectQualityAdjustment, NewPackagingOrder, CorrectPackaging,
           FinishPackaging, StartTransfer, FinishTransfer

LEMMA RowsUnchanged == RowsInv /\ UNCHANGED plantVars => RowsInv'
<1> SUFFICES ASSUME RowsInv, UNCHANGED plantVars PROVE RowsInv'
  OBVIOUS
<1>1. /\ tank' = tank /\ lot' = lot /\ samples' = samples /\ decisions' = decisions
      /\ openOrders' = openOrders /\ openTransfers' = openTransfers
      /\ openPeriods' = openPeriods /\ audited' = audited /\ notice' = notice
  BY DEF plantVars
<1>2. PlantTypeOK' /\ FreshLots'
  BY <1>1 DEF RowsInv, PlantTypeOK, FreshLots
<1>3. ASSUME NEW t \in Tanks
      PROVE  /\ LotMatchesState(t)' /\ LaboratoryMatchesState(t)'
             /\ FinalOperationMatchesState(t)' /\ PeriodMatchesState(t)'
  <2>1. Active(t)' = Active(t) /\ Filling(t)' = Filling(t)
    BY <1>1 DEF Active, Filling
  <2>2. LotMatchesState(t)'
    BY <1>1, <2>1, TankFacts DEF LotMatchesState
  <2>3. LaboratoryMatchesState(t)'
    BY <1>1, <2>1, TankFacts DEF LaboratoryMatchesState
  <2>4. FinalOperationMatchesState(t)'
    BY <1>1, <2>1, TankFacts DEF FinalOperationMatchesState
  <2>5. PeriodMatchesState(t)'
    BY <1>1, <2>1, TankFacts DEF PeriodMatchesState
  <2> QED BY <2>2, <2>3, <2>4, <2>5
<1> QED BY <1>2, <1>3 DEF RowsInv, StateMatchesRecords

LEMMA PlantStep == PlantInv /\ [Next]_vars => PlantInv'
<1> SUFFICES ASSUME PlantInv, [Next]_vars PROVE PlantInv'
  OBVIOUS
<1> USE DEF PlantInv
<1>1. ASSUME NEW u \in Users, NEW t \in Tanks, NEW v, TankOperation(u, t, v)
      PROVE  PlantInv'
  BY <1>1, OperationKeepsRows, OperationKeepsBoards
<1>2. ASSUME NEW u \in Users, Planning(u)
      PROVE  PlantInv'
  <2>1. RowsInv'
    BY <1>2, RowsUnchanged DEF Planning
  <2>2. CASE PlanManufacturing /\ UNCHANGED packCard
    BY <2>1, <2>2, PlanKeepsBoard, QueueUnchanged
  <2>3. CASE PlanPackaging([t \in BoardTanks |-> tank[t].state]) /\ UNCHANGED card
    BY <2>1, <2>3, PlanKeepsQueue, BoardUnchanged
  <2> QED BY <1>2, <2>2, <2>3 DEF Planning
<1>3. CASE UNCHANGED vars
  BY <1>3, RowsUnchanged, BoardUnchanged, QueueUnchanged DEF vars
<1> QED BY <1>1, <1>2, <1>3 DEF Next

LEMMA PlantStart == Init => PlantInv
<1> SUFFICES ASSUME Init PROVE PlantInv
  OBVIOUS
<1>1. BoardInv /\ PackInv
  BY BoardStart, QueueStart DEF Init
<1> DEFINE empty == [state |-> "VACIO", version |-> 0, activeLot |-> NoLot,
                     serviceReason |-> FALSE]
           period == [state |-> "VACIO", lot |-> NoLot]
           said == [state |-> "VACIO", order |-> NoContent,
                    packaging |-> NoContent, decision |-> NoContent]
<1>2. /\ tank = [t \in Tanks |-> empty] /\ lot = [l \in Lots |-> NoLotRow]
      /\ samples = [l \in Lots |-> << >>] /\ decisions = [l \in Lots |-> << >>]
      /\ openOrders = [t \in Tanks |-> << >>]
      /\ openTransfers = [t \in Tanks |-> << >>]
      /\ openPeriods = [t \in Tanks |-> <<period>>]
      /\ audited = [t \in Tanks |-> said] /\ notice = [t \in Tanks |-> "NONE"]
  BY DEF Init
<1>3. empty \in TankRows /\ period \in PeriodRows /\ NoLotRow \in LotRows
  BY DEF TankRows, PeriodRows, LotRows, NoLotRow, TankStates, LotOrNone, ContentOrNone
<1>4. said \in LastAudited
  BY DEF LastAudited, TankStates, ContentOrNone
<1>5. <<period>> \in Seq(PeriodRows) /\ Len(<<period>>) = 1 /\ <<period>>[1] = period
  BY <1>3
<1>6. /\ empty.state = "VACIO" /\ empty.activeLot = NoLot /\ empty.serviceReason = FALSE
      /\ period.state = "VACIO"
      /\ NoLotRow.tank = NoTank /\ ~NoLotRow.finished /\ ~NoLotRow.specificWeight
  BY DEF NoLotRow
<1> DEFINE q == <<period>>
<1>7. /\ openPeriods = [t \in Tanks |-> q] /\ q \in Seq(PeriodRows)
      /\ Len(q) = 1 /\ q[1].state = "VACIO"
  BY <1>2, <1>5, <1>6
<1> HIDE DEF empty, period, said, q
<1>8. PlantTypeOK
  BY <1>2, <1>3, <1>4, <1>7, EmptySeq DEF PlantTypeOK
<1>9. FreshLots
  BY <1>2, <1>6 DEF FreshLots
<1>10. ASSUME NEW t \in Tanks
       PROVE  /\ LotMatchesState(t) /\ LaboratoryMatchesState(t)
              /\ FinalOperationMatchesState(t) /\ PeriodMatchesState(t)
  <2>1. tank[t].state = "VACIO" /\ Active(t) = NoLot /\ tank[t].serviceReason = FALSE
    BY <1>2, <1>6 DEF Active
  <2>2. LotMatchesState(t)
    BY <1>2, <1>6, <2>1, LotIds, TankIds DEF LotMatchesState
  <2>3. LaboratoryMatchesState(t)
    BY <2>1 DEF LaboratoryMatchesState
  <2>4. FinalOperationMatchesState(t)
    BY <1>2, <2>1 DEF FinalOperationMatchesState
  <2>5. PeriodMatchesState(t)
    BY <1>7, <2>1 DEF PeriodMatchesState
  <2> QED BY <2>2, <2>3, <2>4, <2>5
<1> QED BY <1>1, <1>8, <1>9, <1>10 DEF PlantInv, RowsInv, StateMatchesRecords

LEMMA PlantInvariant == Spec => []PlantInv
<1> QED BY PlantStart, PlantStep, PTL DEF Spec

\* The variables always have their types, for any plant and any users
\* (schema.prisma, the models the service of the plant writes).
THEOREM PlantTypes == Spec => []TypeOK
<1>1. PlantInv => TypeOK
  BY DEF PlantInv, RowsInv, PlantTypeOK, TypeOK, BoardInv, PackInv
<1> QED BY <1>1, PlantInvariant, PTL

\* Lot, samples, decisions, orders, transfers and history of a tank tell the same
\* story as its state after every operation of PlantService, in any number of
\* tanks (plant.service.ts:1078-1896).
THEOREM RecordsMatchState == Spec => []StateMatchesRecords
<1>1. PlantInv => StateMatchesRecords
  BY DEF PlantInv, RowsInv
<1> QED BY <1>1, PlantInvariant, PTL

\* The two planning boards stay numbered without gap or repetition while the
\* operations of the tanks use up their cards (plant.service.ts:1101-1121,
\* 1549-1560).
THEOREM BoardsInSequence == Spec => [](ListsInSequence /\ QueueInSequence)
<1>1. PlantInv => ListsInSequence /\ QueueInSequence
  BY DEF PlantInv, BoardInv, PackInv
<1> QED BY <1>1, PlantInvariant, PTL

-----------------------------------------------------------------------------
(* What an operation leaves alone. *)

\* The operation raises the version of tank t, writes no other tank and no lot
\* but m, which is in t or was not started.
LocalTo(t, m) ==
  /\ tank'[t].version = tank[t].version + 1
  /\ m = Active(t) \/ (m \in Lots /\ lot[m].tank = NoTank)
  /\ \A x \in Tanks \ {t} :
       /\ tank'[x] = tank[x]
       /\ openOrders'[x] = openOrders[x]
       /\ openPeriods'[x] = openPeriods[x]
  /\ \A k \in Lots \ {m} :
       /\ lot'[k] = lot[k]
       /\ samples'[k] = samples[k]
       /\ decisions'[k] = decisions[k]

LEMMA MoveIsLocal ==
  ASSUME PlantTypeOK, NEW t \in Tanks, NEW s, NEW row, NEW l, Move(t, s, row, l),
         row \in TankRows, row.version = tank[t].version
  PROVE  /\ tank'[t].version = tank[t].version + 1
         /\ tank'[t].state = s
         /\ \A x \in Tanks \ {t} : tank'[x] = tank[x] /\ openPeriods'[x] = openPeriods[x]
<1>1. /\ tank' = [tank EXCEPT ![t] = [row EXCEPT !.state = s, !.version = @ + 1]]
      /\ \A x \in Tanks \ {t} : tank'[x] = tank[x] /\ openPeriods'[x] = openPeriods[x]
  BY DEF Move, PlantTypeOK
<1>2. tank'[t] = [row EXCEPT !.state = s, !.version = @ + 1]
  BY <1>1 DEF PlantTypeOK
<1> QED BY <1>1, <1>2 DEF TankRows

LEMMA BumpIsLocal ==
  ASSUME PlantTypeOK, NEW t \in Tanks, BumpVersion(t)
  PROVE  /\ tank'[t].version = tank[t].version + 1
         /\ \A x \in Tanks \ {t} : tank'[x] = tank[x]
BY BumpEffect

LEMMA TransferLot ==
  ASSUME RowsInv, NEW t \in Tanks, tank[t].state = "TRASVASANDO"
  PROVE  Last(openTransfers[t]) = Active(t)
<1>1. openTransfers[t] = <<Active(t)>>
  BY TankFacts DEF FinalOperationMatchesState
<1>2. Len(openTransfers[t]) = 1 /\ openTransfers[t][1] = Active(t)
  BY <1>1
<1> QED BY <1>2 DEF Last

LEMMA OperationIsLocal ==
  ASSUME RowsInv, NEW u \in Users, NEW t \in Tanks, NEW v, TankOperation(u, t, v)
  PROVE  \E m : LocalTo(t, m)
<1>1. /\ PlantTypeOK /\ tank[t] \in TankRows /\ Active(t) = tank[t].activeLot
  BY TankFacts
<1>2. ASSUME NEW s, NEW row \in {tank[t], [tank[t] EXCEPT !.activeLot = NoLot],
                                [tank[t] EXCEPT !.serviceReason = TRUE],
                                [tank[t] EXCEPT !.serviceReason = FALSE]},
             NEW l, Move(t, s, row, l)
      PROVE  /\ tank'[t].version = tank[t].version + 1
             /\ \A x \in Tanks \ {t} : /\ tank'[x] = tank[x]
                                       /\ openPeriods'[x] = openPeriods[x]
  <2>1. row \in TankRows /\ row.version = tank[t].version
    BY <1>1, <1>2 DEF TankRows, LotOrNone
  <2> QED BY <1>1, <1>2, <2>1, MoveIsLocal
<1>3. CASE \E l \in Lots, o \in Contents : Start(u, t, v, l, o)
  <2>1. PICK l \in Lots, o \in Contents : Start(u, t, v, l, o)
    BY <1>3
  <2> DEFINE row == [tank[t] EXCEPT !.activeLot = l]
  <2>2. row \in TankRows /\ row.version = tank[t].version
    BY <1>1 DEF TankRows, LotOrNone
  <2>3. Move(t, "FABRICANDO", row, l)
    BY <2>1 DEF Start
  <2> HIDE DEF row
  <2>4. /\ tank'[t].version = tank[t].version + 1
        /\ \A x \in Tanks \ {t} : tank'[x] = tank[x] /\ openPeriods'[x] = openPeriods[x]
    BY <1>1, <2>2, <2>3, MoveIsLocal
  <2>5. LocalTo(t, l)
    BY <1>1, <2>1, <2>4 DEF Start, LocalTo, PlantTypeOK
  <2> QED BY <2>5
<1>4. CASE SendToLab(u, t, v)
  <2>1. /\ tank'[t].version = tank[t].version + 1
        /\ \A x \in Tanks \ {t} : tank'[x] = tank[x] /\ openPeriods'[x] = openPeriods[x]
    BY <1>2, <1>4 DEF SendToLab
  <2>2. LocalTo(t, Active(t))
    BY <1>1, <1>4, <2>1
       DEF SendToLab, LocalTo, PlantTypeOK, Active, labVars, finalVars
  <2> QED BY <2>2
<1>5. CASE EmptyRejected(u, t, v)
  <2>1. /\ tank'[t].version = tank[t].version + 1
        /\ \A x \in Tanks \ {t} : tank'[x] = tank[x] /\ openPeriods'[x] = openPeriods[x]
    BY <1>2, <1>5 DEF EmptyRejected
  <2>2. LocalTo(t, Active(t))
    BY <1>1, <1>5, <2>1
       DEF EmptyRejected, LocalTo, PlantTypeOK, Active, labVars, finalVars
  <2> QED BY <2>2
<1>6. CASE ServiceOut(u, t, v)
  <2>1. /\ tank'[t].version = tank[t].version + 1
        /\ \A x \in Tanks \ {t} : tank'[x] = tank[x] /\ openPeriods'[x] = openPeriods[x]
    BY <1>2, <1>6 DEF ServiceOut
  <2>2. LocalTo(t, Active(t))
    BY <1>1, <1>6, <2>1
       DEF ServiceOut, LocalTo, PlantTypeOK, Active, labVars, finalVars
  <2> QED BY <2>2
<1>7. CASE ServiceIn(u, t, v)
  <2>1. /\ tank'[t].version = tank[t].version + 1
        /\ \A x \in Tanks \ {t} : tank'[x] = tank[x] /\ openPeriods'[x] = openPeriods[x]
    BY <1>2, <1>7 DEF ServiceIn
  <2>2. LocalTo(t, Active(t))
    BY <1>1, <1>7, <2>1
       DEF ServiceIn, LocalTo, PlantTypeOK, Active, labVars, finalVars
  <2> QED BY <2>2
<1>8. CASE \E r \in Results, c \in Contents : Quality(u, t, v, r, c)
  <2>1. /\ tank'[t].version = tank[t].version + 1
        /\ \A x \in Tanks \ {t} : tank'[x] = tank[x] /\ openPeriods'[x] = openPeriods[x]
    BY <1>2, <1>8 DEF Quality
  <2>2. LocalTo(t, Active(t))
    BY <1>1, <1>8, <2>1
       DEF Quality, LocalTo, PlantTypeOK, Active, labVars, finalVars
  <2> QED BY <2>2
<1>9. CASE \E c \in Contents : StartPackaging(u, t, v, c)
  <2>1. /\ tank'[t].version = tank[t].version + 1
        /\ \A x \in Tanks \ {t} : tank'[x] = tank[x] /\ openPeriods'[x] = openPeriods[x]
    BY <1>2, <1>9 DEF StartPackaging
  <2>2. LocalTo(t, Active(t))
    BY <1>1, <1>9, <2>1
       DEF StartPackaging, LocalTo, PlantTypeOK, Active, labVars, finalVars
  <2> QED BY <2>2
<1>10. CASE FinishPackaging(u, t, v)
  <2>1. /\ tank'[t].version = tank[t].version + 1
        /\ \A x \in Tanks \ {t} : tank'[x] = tank[x] /\ openPeriods'[x] = openPeriods[x]
    BY <1>2, <1>10 DEF FinishPackaging
  <2>2. LocalTo(t, Active(t))
    BY <1>1, <1>10, <2>1, OneOpenOrder
       DEF FinishPackaging, Current, LocalTo, PlantTypeOK, Active, labVars, finalVars
  <2> QED BY <2>2
<1>11. CASE StartTransfer(u, t, v)
  <2>1. /\ tank'[t].version = tank[t].version + 1
        /\ \A x \in Tanks \ {t} : tank'[x] = tank[x] /\ openPeriods'[x] = openPeriods[x]
    BY <1>2, <1>11 DEF StartTransfer
  <2>2. LocalTo(t, Active(t))
    BY <1>1, <1>11, <2>1
       DEF StartTransfer, LocalTo, PlantTypeOK, Active, labVars, finalVars
  <2> QED BY <2>2
<1>12. CASE FinishTransfer(u, t, v)
  <2>1. /\ tank'[t].version = tank[t].version + 1
        /\ \A x \in Tanks \ {t} : tank'[x] = tank[x] /\ openPeriods'[x] = openPeriods[x]
    BY <1>2, <1>12 DEF FinishTransfer
  <2>2. LocalTo(t, Active(t))
    BY <1>1, <1>12, <2>1, TransferLot
       DEF FinishTransfer, Current, LocalTo, PlantTypeOK, Active, labVars, finalVars
  <2> QED BY <2>2
<1>13. CASE \E o \in Contents : CorrectLot(u, t, v, o)
  <2>1. /\ tank'[t].version = tank[t].version + 1
        /\ \A x \in Tanks \ {t} : tank'[x] = tank[x] /\ openPeriods'[x] = openPeriods[x]
    BY <1>1, <1>13, BumpIsLocal DEF CorrectLot
  <2>2. LocalTo(t, Active(t))
    BY <1>1, <1>13, <2>1
       DEF CorrectLot, LocalTo, PlantTypeOK, Active, labVars, finalVars
  <2> QED BY <2>2
<1>14. CASE \E b \in BOOLEAN : ReceiveLaboratorySample(u, t, v, b)
  <2>1. /\ tank'[t].version = tank[t].version + 1
        /\ \A x \in Tanks \ {t} : tank'[x] = tank[x] /\ openPeriods'[x] = openPeriods[x]
    BY <1>1, <1>14, BumpIsLocal DEF ReceiveLaboratorySample
  <2>2. LocalTo(t, Active(t))
    BY <1>1, <1>14, <2>1
       DEF ReceiveLaboratorySample, LocalTo, PlantTypeOK, Active, labVars, finalVars
  <2> QED BY <2>2
<1>15. CASE StartLaboratoryAnalysis(u, t, v)
  <2>1. /\ tank'[t].version = tank[t].version + 1
        /\ \A x \in Tanks \ {t} : tank'[x] = tank[x] /\ openPeriods'[x] = openPeriods[x]
    BY <1>1, <1>15, BumpIsLocal DEF StartLaboratoryAnalysis
  <2>2. LocalTo(t, Active(t))
    BY <1>1, <1>15, <2>1
       DEF StartLaboratoryAnalysis, LocalTo, PlantTypeOK, Active, labVars, finalVars
  <2> QED BY <2>2
<1>16. CASE \E c \in Contents : CorrectQualityAdjustment(u, t, v, c)
  <2>1. /\ tank'[t].version = tank[t].version + 1
        /\ \A x \in Tanks \ {t} : tank'[x] = tank[x] /\ openPeriods'[x] = openPeriods[x]
    BY <1>1, <1>16, BumpIsLocal DEF CorrectQualityAdjustment
  <2>2. LocalTo(t, Active(t))
    BY <1>1, <1>16, <2>1
       DEF CorrectQualityAdjustment, LocalTo, PlantTypeOK, Active, labVars, finalVars
  <2> QED BY <2>2
<1>17. CASE \E c \in Contents : NewPackagingOrder(u, t, v, c)
  <2>1. /\ tank'[t].version = tank[t].version + 1
        /\ \A x \in Tanks \ {t} : tank'[x] = tank[x] /\ openPeriods'[x] = openPeriods[x]
    BY <1>1, <1>17, BumpIsLocal DEF NewPackagingOrder
  <2>2. LocalTo(t, Active(t))
    BY <1>1, <1>17, <2>1, OneOpenOrder
       DEF NewPackagingOrder, Current, LocalTo, PlantTypeOK, Active, labVars, finalVars
  <2> QED BY <2>2
<1>18. CASE \E c \in Contents : CorrectPackaging(u, t, v, c)
  <2>1. /\ tank'[t].version = tank[t].version + 1
        /\ \A x \in Tanks \ {t} : tank'[x] = tank[x] /\ openPeriods'[x] = openPeriods[x]
    BY <1>1, <1>18, BumpIsLocal DEF CorrectPackaging
  <2>2. LocalTo(t, Active(t))
    BY <1>1, <1>18, <2>1
       DEF CorrectPackaging, LocalTo, PlantTypeOK, Active, labVars, finalVars
  <2> QED BY <2>2
<1> QED BY <1>3, <1>4, <1>5, <1>6, <1>7, <1>8, <1>9, <1>10, <1>11,
           <1>12, <1>13, <1>14, <1>15, <1>16, <1>17, <1>18 DEF TankOperation

LEMMA FinishedStep ==
  ASSUME RowsInv, [Next]_vars, NEW l \in Lots, lot[l].finished
  PROVE  UNCHANGED <<lot[l], samples[l], decisions[l]>>
<1>1. ASSUME NEW u \in Users, NEW t \in Tanks, NEW v, TankOperation(u, t, v)
      PROVE  UNCHANGED <<lot[l], samples[l], decisions[l]>>
  <2>1. PICK m : LocalTo(t, m)
    BY <1>1, OperationIsLocal
  <2>2. Active(t) # l
    BY TankFacts, LotIds
  <2>3. lot[l].tank # NoTank
    BY DEF RowsInv, FreshLots
  <2>4. l # m
    BY <2>1, <2>2, <2>3 DEF LocalTo
  <2> QED BY <2>1, <2>4 DEF LocalTo
<1>2. CASE UNCHANGED plantVars
  BY <1>2 DEF plantVars
<1> QED BY <1>1, <1>2 DEF Next, Planning, vars

\* No operation on any tank writes a lot that has ended, nor its laboratory rows:
\* correctLot, quality and closePackaging reach rows through the active lot of a
\* tank only (plant.service.ts:1308-1524, 1856-1896, 2704-2730).
THEOREM FinishedStaysFrozen == Spec => FinishedLotsFrozen
<1>1. PlantInv /\ [Next]_vars =>
        [\A l \in Lots : lot[l].finished =>
           UNCHANGED <<lot[l], samples[l], decisions[l]>>]_vars
  BY FinishedStep DEF PlantInv
<1> QED BY <1>1, PlantInvariant, PTL DEF Spec, FinishedLotsFrozen

\* What the poll shows of a tank depends on that tank and its lot only.
LEMMA ViewKept ==
  ASSUME RowsInv, NEW t \in Tanks, NEW m, LocalTo(t, m), NEW x \in Tanks, x # t
  PROVE  View(x)' = View(x)
<1> DEFINE l == Active(x)
<1>1. /\ tank'[x] = tank[x] /\ openOrders'[x] = openOrders[x]
      /\ openPeriods'[x] = openPeriods[x]
  BY DEF LocalTo
<1>2. l = tank[x].activeLot
  BY DEF Active
<1>3. l # NoLot => l \in Lots /\ l # m
  <2>1. l # NoLot => l \in Lots /\ lot[l].tank = x /\ ~lot[l].finished
    BY TankFacts
  <2>2. l # NoLot /\ m = Active(t) => lot[l].tank = x /\ l # m
    BY <2>1, TankFacts
  <2> QED BY <2>1, <2>2, TankIds DEF LocalTo
<1>4. l # NoLot => /\ lot'[l] = lot[l] /\ samples'[l] = samples[l]
                   /\ decisions'[l] = decisions[l]
  BY <1>3 DEF LocalTo
<1> HIDE DEF l
<1>5. View(x) = [row |-> tank[x],
                 period |-> LastOr(openPeriods[x], NoPeriod),
                 lot |-> IF l = NoLot THEN NoLotRow ELSE lot[l],
                 sample |-> IF l = NoLot THEN "NONE" ELSE LastOr(samples[l], "NONE"),
                 decision |-> IF l = NoLot THEN NoDecision
                              ELSE LastOr(decisions[l], NoDecision),
                 order |-> NewestOrderOf(openOrders[x], l)]
  BY <1>2 DEF View, ViewOf
<1>6. View(x)' = [row |-> tank'[x],
                  period |-> LastOr(openPeriods'[x], NoPeriod),
                  lot |-> IF l = NoLot THEN NoLotRow ELSE lot'[l],
                  sample |-> IF l = NoLot THEN "NONE" ELSE LastOr(samples'[l], "NONE"),
                  decision |-> IF l = NoLot THEN NoDecision
                               ELSE LastOr(decisions'[l], NoDecision),
                  order |-> NewestOrderOf(openOrders'[x], l)]
  BY <1>1, <1>2 DEF View, ViewOf
<1> QED BY <1>1, <1>4, <1>5, <1>6

LEMMA VersionStep ==
  ASSUME RowsInv, [Next]_vars, NEW x \in Tanks, View(x)' # View(x)
  PROVE  tank'[x].version > tank[x].version
<1>1. ASSUME NEW u \in Users, NEW t \in Tanks, NEW v, TankOperation(u, t, v)
      PROVE  tank'[x].version > tank[x].version
  <2>1. PICK m : LocalTo(t, m)
    BY <1>1, OperationIsLocal
  <2>2. x = t
    BY <2>1, ViewKept
  <2>3. tank[x].version \in Nat
    BY TankFacts DEF TankRows
  <2> QED BY <2>1, <2>2, <2>3 DEF LocalTo
<1>2. CASE UNCHANGED plantVars
  <2>1. View(x)' = View(x)
    BY <1>2 DEF plantVars, View, ViewOf
  <2> QED BY <2>1
<1> QED BY <1>1, <1>2 DEF Next, Planning, vars

\* Every change of what the poll shows of a tank raises its version, so an
\* operator who decided on an older picture is always refused: assertTank
\* compares the versions (plant.service.ts:2620-2631).
THEOREM VersionTellsChanges == Spec => VisibleChangeBumpsVersion
<1>1. PlantInv /\ [Next]_vars =>
        [\A t \in Tanks : View(t)' # View(t) => tank'[t].version > tank[t].version]_vars
  BY VersionStep DEF PlantInv
<1> QED BY <1>1, PlantInvariant, PTL DEF Spec, VisibleChangeBumpsVersion

-----------------------------------------------------------------------------
(* Where an operation takes the tank, whom it tells, and what it does to the   *)
(* packaging plan.                                                             *)

Stays(t) ==
  /\ tank'[t].state = tank[t].state
  /\ notice' = notice \/ (tank[t].state = "AJUSTE" /\ Notify(t, "FABRICACION"))
  /\ packCard' = packCard

Enters(t, s) == tank'[t].state = s /\ packCard' = packCard

Transition(t) ==
  \/ Stays(t)
  \/ \E s \in {"FABRICANDO", "VACIO", "FUERA_DE_SERVICIO"} :
       Enters(t, s) /\ (notice' = notice \/ Notify(t, "FABRICACION"))
  \/ Enters(t, "LABORATORIO") /\ Notify(t, "LABORATORIO")
  \/ Enters(t, "APROBADO") /\ Notify(t, "ENVASADO")
  \/ \E s \in {"AJUSTE", "RECHAZADO"} : Enters(t, s) /\ Notify(t, "FABRICACION")
  \/ tank[t].state = "APROBADO" /\ Enters(t, "TRASVASANDO") /\ notice' = notice
  \/ /\ tank[t].state = "APROBADO" /\ tank'[t].state = "ENVASANDO"
     /\ notice' = notice /\ ConsumePackagingPlanningCard(t)

LEMMA OperationMoves ==
  ASSUME RowsInv, NEW u \in Users, NEW t \in Tanks, NEW v, TankOperation(u, t, v)
  PROVE  Transition(t)
<1>1. PlantTypeOK /\ tank[t] \in TankRows
  BY TankFacts
<1>2. ASSUME NEW s, NEW l, NEW row, row \in TankRows, row.version = tank[t].version,
             Move(t, s, row, l)
      PROVE  tank'[t].state = s
  BY <1>1, <1>2, MoveIsLocal
<1>3. ASSUME NEW l \in Lots
      PROVE  LET row == [tank[t] EXCEPT !.activeLot = l]
             IN row \in TankRows /\ row.version = tank[t].version
  BY <1>1 DEF TankRows, LotOrNone
<1>4. ASSUME NEW row \in {tank[t], [tank[t] EXCEPT !.activeLot = NoLot],
                         [tank[t] EXCEPT !.serviceReason = TRUE],
                         [tank[t] EXCEPT !.serviceReason = FALSE]}
      PROVE  row \in TankRows /\ row.version = tank[t].version
  BY <1>1 DEF TankRows, LotOrNone
<1>5. BumpVersion(t) => tank'[t].state = tank[t].state
  BY <1>1, BumpEffect
<1>6. CASE \E l \in Lots, o \in Contents : Start(u, t, v, l, o)
  <2>1. tank'[t].state = "FABRICANDO"
    BY <1>2, <1>3, <1>6 DEF Start
  <2> QED BY <1>6, <2>1 DEF Start, Transition, Enters, boardVars
<1>7. CASE SendToLab(u, t, v)
  <2>1. tank'[t].state = "LABORATORIO"
    BY <1>2, <1>4, <1>7 DEF SendToLab
  <2> QED BY <1>7, <2>1 DEF SendToLab, Transition, Enters, boardVars
<1>8. CASE EmptyRejected(u, t, v)
  <2>1. tank'[t].state = "VACIO"
    BY <1>2, <1>4, <1>8 DEF EmptyRejected
  <2> QED BY <1>8, <2>1 DEF EmptyRejected, Transition, Enters, boardVars
<1>9. CASE ServiceOut(u, t, v)
  <2>1. tank'[t].state = "FUERA_DE_SERVICIO"
    BY <1>2, <1>4, <1>9 DEF ServiceOut
  <2> QED BY <1>9, <2>1 DEF ServiceOut, Transition, Enters, boardVars
<1>10. CASE ServiceIn(u, t, v)
  <2>1. tank'[t].state = "VACIO"
    BY <1>2, <1>4, <1>10 DEF ServiceIn
  <2> QED BY <1>10, <2>1 DEF ServiceIn, Transition, Enters, boardVars
<1>11. CASE \E r \in Results, c \in Contents : Quality(u, t, v, r, c)
  <2>1. PICK r \in Results, c \in Contents : Quality(u, t, v, r, c)
    BY <1>11
  <2>2. tank'[t].state = r
    BY <1>2, <1>4, <2>1 DEF Quality
  <2>3. packCard' = packCard /\ Notify(t, IF r = "APROBADO" THEN "ENVASADO" ELSE "FABRICACION")
    BY <2>1 DEF Quality, boardVars
  <2>4. r \in {"APROBADO", "AJUSTE", "RECHAZADO"}
    BY DEF Results
  <2> QED BY <2>2, <2>3, <2>4 DEF Transition, Enters
<1>12. CASE \E c \in Contents : StartPackaging(u, t, v, c)
  <2>1. tank'[t].state = "ENVASANDO"
    BY <1>2, <1>4, <1>12 DEF StartPackaging
  <2> QED BY <1>12, <2>1 DEF StartPackaging, Current, Transition, Enters, boardVars
<1>13. CASE FinishPackaging(u, t, v)
  <2>1. tank'[t].state = "VACIO"
    BY <1>2, <1>4, <1>13 DEF FinishPackaging
  <2> QED BY <1>13, <2>1 DEF FinishPackaging, Transition, Enters, boardVars
<1>14. CASE StartTransfer(u, t, v)
  <2>1. tank'[t].state = "TRASVASANDO"
    BY <1>2, <1>4, <1>14 DEF StartTransfer
  <2> QED BY <1>14, <2>1 DEF StartTransfer, Current, Transition, Enters, boardVars
<1>15. CASE FinishTransfer(u, t, v)
  <2>1. tank'[t].state = "VACIO"
    BY <1>2, <1>4, <1>15 DEF FinishTransfer
  <2> QED BY <1>15, <2>1 DEF FinishTransfer, Transition, Enters, boardVars
<1>16. CASE \E o \in Contents : CorrectLot(u, t, v, o)
  BY <1>5, <1>16 DEF CorrectLot, Current, Transition, Stays, boardVars
<1>17. CASE \E b \in BOOLEAN : ReceiveLaboratorySample(u, t, v, b)
  BY <1>5, <1>17 DEF ReceiveLaboratorySample, Current, Transition, Stays, boardVars
<1>18. CASE StartLaboratoryAnalysis(u, t, v)
  BY <1>5, <1>18 DEF StartLaboratoryAnalysis, Current, Transition, Stays, boardVars
<1>19. CASE \E c \in Contents : CorrectQualityAdjustment(u, t, v, c)
  BY <1>5, <1>19 DEF CorrectQualityAdjustment, Current, Transition, Stays, boardVars
<1>20. CASE \E c \in Contents : NewPackagingOrder(u, t, v, c)
  BY <1>5, <1>20 DEF NewPackagingOrder, Current, Transition, Stays, boardVars
<1>21. CASE \E c \in Contents : CorrectPackaging(u, t, v, c)
  BY <1>5, <1>21 DEF CorrectPackaging, Current, Transition, Stays, boardVars
<1> QED BY <1>6, <1>7, <1>8, <1>9, <1>10, <1>11, <1>12, <1>13,
           <1>14, <1>15, <1>16, <1>17, <1>18, <1>19, <1>20, <1>21 DEF TankOperation

LEMMA NoticeStep ==
  ASSUME RowsInv, NextSectorNotified, [Next]_vars
  PROVE  NextSectorNotified'
<1>1. ASSUME NEW u \in Users, NEW t \in Tanks, NEW v, TankOperation(u, t, v)
      PROVE  NextSectorNotified'
  <2>1. Transition(t)
    BY <1>1, OperationMoves
  <2>2. PICK m : LocalTo(t, m)
    BY <1>1, OperationIsLocal
  <2>3. notice \in [Tanks -> Sectors \cup {"NONE"}]
    BY DEF RowsInv, PlantTypeOK
  <2>4. ASSUME NEW x \in Tanks \ {t}
        PROVE  notice'[x] = notice[x] /\ tank'[x] = tank[x]
    BY <2>1, <2>2, <2>3 DEF Transition, Stays, Notify, LocalTo
  <2>5. /\ tank'[t].state = "LABORATORIO" => notice'[t] = "LABORATORIO"
        /\ tank'[t].state \in {"APROBADO", "ENVASANDO", "TRASVASANDO"} =>
             notice'[t] = "ENVASADO"
        /\ tank'[t].state \in {"AJUSTE", "RECHAZADO"} => notice'[t] = "FABRICACION"
    BY <2>1, <2>3 DEF Transition, Stays, Enters, Notify, NextSectorNotified
  <2> QED BY <2>4, <2>5 DEF NextSectorNotified
<1>2. CASE UNCHANGED plantVars
  BY <1>2 DEF plantVars, NextSectorNotified
<1> QED BY <1>1, <1>2 DEF Next, Planning, vars

\* Whenever the next step of a tank belongs to another sector, the newest
\* notification about the tank is addressed to that sector
\* (plant.service.ts:1164, 1387-1405, 1497, 1703).
THEOREM SectorNotified == Spec => []NextSectorNotified
<1>1. Init => NextSectorNotified
  BY DEF Init, NextSectorNotified
<1>2. PlantInv /\ NextSectorNotified /\ [Next]_vars => NextSectorNotified'
  BY NoticeStep DEF PlantInv
<1> QED BY <1>1, <1>2, PlantInvariant, PTL DEF Spec

LEMMA PlanStepSpares ==
  ASSUME PackInv, NEW state, PlanPackaging(state), NEW x, state[x] = "ENVASANDO",
         CardsOf(x) = {}
  PROVE  CardsOf(x)' = {}
<1>1. packCard \in [PackCards -> [tank: BoardTanks, position: Nat] \cup {NoPackCard}]
  BY DEF PackInv, PackBoardTypeOK
<1>2. CASE \E c \in PackCards, t \in BoardTanks : CreatePackagingPlanningCard(c, t, state)
  <2>1. PICK c \in PackCards, t \in BoardTanks : CreatePackagingPlanningCard(c, t, state)
    BY <1>2
  <2>2. t # x
    BY <2>1 DEF CreatePackagingPlanningCard, Plannable
  <2>3. /\ packCard'[c].tank = t
        /\ \A d \in PackCards \ {c} : packCard'[d] = packCard[d]
    BY <1>1, <2>1 DEF CreatePackagingPlanningCard
  <2> QED BY <2>2, <2>3 DEF CardsOf, Queue
<1>3. CASE \E c \in PackCards, t \in BoardTanks : UpdatePackagingPlanningCard(c, t, state)
  <2>1. PICK c \in PackCards, t \in BoardTanks : UpdatePackagingPlanningCard(c, t, state)
    BY <1>3
  <2>2. t # x
    BY <2>1 DEF UpdatePackagingPlanningCard, Plannable
  <2>3. /\ packCard'[c].tank = t
        /\ \A d \in PackCards \ {c} : packCard'[d] = packCard[d]
    BY <1>1, <2>1 DEF UpdatePackagingPlanningCard, NoPackCard
  <2> QED BY <2>2, <2>3 DEF CardsOf, Queue
<1>4. CASE \E c \in PackCards, p \in 0 .. MaxPlanned - 1 : MovePackagingPlanningCard(c, p)
  <2>1. PICK c \in PackCards, p \in 0 .. MaxPlanned - 1 : MovePackagingPlanningCard(c, p)
    BY <1>4
  <2>2. p \in Nat
    BY <2>1, MaxPlannedNat
  <2>3. Queue' = Queue /\ \A d \in PackCards : packCard'[d].tank = packCard[d].tank
    BY <2>1, <2>2, MovedQueue
  <2> QED BY <2>3 DEF CardsOf, Queue
<1>5. CASE \E c \in PackCards : DeletePackagingPlanningCard(c)
  <2>1. PICK c \in Queue : packCard' = QueueWithout(c)
    BY <1>5 DEF DeletePackagingPlanningCard
  <2>2. /\ Queue' = Queue \ {c}
        /\ \A d \in Queue \ {c} : packCard'[d].tank = packCard[d].tank
    BY <2>1, RemovedRows
  <2> QED BY <2>2 DEF CardsOf
<1> QED BY <1>2, <1>3, <1>4, <1>5, PlanPackaging(state) DEF PlanPackaging

\* The start of packaging leaves no plan of the tank, and adds none.
LEMMA ConsumeSpares ==
  ASSUME PackInv, NEW t, ConsumePackagingPlanningCard(t)
  PROVE  CardsOf(t)' = {} /\ \A x : CardsOf(x) = {} => CardsOf(x)' = {}
<1>1. CASE CardsOf(t) = {}
  BY <1>1 DEF ConsumePackagingPlanningCard, CardsOf, Queue
<1>2. CASE CardsOf(t) # {}
  <2>1. PICK c \in CardsOf(t) : packCard' = QueueWithout(c)
    BY <1>2 DEF ConsumePackagingPlanningCard
  <2>2. c \in Queue /\ \A d \in CardsOf(t) : d = c
    BY <2>1 DEF CardsOf, PackInv, QueueInSequence
  <2>3. /\ Queue' = Queue \ {c}
        /\ \A d \in Queue \ {c} : packCard'[d].tank = packCard[d].tank
    BY <2>1, <2>2, RemovedRows
  <2> QED BY <2>2, <2>3 DEF CardsOf
<1> QED BY <1>1, <1>2

LEMMA NoPlanStep ==
  ASSUME PlantInv, NoPlanWhileFilling, [Next]_vars
  PROVE  NoPlanWhileFilling'
<1> USE DEF PlantInv
<1>1. ASSUME NEW u \in Users, NEW t \in Tanks, NEW v, TankOperation(u, t, v),
             NEW x \in BoardTanks, tank'[x].state = "ENVASANDO"
      PROVE  CardsOf(x)' = {}
  <2>1. Transition(t) /\ x \in Tanks
    BY <1>1, OperationMoves, TankIds
  <2>2. PICK m : LocalTo(t, m)
    BY <1>1, OperationIsLocal
  <2>3. x # t => tank[x].state = "ENVASANDO" /\ CardsOf(x) = {}
    BY <1>1, <2>1, <2>2 DEF LocalTo, NoPlanWhileFilling
  <2>4. CASE ConsumePackagingPlanningCard(t)
    BY <2>3, <2>4, ConsumeSpares
  <2>5. CASE packCard' = packCard /\ (x = t => tank[t].state = "ENVASANDO")
    <3>1. CardsOf(x) = {}
      BY <1>1, <2>3, <2>5 DEF NoPlanWhileFilling
    <3> QED BY <2>5, <3>1 DEF CardsOf, Queue
  <2> QED BY <1>1, <2>1, <2>4, <2>5 DEF Transition, Stays, Enters
<1>2. ASSUME NEW u \in Users, Planning(u), NEW x \in BoardTanks,
             tank'[x].state = "ENVASANDO"
      PROVE  CardsOf(x)' = {}
  <2>1. tank' = tank
    BY <1>2 DEF Planning, plantVars
  <2>2. CardsOf(x) = {} /\ tank[x].state = "ENVASANDO"
    BY <1>2, <2>1 DEF NoPlanWhileFilling
  <2>3. CASE packCard' = packCard
    BY <2>2, <2>3 DEF CardsOf, Queue
  <2>4. CASE PlanPackaging([t \in BoardTanks |-> tank[t].state])
    <3> DEFINE state == [t \in BoardTanks |-> tank[t].state]
    <3>1. state[x] = "ENVASANDO"
      BY <2>2
    <3> HIDE DEF state
    <3> QED BY <2>2, <2>4, <3>1, PlanStepSpares DEF state
  <2> QED BY <1>2, <2>3, <2>4 DEF Planning
<1>3. CASE UNCHANGED vars
  BY <1>3 DEF vars, plantVars, NoPlanWhileFilling, CardsOf, Queue
<1> QED BY <1>1, <1>2, <1>3 DEF Next, NoPlanWhileFilling

\* The packaging plan never holds a tank that is being packaged: the start of
\* packaging removes its plan and no planner can add one afterwards
\* (plant.service.ts:467-488, 535-547, 1549-1560).
THEOREM FillingIsNotPlanned == Spec => []NoPlanWhileFilling
<1>1. Init => NoPlanWhileFilling
  BY TankIds DEF Init, NoPlanWhileFilling
<1>2. PlantInv /\ NoPlanWhileFilling /\ [Next]_vars => NoPlanWhileFilling'
  BY NoPlanStep
<1> QED BY <1>1, <1>2, PlantInvariant, PTL DEF Spec
=============================================================================
