------------------------ MODULE PlantPromisesProofs ------------------------
(***************************************************************************)
(* What the agreement of the rows (PlantProofs) gives to those who only    *)
(* look at the plant: the audit log replays the present, a finished lot    *)
(* has left its tank legally, the life of the lots is that of BatchLife,   *)
(* and the operators' screens never pass an old picture for the present.   *)
(***************************************************************************)
EXTENDS PlantProofs, PlantBatches, PlantScreens

\* An operation on tank t leaves the row and the lot of any other tank.
LEMMA OthersKept ==
  ASSUME RowsInv, NEW t \in Tanks, NEW m, LocalTo(t, m), NEW x \in Tanks, x # t
  PROVE  /\ tank'[x] = tank[x] /\ openOrders'[x] = openOrders[x]
         /\ Active(x)' = Active(x)
         /\ Active(x) # NoLot => /\ lot'[Active(x)] = lot[Active(x)]
                                 /\ samples'[Active(x)] = samples[Active(x)]
                                 /\ decisions'[Active(x)] = decisions[Active(x)]
<1>1. tank'[x] = tank[x] /\ openOrders'[x] = openOrders[x] /\ Active(x)' = Active(x)
  BY DEF LocalTo, Active
<1>2. ASSUME Active(x) # NoLot
      PROVE  Active(x) \in Lots /\ Active(x) # m
  <2>1. Active(x) \in Lots /\ lot[Active(x)].tank = x
    BY <1>2, TankFacts
  <2>2. m = Active(t) /\ m = Active(x) => lot[Active(x)].tank = t
    BY <1>2, TankFacts
  <2> QED BY <2>1, <2>2, TankIds DEF LocalTo
<1> QED BY <1>1, <1>2 DEF LocalTo

\* The row of the tank after a move, and the rows it is made of.
LEMMA RowMoved ==
  ASSUME PlantTypeOK, NEW t \in Tanks, NEW s, NEW l, NEW row \in TankRows,
         Move(t, s, row, l)
  PROVE  tank'[t].state = s /\ Active(t)' = row.activeLot
<1>1. tank'[t] = [row EXCEPT !.state = s, !.version = @ + 1]
  BY DEF Move, PlantTypeOK
<1>2. ASSUME NEW r \in TankRows, NEW w
      PROVE  /\ [r EXCEPT !.state = s, !.version = w].state = s
             /\ [r EXCEPT !.state = s, !.version = w].activeLot = r.activeLot
  BY DEF TankRows
<1> QED BY <1>1, <1>2 DEF Active

LEMMA RowsToMove ==
  ASSUME RowsInv, NEW t \in Tanks
  PROVE  /\ \A l \in LotOrNone : /\ [tank[t] EXCEPT !.activeLot = l] \in TankRows
                                 /\ [tank[t] EXCEPT !.activeLot = l].activeLot = l
         /\ \A b \in BOOLEAN :
              /\ [tank[t] EXCEPT !.serviceReason = b] \in TankRows
              /\ [tank[t] EXCEPT !.serviceReason = b].activeLot = Active(t)
<1>1. tank[t] \in TankRows /\ Active(t) = tank[t].activeLot
  BY TankFacts
<1> QED BY <1>1 DEF TankRows

LEMMA RowBumped ==
  ASSUME RowsInv, NEW t \in Tanks, BumpVersion(t)
  PROVE  tank'[t].state = tank[t].state /\ Active(t)' = Active(t)
BY TankFacts, BumpEffect DEF Active

-----------------------------------------------------------------------------
(* The audit log. *)

AuditTells(t) ==
  /\ audited[t].state = tank[t].state
  /\ Active(t) # NoLot => audited[t].order = lot[Active(t)].order
  /\ tank[t].state = "ENVASANDO" =>
       audited[t].packaging = Last(openOrders[t]).content
  /\ Decided(t) => audited[t].decision = Last(decisions[Active(t)]).content

\* What a row of the log says; what an operation on tank t leaves there.
Says(e, s, o, p, d) ==
  e.state = s /\ e.order = o /\ e.packaging = p /\ e.decision = d

Logs(t, s, o, p, d) ==
  /\ Says(audited'[t], s, o, p, d)
  /\ \A x \in Tanks \ {t} : audited'[x] = audited[x]

LEMMA LogRow ==
  ASSUME NEW a \in LastAudited, NEW s, NEW c
  PROVE  /\ Says([a EXCEPT !.state = s], s, a.order, a.packaging, a.decision)
         /\ Says([a EXCEPT !.order = c], a.state, c, a.packaging, a.decision)
         /\ Says([a EXCEPT !.packaging = c], a.state, a.order, c, a.decision)
         /\ Says([a EXCEPT !.decision = c], a.state, a.order, a.packaging, c)
         /\ Says([a EXCEPT !.state = s, !.order = c], s, c, a.packaging, a.decision)
         /\ Says([a EXCEPT !.state = s, !.packaging = c], s, a.order, c, a.decision)
         /\ Says([a EXCEPT !.state = s, !.decision = c], s, a.order, a.packaging, c)
BY DEF LastAudited, Says

\* A new state, a corrected fact, or both, written to the log.
LEMMA StateLogged ==
  ASSUME PlantTypeOK, NEW t \in Tanks, NEW s,
         audited' = [audited EXCEPT ![t].state = s]
  PROVE  Logs(t, s, audited[t].order, audited[t].packaging, audited[t].decision)
<1>1. audited \in [Tanks -> LastAudited] /\ audited[t] \in LastAudited
  BY DEF PlantTypeOK
<1>2. audited'[t] = [audited[t] EXCEPT !.state = s]
  BY <1>1
<1> QED BY <1>1, <1>2, LogRow DEF Logs

LEMMA FactLogged ==
  ASSUME PlantTypeOK, NEW t \in Tanks, NEW c
  PROVE  /\ audited' = [audited EXCEPT ![t].order = c] =>
              Logs(t, audited[t].state, c, audited[t].packaging, audited[t].decision)
         /\ audited' = [audited EXCEPT ![t].packaging = c] =>
              Logs(t, audited[t].state, audited[t].order, c, audited[t].decision)
         /\ audited' = [audited EXCEPT ![t].decision = c] =>
              Logs(t, audited[t].state, audited[t].order, audited[t].packaging, c)
<1> DEFINE a == audited[t]
<1>1. audited \in [Tanks -> LastAudited] /\ a \in LastAudited
  BY DEF PlantTypeOK
<1>2. ASSUME audited' = [audited EXCEPT ![t].order = c]
      PROVE  Logs(t, a.state, c, a.packaging, a.decision)
  <2>1. audited'[t] = [a EXCEPT !.order = c]
    BY <1>1, <1>2
  <2> QED BY <1>1, <1>2, <2>1, LogRow DEF Logs
<1>3. ASSUME audited' = [audited EXCEPT ![t].packaging = c]
      PROVE  Logs(t, a.state, a.order, c, a.decision)
  <2>1. audited'[t] = [a EXCEPT !.packaging = c]
    BY <1>1, <1>3
  <2> QED BY <1>1, <1>3, <2>1, LogRow DEF Logs
<1>4. ASSUME audited' = [audited EXCEPT ![t].decision = c]
      PROVE  Logs(t, a.state, a.order, a.packaging, c)
  <2>1. audited'[t] = [a EXCEPT !.decision = c]
    BY <1>1, <1>4
  <2> QED BY <1>1, <1>4, <2>1, LogRow DEF Logs
<1> QED BY <1>2, <1>3, <1>4

LEMMA StateAndFactLogged ==
  ASSUME PlantTypeOK, NEW t \in Tanks, NEW s, NEW c
  PROVE  /\ audited' = [audited EXCEPT ![t].state = s, ![t].order = c] =>
              Logs(t, s, c, audited[t].packaging, audited[t].decision)
         /\ audited' = [audited EXCEPT ![t].state = s, ![t].packaging = c] =>
              Logs(t, s, audited[t].order, c, audited[t].decision)
         /\ audited' = [audited EXCEPT ![t].state = s, ![t].decision = c] =>
              Logs(t, s, audited[t].order, audited[t].packaging, c)
<1> DEFINE a == audited[t]
<1>1. audited \in [Tanks -> LastAudited] /\ a \in LastAudited
  BY DEF PlantTypeOK
<1>2. ASSUME audited' = [audited EXCEPT ![t].state = s, ![t].order = c]
      PROVE  Logs(t, s, c, a.packaging, a.decision)
  <2>1. audited'[t] = [a EXCEPT !.state = s, !.order = c]
    BY <1>1, <1>2
  <2> QED BY <1>1, <1>2, <2>1, LogRow DEF Logs
<1>3. ASSUME audited' = [audited EXCEPT ![t].state = s, ![t].packaging = c]
      PROVE  Logs(t, s, a.order, c, a.decision)
  <2>1. audited'[t] = [a EXCEPT !.state = s, !.packaging = c]
    BY <1>1, <1>3
  <2> QED BY <1>1, <1>3, <2>1, LogRow DEF Logs
<1>4. ASSUME audited' = [audited EXCEPT ![t].state = s, ![t].decision = c]
      PROVE  Logs(t, s, a.order, a.packaging, c)
  <2>1. audited'[t] = [a EXCEPT !.state = s, !.decision = c]
    BY <1>1, <1>4
  <2> QED BY <1>1, <1>4, <2>1, LogRow DEF Logs
<1> QED BY <1>2, <1>3, <1>4

LEMMA LogStaysTrue ==
  ASSUME RowsInv, AuditReplays, NEW t \in Tanks, NEW m, LocalTo(t, m),
         \A x \in Tanks \ {t} : audited'[x] = audited[x], AuditTells(t)'
  PROVE  AuditReplays'
<1>1. ASSUME NEW x \in Tanks \ {t}
      PROVE  AuditTells(x)'
  <2>1. AuditTells(x)
    BY DEF AuditReplays, AuditTells
  <2>2. /\ tank'[x] = tank[x] /\ openOrders'[x] = openOrders[x]
        /\ Active(x)' = Active(x)
        /\ Active(x) # NoLot => /\ lot'[Active(x)] = lot[Active(x)]
                                /\ decisions'[Active(x)] = decisions[Active(x)]
    BY OthersKept
  <2>3. Decided(x) => Active(x) # NoLot
    BY TankFacts DEF Decided, LotMatchesState
  <2> QED BY <2>1, <2>2, <2>3 DEF AuditTells, Decided
<1> QED BY <1>1 DEF AuditReplays, AuditTells

\* A row added to a sequence is its last one; one alone is replaced by itself.
LEMMA AddedIsLast ==
  ASSUME NEW S, NEW q \in Seq(S), NEW e \in S
  PROVE  Last(Append(q, e)) = e
<1>1. Len(q) \in Nat /\ Len(Append(q, e)) = Len(q) + 1 /\ Append(q, e)[Len(q) + 1] = e
  BY AppendFacts, LenProperties
<1> QED BY <1>1 DEF Last

\* The adjustment corrected is the newest decision.
LEMMA AdjustedIsLast ==
  ASSUME RowsInv, NEW t \in Tanks, NEW l \in Lots, Active(t) = l,
         tank[t].state = "AJUSTE", NEW c \in Contents,
         NEW rows, rows = {i \in DOMAIN decisions[l] : decisions[l][i].result = "AJUSTE"},
         rows # {},
         decisions' = [decisions EXCEPT ![l][Newest(rows)].content = c]
  PROVE  Last(decisions'[l]).content = c
<1> DEFINE q == decisions[l]
           n == Len(q)
<1>1. /\ LaboratoryMatchesState(t) /\ decisions \in [Lots -> Seq(DecisionRows)]
      /\ samples[l] \in Seq(SampleStatuses) /\ l # NoLot
  BY TankFacts, LotIds DEF PlantTypeOK
<1>2. q \in Seq(DecisionRows) /\ n \in Nat /\ DOMAIN q = 1 .. n
  BY <1>1, LenProperties
<1>3. \A i \in 1 .. n : q[i].result = "AJUSTE"
  BY <1>1, <1>2 DEF LaboratoryMatchesState, Filling
<1>4. rows = 1 .. n /\ n \in 1 .. n
  BY <1>2, <1>3
<1>5. Newest(rows) = n
  <2>1. \A j \in rows : j <= n
    BY <1>2, <1>4
  <2>2. \A i \in rows : n <= i => i = n
    BY <1>2, <1>4, <2>1
  <2> HIDE DEF n, q
  <2> QED BY <1>4, <2>1, <2>2 DEF Newest
<1> DEFINE d == [q[n] EXCEPT !.content = c]
           r == [q EXCEPT ![n] = d]
<1>6. decisions' = [decisions EXCEPT ![l] = r]
  BY <1>1, <1>5
<1>7. d \in DecisionRows /\ d.content = c
  <2>1. q[n] \in DecisionRows
    <3> HIDE DEF q, n
    <3> QED BY <1>2, <1>4, ElementOfSeq
  <2> HIDE DEF q, n
  <2> QED BY <2>1 DEF DecisionRows
<1>8. Len(r) = n /\ r[n] = d
  <2> HIDE DEF d, q
  <2> QED BY <1>2, <1>4, <1>7, ExceptSeq
<1>9. decisions'[l] = r
  BY <1>1, <1>6
<1> HIDE DEF r, d, n
<1> QED BY <1>7, <1>8, <1>9 DEF Last

\* The order corrected is the only one that is open.
LEMMA CorrectedOrder ==
  ASSUME RowsInv, NEW t \in Tanks, tank[t].state = "ENVASANDO", NEW c \in Contents,
         openOrders' = [openOrders EXCEPT ![t][Len(openOrders[t])].content = c]
  PROVE  Last(openOrders'[t]).content = c
<1> DEFINE q == openOrders[t]
           e == [q[1] EXCEPT !.content = c]
<1>1. openOrders \in [Tanks -> Seq(OrderRows)] /\ q \in Seq(OrderRows) /\ Len(q) = 1
  BY OneOpenOrder, TankFacts DEF PlantTypeOK
<1>2. openOrders'[t] = [q EXCEPT ![1] = e]
  BY <1>1
<1>3. e \in OrderRows /\ e.content = c
  <2> HIDE DEF q
  <2>0. 1 \in 1 .. Len(q)
    BY <1>1
  <2>1. q[1] \in OrderRows
    BY <1>1, <2>0, ElementOfSeq
  <2> QED BY <2>1 DEF OrderRows
<1> HIDE DEF e, q
<1>4. [q EXCEPT ![1] = e] = <<e>>
  BY <1>1, <1>3, ReplaceOnly
<1>5. Last(<<e>>) = e
  BY DEF Last
<1> QED BY <1>2, <1>3, <1>4, <1>5

\* The order of a lot is written when it is started or corrected, only then.
LEMMA OrderOfLot ==
  ASSUME NEW l \in Lots, lot \in [Lots -> LotRows]
  PROVE  /\ \A o : lot' = [lot EXCEPT ![l].order = o] => lot'[l].order = o
         /\ \A b : lot' = [lot EXCEPT ![l].specificWeight = b] =>
                     lot'[l].order = lot[l].order
         /\ lot' = [lot EXCEPT ![l].closed = @ + 1] => lot'[l].order = lot[l].order
         /\ \A t, o : lot' = [lot EXCEPT ![l].tank = t, ![l].order = o] =>
                        lot'[l].order = o
BY DEF LotRows

\* What an operation writes to the log is what it makes of the tank.
LEMMA OperationIsLogged ==
  ASSUME RowsInv, AuditReplays, NEW u \in Users, NEW t \in Tanks, NEW v,
         TankOperation(u, t, v)
  PROVE  AuditTells(t)' /\ \A x \in Tanks \ {t} : audited'[x] = audited[x]
<1> DEFINE l == Active(t)
<1>1. /\ PlantTypeOK /\ l = tank[t].activeLot /\ LotMatchesState(t) /\ tank[t] \in TankRows
      /\ l # NoLot => l \in Lots
      /\ lot \in [Lots -> LotRows] /\ openOrders \in [Tanks -> Seq(OrderRows)]
      /\ decisions \in [Lots -> Seq(DecisionRows)]
  BY TankFacts DEF PlantTypeOK
<1>2. AuditTells(t)
  BY DEF AuditReplays, AuditTells
\* The tank holds its lot in every state from here on.
<1>3. tank[t].state \notin {"VACIO", "FUERA_DE_SERVICIO"} => l \in Lots
  BY <1>1 DEF LotMatchesState
\* Operations that leave the tank without a lot.
<1>4. ASSUME NEW s \in {"VACIO", "FUERA_DE_SERVICIO"}, NEW row, NEW k,
             row \in TankRows, row.activeLot = NoLot, Move(t, s, row, k),
             audited' = [audited EXCEPT ![t].state = s]
      PROVE  AuditTells(t)' /\ \A x \in Tanks \ {t} : audited'[x] = audited[x]
  <2>1. tank'[t].state = s /\ Active(t)' = NoLot
    BY <1>1, <1>4, RowMoved
  <2>2. Logs(t, s, audited[t].order, audited[t].packaging, audited[t].decision)
    BY <1>1, <1>4, StateLogged
  <2> QED BY <2>1, <2>2 DEF AuditTells, Logs, Says, Decided
<1>5. CASE \E k \in Lots, o \in Contents : Start(u, t, v, k, o)
  <2>1. PICK k \in Lots, o \in Contents : Start(u, t, v, k, o)
    BY <1>5
  <2>2. tank'[t].state = "FABRICANDO" /\ Active(t)' = k
    <3> DEFINE row == [tank[t] EXCEPT !.activeLot = k]
    <3>1. row \in TankRows /\ row.activeLot = k
      BY RowsToMove DEF LotOrNone
    <3>2. Move(t, "FABRICANDO", row, k)
      BY <2>1 DEF Start
    <3> HIDE DEF row
    <3> QED BY <1>1, <3>1, <3>2, RowMoved
  <2>3. lot'[k].order = o
    BY <1>1, <2>1, OrderOfLot DEF Start
  <2>4. Logs(t, "FABRICANDO", o, audited[t].packaging, audited[t].decision)
    BY <1>1, <2>1, StateAndFactLogged DEF Start
  <2> QED BY <2>2, <2>3, <2>4 DEF AuditTells, Logs, Says, Decided
<1>6. CASE SendToLab(u, t, v)
  <2>1. tank'[t].state = "LABORATORIO" /\ Active(t)' = l
    BY <1>1, <1>6, RowMoved DEF SendToLab
  <2>2. Logs(t, "LABORATORIO", audited[t].order, audited[t].packaging, audited[t].decision)
    BY <1>1, <1>6, StateLogged DEF SendToLab
  <2>3. lot' = lot
    BY <1>6 DEF SendToLab
  <2> QED BY <1>2, <2>1, <2>2, <2>3 DEF AuditTells, Logs, Says, Decided
<1>7. CASE EmptyRejected(u, t, v)
  <2> DEFINE row == [tank[t] EXCEPT !.activeLot = NoLot]
  <2>1. row \in TankRows /\ row.activeLot = NoLot
    BY RowsToMove DEF LotOrNone
  <2>2. Move(t, "VACIO", row, tank[t].activeLot) /\ audited' = [audited EXCEPT ![t].state = "VACIO"]
    BY <1>7 DEF EmptyRejected
  <2> HIDE DEF row
  <2> QED BY <1>4, <2>1, <2>2
<1>8. CASE ServiceOut(u, t, v)
  <2> DEFINE row == [tank[t] EXCEPT !.serviceReason = TRUE]
  <2>1. row \in TankRows /\ row.activeLot = Active(t)
    BY RowsToMove
  <2>2. Move(t, "FUERA_DE_SERVICIO", row, NoLot) /\ audited' = [audited EXCEPT ![t].state = "FUERA_DE_SERVICIO"]
    BY <1>8 DEF ServiceOut
  <2>3. Active(t) = NoLot
    BY <1>1, <1>8 DEF ServiceOut, Current, LotMatchesState
  <2> HIDE DEF row
  <2> QED BY <1>4, <2>1, <2>2, <2>3
<1>9. CASE ServiceIn(u, t, v)
  <2> DEFINE row == [tank[t] EXCEPT !.serviceReason = FALSE]
  <2>1. row \in TankRows /\ row.activeLot = Active(t)
    BY RowsToMove
  <2>2. Move(t, "VACIO", row, NoLot) /\ audited' = [audited EXCEPT ![t].state = "VACIO"]
    BY <1>9 DEF ServiceIn
  <2>3. Active(t) = NoLot
    BY <1>1, <1>9 DEF ServiceIn, Current, LotMatchesState
  <2> HIDE DEF row
  <2> QED BY <1>4, <2>1, <2>2, <2>3
<1>10. CASE \E o \in Contents : CorrectLot(u, t, v, o)
  <2>1. PICK o \in Contents : CorrectLot(u, t, v, o)
    BY <1>10
  <2>2. tank'[t].state = tank[t].state /\ Active(t)' = l
    BY <2>1, RowBumped DEF CorrectLot
  <2>3. lot'[l].order = o
    BY <1>1, <2>1, OrderOfLot DEF CorrectLot
  <2>4. Logs(t, audited[t].state, o, audited[t].packaging, audited[t].decision)
    BY <1>1, <2>1, FactLogged DEF CorrectLot
  <2>5. openOrders' = openOrders /\ decisions' = decisions
    BY <2>1 DEF CorrectLot, labVars, finalVars
  <2> QED BY <1>2, <2>2, <2>3, <2>4, <2>5 DEF AuditTells, Logs, Says, Decided
<1>11. CASE (\E b \in BOOLEAN : ReceiveLaboratorySample(u, t, v, b))
              \/ StartLaboratoryAnalysis(u, t, v)
  <2>1. BumpVersion(t) /\ UNCHANGED <<lot, decisions, openOrders, audited>>
    BY <1>11 DEF ReceiveLaboratorySample, StartLaboratoryAnalysis, finalVars
  <2>2. tank'[t].state = tank[t].state /\ Active(t)' = l
    BY <2>1, RowBumped
  <2> QED BY <1>2, <2>1, <2>2 DEF AuditTells, Decided
<1>12. CASE \E r \in Results, c \in Contents : Quality(u, t, v, r, c)
  <2>1. PICK r \in Results, c \in Contents : Quality(u, t, v, r, c)
    BY <1>12
  <2> DEFINE d == [result |-> r, content |-> c]
  <2>2. tank'[t].state = r /\ Active(t)' = l
    BY <1>1, <2>1, RowMoved DEF Quality
  <2>3. l \in Lots /\ decisions' = [decisions EXCEPT ![l] = Append(@, d)]
    BY <1>1, <2>1 DEF Quality
  <2>4. d \in DecisionRows /\ d.content = c
    BY DEF DecisionRows
  <2> HIDE DEF d
  <2>5. decisions'[l] = Append(decisions[l], d) /\ decisions[l] \in Seq(DecisionRows)
    BY <1>1, <2>3
  <2>6. Last(decisions'[l]).content = c
    BY <2>4, <2>5, AddedIsLast
  <2>7. lot'[l].order = lot[l].order
    BY <1>1, <2>1, <2>3, OrderOfLot DEF Quality
  <2>8. Logs(t, r, audited[t].order, audited[t].packaging, c)
    BY <1>1, <2>1, StateAndFactLogged DEF Quality
  <2>9. r # "ENVASANDO"
    BY DEF Results
  <2> QED BY <1>2, <2>2, <2>3, <2>6, <2>7, <2>8, <2>9 DEF AuditTells, Logs, Says
<1>13. CASE \E c \in Contents : CorrectQualityAdjustment(u, t, v, c)
  <2>1. PICK c \in Contents : CorrectQualityAdjustment(u, t, v, c)
    BY <1>13
  <2>2. tank'[t].state = tank[t].state /\ Active(t)' = l /\ tank[t].state = "AJUSTE"
    BY <2>1, RowBumped DEF CorrectQualityAdjustment, Current
  <2>3. l \in Lots
    BY <1>3, <2>2
  <2>4. Last(decisions'[l]).content = c
    <3> DEFINE rows == {i \in DOMAIN decisions[l] : decisions[l][i].result = "AJUSTE"}
    <3>1. rows # {} /\ decisions' = [decisions EXCEPT ![l][Newest(rows)].content = c]
      BY <1>1, <2>1 DEF CorrectQualityAdjustment
    <3>2. Active(t) = l
      OBVIOUS
    <3> HIDE DEF l
    <3> QED BY <2>2, <2>3, <3>1, <3>2, AdjustedIsLast
  <2>5. Logs(t, audited[t].state, audited[t].order, audited[t].packaging, c)
    BY <1>1, <2>1, FactLogged DEF CorrectQualityAdjustment
  <2>6. lot' = lot
    BY <2>1 DEF CorrectQualityAdjustment
  <2> QED BY <1>2, <2>2, <2>4, <2>5, <2>6 DEF AuditTells, Logs, Says, Decided
<1>14. CASE \E c \in Contents : StartPackaging(u, t, v, c)
  <2>1. PICK c \in Contents : StartPackaging(u, t, v, c)
    BY <1>14
  <2> DEFINE e == [lot |-> l, content |-> c]
  <2>2. /\ tank'[t].state = "ENVASANDO" /\ Active(t)' = l /\ tank[t].state = "APROBADO"
    BY <1>1, <2>1, RowMoved DEF StartPackaging, Current
  <2>3. /\ openOrders' = [openOrders EXCEPT ![t] = Append(@, e)] /\ l \in Lots
        /\ lot' = lot /\ decisions' = decisions
    BY <1>1, <2>1 DEF StartPackaging, labVars
  <2>4. e \in OrderRows /\ e.content = c
    BY <2>3 DEF OrderRows
  <2> HIDE DEF e
  <2>5. openOrders'[t] = Append(openOrders[t], e) /\ openOrders[t] \in Seq(OrderRows)
    BY <1>1, <2>3
  <2>6. Last(openOrders'[t]).content = c
    BY <2>4, <2>5, AddedIsLast
  <2>7. Logs(t, "ENVASANDO", audited[t].order, c, audited[t].decision)
    BY <1>1, <2>1, StateAndFactLogged DEF StartPackaging
  <2> QED BY <1>2, <2>2, <2>3, <2>6, <2>7 DEF AuditTells, Logs, Says, Decided
<1>15. CASE \E c \in Contents : NewPackagingOrder(u, t, v, c)
  <2>1. PICK c \in Contents : NewPackagingOrder(u, t, v, c)
    BY <1>15
  <2> DEFINE e == [lot |-> l, content |-> c]
  <2>2. /\ tank'[t].state = tank[t].state /\ Active(t)' = l /\ tank[t].state = "ENVASANDO"
    BY <2>1, RowBumped DEF NewPackagingOrder, Current
  <2>3. /\ openOrders' = [openOrders EXCEPT ![t] = Append(Front(@), e)] /\ l \in Lots
        /\ decisions' = decisions
    BY <1>1, <2>1 DEF NewPackagingOrder, labVars
  <2>4. e \in OrderRows /\ e.content = c
    BY <2>3 DEF OrderRows
  <2> HIDE DEF e
  <2>5. Front(openOrders[t]) = << >> /\ Last(openOrders[t]).lot = l
    BY <2>2, OneOpenOrder
  <2>6. openOrders'[t] = Append(<< >>, e) /\ << >> \in Seq(OrderRows)
    BY <1>1, <2>3, <2>5, EmptySeq
  <2>7. Last(openOrders'[t]).content = c
    BY <2>4, <2>6, AddedIsLast
  <2>8. lot'[l].order = lot[l].order
    BY <1>1, <2>1, <2>3, <2>5, OrderOfLot DEF NewPackagingOrder
  <2>9. Logs(t, audited[t].state, audited[t].order, c, audited[t].decision)
    BY <1>1, <2>1, FactLogged DEF NewPackagingOrder
  <2> QED BY <1>2, <2>2, <2>3, <2>7, <2>8, <2>9 DEF AuditTells, Logs, Says, Decided
<1>16. CASE \E c \in Contents : CorrectPackaging(u, t, v, c)
  <2>1. PICK c \in Contents : CorrectPackaging(u, t, v, c)
    BY <1>16
  <2>2. /\ tank'[t].state = tank[t].state /\ Active(t)' = l /\ tank[t].state = "ENVASANDO"
    BY <2>1, RowBumped DEF CorrectPackaging, Current
  <2>3. lot' = lot /\ decisions' = decisions
    BY <2>1 DEF CorrectPackaging, labVars
  <2>4. Last(openOrders'[t]).content = c
    BY <1>1, <2>1, <2>2, CorrectedOrder DEF CorrectPackaging
  <2>5. Logs(t, audited[t].state, audited[t].order, c, audited[t].decision)
    BY <1>1, <2>1, FactLogged DEF CorrectPackaging
  <2> QED BY <1>2, <2>2, <2>3, <2>4, <2>5 DEF AuditTells, Logs, Says, Decided
<1>17. CASE FinishPackaging(u, t, v)
  <2> DEFINE row == [tank[t] EXCEPT !.activeLot = NoLot]
  <2>1. row \in TankRows /\ row.activeLot = NoLot
    BY RowsToMove DEF LotOrNone
  <2>2. Move(t, "VACIO", row, tank[t].activeLot) /\ audited' = [audited EXCEPT ![t].state = "VACIO"]
    BY <1>17 DEF FinishPackaging
  <2> HIDE DEF row
  <2> QED BY <1>4, <2>1, <2>2
<1>18. CASE StartTransfer(u, t, v)
  <2>1. /\ tank'[t].state = "TRASVASANDO" /\ Active(t)' = l /\ tank[t].state = "APROBADO"
    BY <1>1, <1>18, RowMoved DEF StartTransfer, Current
  <2>2. lot' = lot /\ decisions' = decisions
    BY <1>18 DEF StartTransfer, labVars
  <2>3. Logs(t, "TRASVASANDO", audited[t].order, audited[t].packaging, audited[t].decision)
    BY <1>1, <1>18, StateLogged DEF StartTransfer
  <2> QED BY <1>2, <2>1, <2>2, <2>3 DEF AuditTells, Logs, Says, Decided
<1>19. CASE FinishTransfer(u, t, v)
  <2> DEFINE row == [tank[t] EXCEPT !.activeLot = NoLot]
  <2>1. row \in TankRows /\ row.activeLot = NoLot
    BY RowsToMove DEF LotOrNone
  <2>2. Move(t, "VACIO", row, tank[t].activeLot) /\ audited' = [audited EXCEPT ![t].state = "VACIO"]
    BY <1>19 DEF FinishTransfer
  <2> HIDE DEF row
  <2> QED BY <1>4, <2>1, <2>2
<1> QED BY <1>5, <1>6, <1>7, <1>8, <1>9, <1>10, <1>11, <1>12, <1>13, <1>14,
           <1>15, <1>16, <1>17, <1>18, <1>19 DEF TankOperation

LEMMA AuditStep ==
  ASSUME RowsInv, AuditReplays, [Next]_vars
  PROVE  AuditReplays'
<1>1. ASSUME NEW u \in Users, NEW t \in Tanks, NEW v, TankOperation(u, t, v)
      PROVE  AuditReplays'
  <2>1. PICK m : LocalTo(t, m)
    BY <1>1, OperationIsLocal
  <2>2. AuditTells(t)' /\ \A x \in Tanks \ {t} : audited'[x] = audited[x]
    BY <1>1, OperationIsLogged
  <2> QED BY <2>1, <2>2, LogStaysTrue
<1>2. CASE UNCHANGED plantVars
  BY <1>2 DEF plantVars, AuditReplays, Active, Decided
<1> QED BY <1>1, <1>2 DEF Next, Planning, vars

\* What the audit log says last of a tank is what its rows say, whatever was
\* corrected and however many tanks, lots and operators there are (the audit
\* calls of plant.service.ts:1078-1896).
THEOREM AuditTellsThePresent == Spec => []AuditReplays
<1>1. Init => AuditReplays
  BY DEF Init, AuditReplays, Active, Decided
<1>2. PlantInv /\ AuditReplays /\ [Next]_vars => AuditReplays'
  BY AuditStep DEF PlantInv
<1> QED BY <1>1, <1>2, PlantInvariant, PTL DEF Spec

-----------------------------------------------------------------------------
(* What an operation makes of a tank and its lot: it loads a lot, keeps or     *)
(* leads on the one there is, lets it leave, or opens and closes an empty tank. *)

OnlyLot(m) == \A k \in Lots \ {m} : lot'[k] = lot[k]

Loads(t, k) ==
  /\ tank[t].state = "VACIO" /\ lot[k].tank = NoTank
  /\ tank'[t].state = "FABRICANDO" /\ Active(t)' = k
  /\ lot'[k].tank = t
  /\ lot'[k].finished = lot[k].finished /\ lot'[k].closed = lot[k].closed
  /\ OnlyLot(k)

SameLot(t) ==
  /\ Active(t) \in Lots /\ Active(t)' = Active(t)
  /\ lot'[Active(t)].tank = lot[Active(t)].tank
  /\ lot'[Active(t)].finished = lot[Active(t)].finished
  /\ OnlyLot(Active(t))

Rests(t) ==
  /\ SameLot(t)
  /\ tank'[t].state = tank[t].state
  /\ tank[t].state # "ENVASANDO" => lot'[Active(t)].closed = lot[Active(t)].closed

LedOn(from, to) ==
  \/ from \in {"FABRICANDO", "AJUSTE"} /\ to = "LABORATORIO"
  \/ from = "LABORATORIO" /\ to \in Results
  \/ from = "APROBADO" /\ to \in {"ENVASANDO", "TRASVASANDO"}

GoesOn(t) ==
  /\ SameLot(t)
  /\ LedOn(tank[t].state, tank'[t].state)
  /\ lot'[Active(t)].closed = lot[Active(t)].closed

Leaves(t) ==
  /\ Active(t) \in Lots /\ Active(t)' = NoLot /\ tank'[t].state = "VACIO"
  /\ lot'[Active(t)].tank = lot[Active(t)].tank /\ lot'[Active(t)].finished
  /\ lot'[Active(t)].specificWeight = lot[Active(t)].specificWeight
  /\ \/ tank[t].state = "RECHAZADO" /\ lot'[Active(t)].closed = lot[Active(t)].closed
     \/ /\ tank[t].state \in {"ENVASANDO", "TRASVASANDO"}
        /\ lot'[Active(t)].closed = lot[Active(t)].closed + 1
  /\ OnlyLot(Active(t)) /\ samples' = samples /\ decisions' = decisions

OpensOrCloses(t) ==
  /\ Active(t) = NoLot /\ Active(t)' = NoLot /\ lot' = lot
  /\ {tank[t].state, tank'[t].state} = {"VACIO", "FUERA_DE_SERVICIO"}

Passage(t) ==
  \/ \E k \in Lots : Loads(t, k)
  \/ Rests(t) \/ GoesOn(t) \/ Leaves(t) \/ OpensOrCloses(t)

\* The row of a lot after each of the writes there are.
LEMMA LotWritten ==
  ASSUME PlantTypeOK, NEW l \in Lots
  PROVE  /\ \A o : lot' = [lot EXCEPT ![l].order = o] =>
              /\ lot'[l].tank = lot[l].tank /\ lot'[l].finished = lot[l].finished
              /\ lot'[l].closed = lot[l].closed /\ OnlyLot(l)
         /\ \A b : lot' = [lot EXCEPT ![l].specificWeight = b] =>
              /\ lot'[l].tank = lot[l].tank /\ lot'[l].finished = lot[l].finished
              /\ lot'[l].closed = lot[l].closed /\ OnlyLot(l)
         /\ lot' = [lot EXCEPT ![l].closed = @ + 1] =>
              /\ lot'[l].tank = lot[l].tank /\ lot'[l].finished = lot[l].finished
              /\ OnlyLot(l)
         /\ \A t, o : lot' = [lot EXCEPT ![l].tank = t, ![l].order = o] =>
              /\ lot'[l].tank = t /\ lot'[l].finished = lot[l].finished
              /\ lot'[l].closed = lot[l].closed /\ OnlyLot(l)
         /\ lot' = [lot EXCEPT ![l].finished = TRUE] =>
              /\ lot'[l].tank = lot[l].tank /\ lot'[l].finished
              /\ lot'[l].closed = lot[l].closed
              /\ lot'[l].specificWeight = lot[l].specificWeight /\ OnlyLot(l)
         /\ lot' = [lot EXCEPT ![l].closed = @ + 1, ![l].finished = TRUE] =>
              /\ lot'[l].tank = lot[l].tank /\ lot'[l].finished
              /\ lot'[l].closed = lot[l].closed + 1
              /\ lot'[l].specificWeight = lot[l].specificWeight /\ OnlyLot(l)
<1>1. lot \in [Lots -> LotRows]
  BY DEF PlantTypeOK
<1>2. \A o : lot' = [lot EXCEPT ![l].order = o] =>
              /\ lot'[l].tank = lot[l].tank /\ lot'[l].finished = lot[l].finished
              /\ lot'[l].closed = lot[l].closed /\ OnlyLot(l)
  BY <1>1 DEF LotRows, OnlyLot
<1>3. \A b : lot' = [lot EXCEPT ![l].specificWeight = b] =>
              /\ lot'[l].tank = lot[l].tank /\ lot'[l].finished = lot[l].finished
              /\ lot'[l].closed = lot[l].closed /\ OnlyLot(l)
  BY <1>1 DEF LotRows, OnlyLot
<1>4. lot' = [lot EXCEPT ![l].closed = @ + 1] =>
              /\ lot'[l].tank = lot[l].tank /\ lot'[l].finished = lot[l].finished
              /\ OnlyLot(l)
  BY <1>1 DEF LotRows, OnlyLot
<1>5. \A t, o : lot' = [lot EXCEPT ![l].tank = t, ![l].order = o] =>
              /\ lot'[l].tank = t /\ lot'[l].finished = lot[l].finished
              /\ lot'[l].closed = lot[l].closed /\ OnlyLot(l)
  BY <1>1 DEF LotRows, OnlyLot
<1>6. lot' = [lot EXCEPT ![l].finished = TRUE] =>
              /\ lot'[l].tank = lot[l].tank /\ lot'[l].finished
              /\ lot'[l].closed = lot[l].closed
              /\ lot'[l].specificWeight = lot[l].specificWeight /\ OnlyLot(l)
  BY <1>1 DEF LotRows, OnlyLot
<1>7. lot' = [lot EXCEPT ![l].closed = @ + 1, ![l].finished = TRUE] =>
              /\ lot'[l].tank = lot[l].tank /\ lot'[l].finished
              /\ lot'[l].closed = lot[l].closed + 1
              /\ lot'[l].specificWeight = lot[l].specificWeight /\ OnlyLot(l)
  BY <1>1 DEF LotRows, OnlyLot
<1> QED BY <1>2, <1>3, <1>4, <1>5, <1>6, <1>7

LEMMA OperationPasses ==
  ASSUME RowsInv, NEW u \in Users, NEW t \in Tanks, NEW v, TankOperation(u, t, v)
  PROVE  Passage(t)
<1> DEFINE l == Active(t)
<1>1. /\ PlantTypeOK /\ l = tank[t].activeLot /\ tank[t] \in TankRows
      /\ LotMatchesState(t)
  BY TankFacts
<1>2. /\ l # NoLot => l \in Lots
      /\ tank[t].state \notin {"VACIO", "FUERA_DE_SERVICIO"} => l \in Lots
  BY TankFacts DEF LotMatchesState
<1>3. ASSUME NEW s, NEW k, Move(t, s, tank[t], k)
      PROVE  tank'[t].state = s /\ Active(t)' = l
  BY <1>1, <1>3, RowMoved
<1>4. ASSUME NEW k, Move(t, "VACIO", [tank[t] EXCEPT !.activeLot = NoLot], k)
      PROVE  tank'[t].state = "VACIO" /\ Active(t)' = NoLot
  <2> DEFINE row == [tank[t] EXCEPT !.activeLot = NoLot]
  <2>1. row \in TankRows /\ row.activeLot = NoLot
    BY RowsToMove DEF LotOrNone
  <2>2. Move(t, "VACIO", row, k)
    BY <1>4
  <2> HIDE DEF row
  <2> QED BY <1>1, <2>1, <2>2, RowMoved
<1>5. BumpVersion(t) => tank'[t].state = tank[t].state /\ Active(t)' = l
  BY RowBumped
<1>6. CASE \E k \in Lots, o \in Contents : Start(u, t, v, k, o)
  <2>1. PICK k \in Lots, o \in Contents : Start(u, t, v, k, o)
    BY <1>6
  <2> DEFINE row == [tank[t] EXCEPT !.activeLot = k]
  <2>2. row \in TankRows /\ row.activeLot = k
    BY RowsToMove DEF LotOrNone
  <2>3. Move(t, "FABRICANDO", row, k)
    BY <2>1 DEF Start
  <2> HIDE DEF row
  <2>4. tank'[t].state = "FABRICANDO" /\ Active(t)' = k
    BY <1>1, <2>2, <2>3, RowMoved
  <2>5. Loads(t, k)
    BY <1>1, <2>1, <2>4, LotWritten DEF Start, Current, Loads
  <2> QED BY <2>5 DEF Passage
<1>7. CASE SendToLab(u, t, v)
  <2>1. /\ tank'[t].state = "LABORATORIO" /\ Active(t)' = l /\ l \in Lots /\ lot' = lot
        /\ tank[t].state \in {"FABRICANDO", "AJUSTE"}
    BY <1>1, <1>2, <1>3, <1>7 DEF SendToLab, Current
  <2> QED BY <2>1 DEF Passage, GoesOn, SameLot, LedOn, OnlyLot
<1>8. CASE EmptyRejected(u, t, v)
  <2>1. /\ tank'[t].state = "VACIO" /\ Active(t)' = NoLot /\ tank[t].state = "RECHAZADO"
        /\ lot' = [lot EXCEPT ![l].finished = TRUE] /\ l \in Lots
        /\ samples' = samples /\ decisions' = decisions
    BY <1>1, <1>2, <1>4, <1>8 DEF EmptyRejected, Current, labVars
  <2> QED BY <1>1, <2>1, LotWritten DEF Passage, Leaves
<1>9. CASE ServiceOut(u, t, v)
  <2> DEFINE row == [tank[t] EXCEPT !.serviceReason = TRUE]
  <2>1. row \in TankRows /\ row.activeLot = Active(t)
    BY RowsToMove
  <2>2. Move(t, "FUERA_DE_SERVICIO", row, NoLot) /\ lot' = lot /\ tank[t].state = "VACIO"
    BY <1>9 DEF ServiceOut, Current
  <2> HIDE DEF row
  <2>3. tank'[t].state = "FUERA_DE_SERVICIO" /\ Active(t)' = Active(t) /\ Active(t) = NoLot
    BY <1>1, <2>1, <2>2, RowMoved DEF LotMatchesState
  <2> QED BY <2>2, <2>3 DEF Passage, OpensOrCloses
<1>10. CASE ServiceIn(u, t, v)
  <2> DEFINE row == [tank[t] EXCEPT !.serviceReason = FALSE]
  <2>1. row \in TankRows /\ row.activeLot = Active(t)
    BY RowsToMove
  <2>2. Move(t, "VACIO", row, NoLot) /\ lot' = lot /\ tank[t].state = "FUERA_DE_SERVICIO"
    BY <1>10 DEF ServiceIn, Current
  <2> HIDE DEF row
  <2>3. tank'[t].state = "VACIO" /\ Active(t)' = Active(t) /\ Active(t) = NoLot
    BY <1>1, <2>1, <2>2, RowMoved DEF LotMatchesState
  <2> QED BY <2>2, <2>3 DEF Passage, OpensOrCloses
<1>11. CASE \E o \in Contents : CorrectLot(u, t, v, o)
  <2>1. PICK o \in Contents : CorrectLot(u, t, v, o)
    BY <1>11
  <2>2. /\ tank'[t].state = tank[t].state /\ Active(t)' = l /\ l \in Lots
        /\ lot' = [lot EXCEPT ![l].order = o]
    BY <1>1, <1>2, <1>5, <2>1 DEF CorrectLot
  <2> QED BY <1>1, <2>2, LotWritten DEF Passage, Rests, SameLot
<1>12. CASE \/ \E b \in BOOLEAN : ReceiveLaboratorySample(u, t, v, b)
            \/ StartLaboratoryAnalysis(u, t, v)
            \/ \E c \in Contents : CorrectQualityAdjustment(u, t, v, c)
            \/ \E c \in Contents : CorrectPackaging(u, t, v, c)
  <2>1. /\ tank'[t].state = tank[t].state /\ Active(t)' = l /\ l \in Lots /\ lot' = lot
    BY <1>1, <1>2, <1>5, <1>12
       DEF ReceiveLaboratorySample, StartLaboratoryAnalysis, CorrectQualityAdjustment,
           CorrectPackaging, Current
  <2> QED BY <2>1 DEF Passage, Rests, SameLot, OnlyLot
<1>13. CASE \E r \in Results, c \in Contents : Quality(u, t, v, r, c)
  <2>1. PICK r \in Results, c \in Contents : Quality(u, t, v, r, c)
    BY <1>13
  <2>2. /\ tank'[t].state = r /\ Active(t)' = l /\ l \in Lots
        /\ tank[t].state = "LABORATORIO"
        /\ lot' = [lot EXCEPT ![l].specificWeight = (r = "APROBADO")]
    BY <1>1, <1>2, <1>3, <2>1 DEF Quality, Current
  <2> QED BY <1>1, <2>2, LotWritten DEF Passage, GoesOn, SameLot, LedOn
<1>14. CASE (\E c \in Contents : StartPackaging(u, t, v, c)) \/ StartTransfer(u, t, v)
  <2>1. /\ tank'[t].state \in {"ENVASANDO", "TRASVASANDO"} /\ Active(t)' = l /\ l \in Lots
        /\ tank[t].state = "APROBADO" /\ lot' = lot
    BY <1>1, <1>2, <1>3, <1>14 DEF StartPackaging, StartTransfer, Current
  <2> QED BY <2>1 DEF Passage, GoesOn, SameLot, LedOn, OnlyLot
<1>15. CASE \E c \in Contents : NewPackagingOrder(u, t, v, c)
  <2>1. PICK c \in Contents : NewPackagingOrder(u, t, v, c)
    BY <1>15
  <2>2. /\ tank'[t].state = tank[t].state /\ Active(t)' = l /\ l \in Lots
        /\ tank[t].state = "ENVASANDO"
        /\ lot' = [lot EXCEPT ![Last(openOrders[t]).lot].closed = @ + 1]
    BY <1>1, <1>2, <1>5, <2>1 DEF NewPackagingOrder, Current
  <2>3. Last(openOrders[t]).lot = l
    BY <2>2, OneOpenOrder
  <2> QED BY <1>1, <2>2, <2>3, LotWritten DEF Passage, Rests, SameLot
<1>16. CASE FinishPackaging(u, t, v)
  <2>1. /\ tank'[t].state = "VACIO" /\ Active(t)' = NoLot /\ tank[t].state = "ENVASANDO"
        /\ lot' = [lot EXCEPT ![Last(openOrders[t]).lot].closed = @ + 1, ![l].finished = TRUE]
        /\ l \in Lots /\ samples' = samples /\ decisions' = decisions
    BY <1>1, <1>2, <1>4, <1>16 DEF FinishPackaging, Current, labVars
  <2>2. Last(openOrders[t]).lot = l
    BY <2>1, OneOpenOrder
  <2> QED BY <1>1, <2>1, <2>2, LotWritten DEF Passage, Leaves
<1>17. CASE FinishTransfer(u, t, v)
  <2>1. /\ tank'[t].state = "VACIO" /\ Active(t)' = NoLot /\ tank[t].state = "TRASVASANDO"
        /\ lot' = [lot EXCEPT ![Last(openTransfers[t])].closed = @ + 1, ![l].finished = TRUE]
        /\ l \in Lots /\ samples' = samples /\ decisions' = decisions
    BY <1>1, <1>2, <1>4, <1>17 DEF FinishTransfer, Current, labVars
  <2>2. Last(openTransfers[t]) = l
    BY <2>1, TransferLot
  <2> QED BY <1>1, <2>1, <2>2, LotWritten DEF Passage, Leaves
<1> QED BY <1>6, <1>7, <1>8, <1>9, <1>10, <1>11, <1>12, <1>13, <1>14, <1>15,
           <1>16, <1>17 DEF TankOperation

-----------------------------------------------------------------------------
(* Lots that ended. *)

\* Orders of a lot are closed while its tank is being packaged, or with the lot.
OpenLotsCounted ==
  \A l \in Lots : lot[l].closed # 0 /\ ~lot[l].finished =>
    lot[l].tank # NoTank /\ tank[lot[l].tank].state = "ENVASANDO"

LEMMA HeldWhere ==
  ASSUME RowsInv, NEW l \in Lots, ~lot[l].finished, lot[l].tank # NoTank
  PROVE  lot[l].tank \in Tanks /\ Active(lot[l].tank) = l
<1>1. lot[l].tank \in Tanks
  BY DEF RowsInv, PlantTypeOK, LotRows
<1> QED BY <1>1, TankFacts DEF LotMatchesState

LEMMA CountStep ==
  ASSUME RowsInv, OpenLotsCounted, NEW u \in Users, NEW t \in Tanks, NEW v,
         TankOperation(u, t, v)
  PROVE  OpenLotsCounted'
<1>1. Passage(t)
  BY OperationPasses
<1>2. PICK m : LocalTo(t, m)
  BY OperationIsLocal
<1> SUFFICES ASSUME NEW l \in Lots, lot'[l].closed # 0, ~lot'[l].finished
             PROVE  lot'[l].tank # NoTank /\ tank'[lot'[l].tank].state = "ENVASANDO"
  BY DEF OpenLotsCounted
\* A lot in another tank, or in none.
<1>3. CASE lot'[l] = lot[l] /\ Active(t) # l
  <2>1. lot[l].tank # NoTank /\ tank[lot[l].tank].state = "ENVASANDO"
    BY <1>3 DEF OpenLotsCounted
  <2>2. lot[l].tank \in Tanks /\ lot[l].tank # t
    BY <1>3, <2>1, HeldWhere
  <2>3. tank'[lot[l].tank] = tank[lot[l].tank]
    BY <1>2, <2>2 DEF LocalTo
  <2> QED BY <1>3, <2>1, <2>3
<1>4. CASE \E k \in Lots : Loads(t, k)
  <2>1. PICK k \in Lots : Loads(t, k)
    BY <1>4
  <2>2. Active(t) # l
    BY <2>1, TankFacts, LotIds DEF Loads, LotMatchesState
  <2>3. k = l => lot[l].closed # 0 /\ ~lot[l].finished /\ lot[l].tank = NoTank
    BY <2>1 DEF Loads
  <2>4. k # l
    BY <2>3 DEF OpenLotsCounted
  <2>5. lot'[l] = lot[l]
    BY <2>1, <2>4 DEF Loads, OnlyLot
  <2> QED BY <1>3, <2>2, <2>5
<1>5. CASE Rests(t)
  <2>1. Active(t) # l => lot'[l] = lot[l]
    BY <1>5 DEF Rests, SameLot, OnlyLot
  <2>2. ASSUME Active(t) = l
        PROVE  lot'[l].tank # NoTank /\ tank'[lot'[l].tank].state = "ENVASANDO"
    <3>1. lot'[l].tank = t /\ ~lot[l].finished /\ lot[l].tank = t
      BY <1>5, <2>2, TankFacts, LotIds DEF Rests, SameLot
    <3>2. tank[t].state = "ENVASANDO"
      BY <1>5, <2>2, <3>1 DEF Rests, OpenLotsCounted
    <3> QED BY <1>5, <3>1, <3>2, TankIds DEF Rests
  <2> QED BY <1>3, <2>1, <2>2
<1>6. CASE GoesOn(t)
  <2>1. Active(t) # l => lot'[l] = lot[l]
    BY <1>6 DEF GoesOn, SameLot, OnlyLot
  <2>2. Active(t) # l
    <3>1. Active(t) = l => tank[t].state = "ENVASANDO"
      BY <1>6, TankFacts, LotIds DEF GoesOn, SameLot, OpenLotsCounted
    <3> QED BY <1>6, <3>1 DEF GoesOn, LedOn
  <2> QED BY <1>3, <2>1, <2>2
<1>7. CASE Leaves(t)
  <2>1. Active(t) # l /\ lot'[l] = lot[l]
    BY <1>7 DEF Leaves, OnlyLot
  <2> QED BY <1>3, <2>1
<1>8. CASE OpensOrCloses(t)
  <2>1. Active(t) # l /\ lot'[l] = lot[l]
    BY <1>8, LotIds DEF OpensOrCloses
  <2> QED BY <1>3, <2>1
<1> QED BY <1>1, <1>4, <1>5, <1>6, <1>7, <1>8 DEF Passage

Accounted(l) ==
  /\ decisions[l] # << >> /\ Len(decisions[l]) = Len(samples[l])
  /\ IF lot[l].closed = 0
     THEN Last(decisions[l]).result = "RECHAZADO" /\ ~lot[l].specificWeight
     ELSE Last(decisions[l]).result = "APROBADO" /\ lot[l].specificWeight

\* The rows of a lot whose analysis is over, while it is in its tank.
LEMMA JudgedLot ==
  ASSUME RowsInv, NEW t \in Tanks, NEW l \in Lots, Active(t) = l,
         tank[t].state \notin {"FABRICANDO", "LABORATORIO"}
  PROVE  /\ samples[l] # << >> /\ decisions[l] # << >>
         /\ Len(decisions[l]) = Len(samples[l])
         /\ Last(samples[l]) = "RESOLVED"
         /\ Last(decisions[l]).result = IF Filling(t) THEN "APROBADO" ELSE tank[t].state
<1> DEFINE q == samples[l]
           ds == decisions[l]
<1>1. /\ LaboratoryMatchesState(t) /\ l # NoLot
      /\ q \in Seq(SampleStatuses) /\ ds \in Seq(DecisionRows)
  BY TankFacts, LotIds DEF PlantTypeOK
<1>2. /\ q # << >> /\ Len(ds) = Len(q)
      /\ \A i \in DOMAIN q : q[i] = "RESOLVED"
      /\ \A i \in DOMAIN ds : ~(i < Len(q)) =>
           ds[i].result = IF Filling(t) THEN "APROBADO" ELSE tank[t].state
  BY <1>1 DEF LaboratoryMatchesState
<1> HIDE DEF q, ds
<1>3. /\ Len(q) \in Nat \ {0} /\ DOMAIN q = 1 .. Len(q) /\ DOMAIN ds = 1 .. Len(ds)
  BY <1>1, <1>2, LenProperties, EmptySeq
<1>4. Len(q) \in DOMAIN q /\ Len(q) \in DOMAIN ds
  BY <1>2, <1>3
<1>5. ds # << >>
  BY <1>2, <1>3
<1>6. /\ Last(q) = "RESOLVED"
      /\ Last(ds).result = IF Filling(t) THEN "APROBADO" ELSE tank[t].state
  BY <1>2, <1>3, <1>4 DEF Last
<1> QED BY <1>2, <1>5, <1>6 DEF q, ds

LEMMA AccountedStep ==
  ASSUME RowsInv, OpenLotsCounted, FinishedLotsAccounted, NEW u \in Users,
         NEW t \in Tanks, NEW v, TankOperation(u, t, v)
  PROVE  FinishedLotsAccounted'
<1> SUFFICES ASSUME NEW l \in Lots, lot'[l].finished
             PROVE  Accounted(l)'
  BY DEF FinishedLotsAccounted, Accounted
<1>1. CASE lot[l].finished
  <2>1. Accounted(l)
    BY <1>1 DEF FinishedLotsAccounted, Accounted
  <2>3. PICK m : LocalTo(t, m)
    BY OperationIsLocal
  <2>4. l # m
    BY <1>1, <2>3, TankFacts, LotIds DEF LocalTo, RowsInv, FreshLots
  <2> QED BY <2>1, <2>3, <2>4 DEF LocalTo, Accounted
<1>2. CASE ~lot[l].finished
  <2>1. Leaves(t) /\ Active(t) = l
    BY <1>2, OperationPasses
       DEF Passage, Loads, Rests, GoesOn, SameLot, Leaves, OpensOrCloses, OnlyLot
  <2>2. /\ decisions[l] # << >> /\ Len(decisions[l]) = Len(samples[l])
        /\ Last(decisions[l]).result = IF Filling(t) THEN "APROBADO" ELSE tank[t].state
    BY <2>1, JudgedLot DEF Leaves
  <2>3. /\ lot[l].specificWeight <=> tank[t].state \in {"APROBADO", "ENVASANDO", "TRASVASANDO"}
        /\ lot[l].closed \in Nat
    BY <2>1, TankFacts, LotIds DEF FinalOperationMatchesState, PlantTypeOK, LotRows
  <2>4. samples' = samples /\ decisions' = decisions
    BY <2>1 DEF Leaves
  <2>5. CASE tank[t].state = "RECHAZADO" /\ lot'[l].closed = lot[l].closed
    <3>1. lot[l].closed = 0
      BY <1>2, <2>1, <2>5, TankFacts, LotIds DEF OpenLotsCounted
    <3> QED BY <2>1, <2>2, <2>3, <2>4, <2>5, <3>1 DEF Accounted, Filling, Leaves
  <2>6. CASE /\ tank[t].state \in {"ENVASANDO", "TRASVASANDO"}
             /\ lot'[l].closed = lot[l].closed + 1
    <3>1. lot'[l].closed # 0
      BY <2>3, <2>6
    <3> QED BY <2>1, <2>2, <2>3, <2>4, <2>6, <3>1 DEF Accounted, Filling, Leaves
  <2> QED BY <2>1, <2>5, <2>6 DEF Leaves
<1> QED BY <1>1, <1>2

LotsInv == PlantInv /\ OpenLotsCounted

LEMMA LotsStart == Init => OpenLotsCounted /\ FinishedLotsAccounted
BY DEF Init, OpenLotsCounted, FinishedLotsAccounted, NoLotRow

LEMMA LotsStep == PlantInv /\ OpenLotsCounted /\ [Next]_vars => OpenLotsCounted'
<1> SUFFICES ASSUME PlantInv, OpenLotsCounted, [Next]_vars PROVE OpenLotsCounted'
  OBVIOUS
<1>1. ASSUME NEW u \in Users, NEW t \in Tanks, NEW v, TankOperation(u, t, v)
      PROVE  OpenLotsCounted'
  BY <1>1, CountStep DEF PlantInv
<1>2. CASE UNCHANGED plantVars
  BY <1>2 DEF plantVars, OpenLotsCounted
<1> QED BY <1>1, <1>2 DEF Next, Planning, vars

LEMMA LotsInvariant == Spec => []LotsInv
<1> QED BY LotsStart, LotsStep, PlantInvariant, PTL DEF Spec, LotsInv

\* Every lot that ended was judged in its last analysis: rejected and thrown
\* away, or approved and closed by an order or a transfer, whatever happened in
\* the other tanks and however often it was adjusted (plant.service.ts:1687-1748,
\* 1788-1854).
THEOREM EndedLotsAreAccounted == Spec => []FinishedLotsAccounted
<1>1. LotsInv /\ FinishedLotsAccounted /\ [Next]_vars => FinishedLotsAccounted'
  <2> SUFFICES ASSUME LotsInv, FinishedLotsAccounted, [Next]_vars
               PROVE  FinishedLotsAccounted'
    OBVIOUS
  <2>1. ASSUME NEW u \in Users, NEW t \in Tanks, NEW v, TankOperation(u, t, v)
        PROVE  FinishedLotsAccounted'
    BY <2>1, AccountedStep DEF LotsInv, PlantInv
  <2>2. CASE UNCHANGED plantVars
    BY <2>2 DEF plantVars, FinishedLotsAccounted
  <2> QED BY <2>1, <2>2 DEF Next, Planning, vars
<1> QED BY <1>1, LotsStart, LotsInvariant, PTL DEF Spec

-----------------------------------------------------------------------------
(* The life of the lots. *)

\* The stage of a lot that is in a tank of this state.
StageIn(s) ==
  CASE s \in {"FABRICANDO", "AJUSTE"} -> "MAKING"
    [] s = "LABORATORIO" -> "ANALYSED"
    [] s = "RECHAZADO" -> "REJECTED"
    [] s = "APROBADO" -> "APPROVED"
    [] OTHER -> "LEAVING"

StageSeen(l) ==
  Stage(l) = IF lot[l].tank = NoTank THEN "NEW"
             ELSE IF lot[l].finished
                  THEN IF lot[l].closed = 0 THEN "DISCARDED" ELSE "SHIPPED"
             ELSE StageIn(tank[lot[l].tank].state)

LEMMA OpenFinal ==
  ASSUME RowsInv, NEW t \in Tanks, NEW l \in Lots, Active(t) = l, lot[l].tank = t
  PROVE  Dispatched(l) <=> Filling(t)
<1>1. FinalOperationMatchesState(t)
  BY TankFacts
<1>2. CASE tank[t].state = "ENVASANDO"
  <2>1. openOrders[t] \in Seq(OrderRows) /\ Len(openOrders[t]) = 1 /\ openOrders[t][1].lot = l
    BY <1>1, <1>2, TankFacts DEF FinalOperationMatchesState, PlantTypeOK
  <2>2. 1 \in DOMAIN openOrders[t]
    BY <2>1
  <2> QED BY <1>2, <2>1, <2>2 DEF Dispatched, Filling
<1>3. CASE tank[t].state = "TRASVASANDO"
  <2>1. openTransfers[t] = <<l>>
    BY <1>1, <1>3 DEF FinalOperationMatchesState
  <2>2. 1 \in DOMAIN openTransfers[t] /\ openTransfers[t][1] = l
    BY <2>1
  <2> QED BY <1>3, <2>2 DEF Dispatched, Filling
<1>4. CASE ~Filling(t)
  <2>1. openOrders[t] = << >> /\ openTransfers[t] = << >>
    BY <1>1, <1>4 DEF FinalOperationMatchesState, Filling
  <2>2. DOMAIN openOrders[t] = {} /\ DOMAIN openTransfers[t] = {}
    BY <2>1
  <2> QED BY <1>4, <2>2 DEF Dispatched
<1> QED BY <1>2, <1>3, <1>4 DEF Filling

\* The stage computed from the rows of a lot is that of the state of its tank.
LEMMA StageOfLot ==
  ASSUME RowsInv, NEW l \in Lots
  PROVE  StageSeen(l)
<1> DEFINE t == lot[l].tank
           q == samples[l]
<1> SUFFICES ASSUME t # NoTank, ~lot[l].finished
             PROVE  Stage(l) = StageIn(tank[t].state)
  BY DEF Stage, StageSeen
<1>1. t \in Tanks /\ Active(t) = l
  BY HeldWhere
<1>2. /\ LotMatchesState(t) /\ LaboratoryMatchesState(t) /\ tank[t] \in TankRows
      /\ l # NoLot /\ q \in Seq(SampleStatuses)
  BY <1>1, TankFacts, LotIds DEF PlantTypeOK
<1>3. tank[t].state \in TankStates \ {"VACIO", "FUERA_DE_SERVICIO"}
  BY <1>1, <1>2 DEF LotMatchesState, TankRows
<1>4. CASE tank[t].state = "FABRICANDO"
  <2>1. q = << >>
    BY <1>1, <1>2, <1>4 DEF LaboratoryMatchesState
  <2> QED BY <1>4, <2>1 DEF Stage, StageIn
<1>5. CASE tank[t].state = "LABORATORIO"
  <2>1. q # << >> /\ \A i \in DOMAIN q : q[i] = "RESOLVED" <=> i < Len(q)
    BY <1>1, <1>2, <1>5 DEF LaboratoryMatchesState
  <2> HIDE DEF q
  <2>2. Len(q) \in Nat /\ Len(q) \in DOMAIN q
    BY <1>2, <2>1, LenProperties, EmptySeq
  <2>3. Last(q) # "RESOLVED"
    BY <2>1, <2>2 DEF Last
  <2> QED BY <1>5, <2>1, <2>3 DEF Stage, StageIn, q
<1>6. CASE tank[t].state \notin {"FABRICANDO", "LABORATORIO"}
  <2>1. /\ q # << >> /\ Last(q) = "RESOLVED"
        /\ Last(decisions[l]).result = IF Filling(t) THEN "APROBADO" ELSE tank[t].state
    BY <1>1, <1>6, JudgedLot
  <2>2. Dispatched(l) <=> Filling(t)
    BY <1>1, OpenFinal
  <2>3. Stage(l) = JudgedStage(l)
    BY <2>1 DEF Stage
  <2>4. JudgedStage(l) = StageIn(tank[t].state)
    <3> HIDE DEF t
    <3>1. tank[t].state \in {"AJUSTE", "RECHAZADO", "APROBADO", "ENVASANDO", "TRASVASANDO"}
      BY <1>3, <1>6 DEF TankStates
    <3> QED BY <2>1, <2>2, <3>1 DEF JudgedStage, StageIn, Filling
  <2> QED BY <2>3, <2>4
<1> QED BY <1>4, <1>5, <1>6

StagesSeen == \A l \in Lots : StageSeen(l)

LEMMA StagesAreSeen == RowsInv => StagesSeen
BY StageOfLot DEF StagesSeen

\* One lot goes from one stage to another; the tanks keep their lots, or one
\* tank gets another.
Lives(k, from, to) ==
  /\ Stage(k) = from /\ Stage(k)' = to
  /\ \A l \in Lots \ {k} : Stage(l)' = Stage(l)

SameHolders == \A x \in Tanks : Active(x)' = Active(x)

Holder(t, l) ==
  Active(t)' = l /\ \A x \in Tanks \ {t} : Active(x)' = Active(x)

LEMMA LifeIsBatch ==
  ASSUME NEW k \in Lots, NEW t \in Tanks
  PROVE  /\ Lives(k, "MAKING", "ANALYSED") /\ SameHolders => Batch!Next
         /\ \A v \in {"MAKING", "APPROVED", "REJECTED"} :
              Lives(k, "ANALYSED", v) /\ SameHolders => Batch!Next
         /\ Lives(k, "APPROVED", "LEAVING") /\ SameHolders => Batch!Next
         /\ Lives(k, "NEW", "MAKING") /\ Active(t) = NoLot /\ Holder(t, k) => Batch!Next
         /\ /\ Lives(k, "LEAVING", "SHIPPED") \/ Lives(k, "REJECTED", "DISCARDED")
            /\ Active(t) = k /\ Holder(t, NoLot)
            => Batch!Next
<1> DEFINE st == [l \in Lots |-> Stage(l)]
           hd == [x \in Tanks |-> tank[x].activeLot]
<1>1. ASSUME NEW from, NEW to, Lives(k, from, to)
      PROVE  st[k] = from /\ st' = [st EXCEPT ![k] = to]
  BY <1>1 DEF Lives
<1>2. SameHolders => hd' = hd
  BY DEF SameHolders, Active
<1>3. \A l : Holder(t, l) => hd' = [hd EXCEPT ![t] = l]
  BY DEF Holder, Active
<1>4. hd[t] = Active(t)
  BY DEF Active
<1> HIDE DEF st, hd
<1>5. Lives(k, "MAKING", "ANALYSED") /\ SameHolders => Batch!Next
  BY <1>1, <1>2 DEF Batch!Next, Batch!Analyse, Batch!Advance, st, hd
<1>6. \A v \in {"MAKING", "APPROVED", "REJECTED"} :
              Lives(k, "ANALYSED", v) /\ SameHolders => Batch!Next
  BY <1>1, <1>2 DEF Batch!Next, Batch!Judge, Batch!Advance, st, hd
<1>7. Lives(k, "APPROVED", "LEAVING") /\ SameHolders => Batch!Next
  BY <1>1, <1>2 DEF Batch!Next, Batch!Dispatch, Batch!Advance, st, hd
<1>8. Lives(k, "NEW", "MAKING") /\ Active(t) = NoLot /\ Holder(t, k) => Batch!Next
  BY <1>1, <1>3, <1>4 DEF Batch!Next, Batch!Charge, Batch!Advance, st, hd
<1>9. (/\ Lives(k, "LEAVING", "SHIPPED") \/ Lives(k, "REJECTED", "DISCARDED")
       /\ Active(t) = k /\ Holder(t, NoLot))
      => Batch!Next
  BY <1>1, <1>3, <1>4 DEF Batch!Next, Batch!Empty, Batch!Advance, st, hd
<1> QED BY <1>5, <1>6, <1>7, <1>8, <1>9

LEMMA NoLife ==
  ASSUME \A l \in Lots : Stage(l)' = Stage(l), SameHolders
  PROVE  LotStep
<1>1. [l \in Lots |-> Stage(l)]' = [l \in Lots |-> Stage(l)]
  OBVIOUS
<1>2. [t \in Tanks |-> tank[t].activeLot]' = [t \in Tanks |-> tank[t].activeLot]
  BY DEF SameHolders, Active
<1> QED BY <1>1, <1>2 DEF LotStep

LEMMA LotsLive ==
  ASSUME RowsInv, OpenLotsCounted, StagesSeen', NEW u \in Users,
         NEW t \in Tanks, NEW v, TankOperation(u, t, v)
  PROVE  LotStep
<1>1. Passage(t)
  BY OperationPasses
<1>2. PICK m : LocalTo(t, m)
  BY OperationIsLocal
<1>3. \A l \in Lots : StageSeen(l) /\ StageSeen(l)'
  BY StageOfLot DEF StagesSeen
<1>4. \A x \in Tanks \ {t} : tank'[x] = tank[x] /\ Active(x)' = Active(x)
  BY <1>2 DEF LocalTo, Active
<1>5. /\ Active(t) # NoLot => Active(t) \in Lots /\ lot[Active(t)].tank = t
                              /\ ~lot[Active(t)].finished
      /\ t # NoTank /\ NoLot \notin Lots
  BY TankFacts, TankIds, LotIds
\* The lots that are not in this tank.
<1>6. ASSUME NEW l \in Lots, l # Active(t), lot'[l] = lot[l]
      PROVE  Stage(l)' = Stage(l)
  <2>1. ~lot[l].finished /\ lot[l].tank # NoTank =>
          lot[l].tank \in Tanks /\ Active(lot[l].tank) = l
    BY HeldWhere
  <2>2. ~lot[l].finished /\ lot[l].tank # NoTank =>
          tank'[lot[l].tank] = tank[lot[l].tank]
    BY <1>4, <1>6, <2>1
  <2> QED BY <1>3, <1>6, <2>2 DEF StageSeen
<1>7. CASE \E k \in Lots : Loads(t, k)
  <2>1. PICK k \in Lots : Loads(t, k)
    BY <1>7
  <2>2. Active(t) = NoLot
    BY <2>1, TankFacts DEF Loads, LotMatchesState
  <2>3. \A l \in Lots \ {k} : Stage(l)' = Stage(l)
    BY <1>5, <1>6, <2>1, <2>2 DEF Loads, OnlyLot
  <2>4. ~lot[k].finished
    BY <2>1 DEF Loads, RowsInv, FreshLots
  <2>5. Stage(k) = "NEW" /\ Stage(k)' = "MAKING"
    BY <1>3, <1>5, <2>1, <2>4 DEF Loads, StageSeen, StageIn
  <2>6. Lives(k, "NEW", "MAKING") /\ Holder(t, k)
    BY <1>4, <2>1, <2>3, <2>5 DEF Lives, Holder, Loads
  <2> QED BY <2>2, <2>6, LifeIsBatch DEF LotStep
<1>8. ASSUME NEW k \in Lots, k = Active(t), SameLot(t)
      PROVE  /\ Lives(k, StageIn(tank[t].state), StageIn(tank'[t].state))
             /\ SameHolders
  <2>1. \A l \in Lots \ {k} : Stage(l)' = Stage(l)
    BY <1>6, <1>8 DEF SameLot, OnlyLot
  <2>2. lot'[k].tank = t /\ ~lot'[k].finished
    BY <1>5, <1>8 DEF SameLot
  <2>3. Stage(k) = StageIn(tank[t].state) /\ Stage(k)' = StageIn(tank'[t].state)
    BY <1>3, <1>5, <1>8, <2>2 DEF StageSeen
  <2> QED BY <1>4, <1>8, <2>1, <2>3 DEF SameHolders, SameLot, Lives
<1>9. CASE Rests(t)
  <2>1. PICK k \in Lots : k = Active(t)
    BY <1>9 DEF Rests, SameLot
  <2>2. Lives(k, StageIn(tank[t].state), StageIn(tank[t].state)) /\ SameHolders
    BY <1>8, <1>9, <2>1 DEF Rests
  <2> QED BY <2>2, NoLife DEF Lives
<1>10. CASE GoesOn(t)
  <2>1. PICK k \in Lots : k = Active(t)
    BY <1>10 DEF GoesOn, SameLot
  <2>2. /\ Lives(k, StageIn(tank[t].state), StageIn(tank'[t].state)) /\ SameHolders
        /\ LedOn(tank[t].state, tank'[t].state)
    BY <1>8, <1>10, <2>1 DEF GoesOn
  <2>3. CASE tank[t].state \in {"FABRICANDO", "AJUSTE"} /\ tank'[t].state = "LABORATORIO"
    <3>1. Lives(k, "MAKING", "ANALYSED")
      BY <2>2, <2>3 DEF StageIn
    <3> QED BY <2>2, <3>1, LifeIsBatch DEF LotStep
  <2>4. CASE tank[t].state = "LABORATORIO" /\ tank'[t].state \in Results
    <3>1. \E w \in {"MAKING", "APPROVED", "REJECTED"} : Lives(k, "ANALYSED", w)
      BY <2>2, <2>4 DEF StageIn, Results
    <3> QED BY <2>2, <3>1, LifeIsBatch DEF LotStep
  <2>5. CASE tank[t].state = "APROBADO" /\ tank'[t].state \in {"ENVASANDO", "TRASVASANDO"}
    <3>1. Lives(k, "APPROVED", "LEAVING")
      BY <2>2, <2>5 DEF StageIn
    <3> QED BY <2>2, <3>1, LifeIsBatch DEF LotStep
  <2> QED BY <2>2, <2>3, <2>4, <2>5 DEF LedOn
<1>11. CASE Leaves(t)
  <2>1. PICK k \in Lots : k = Active(t)
    BY <1>11 DEF Leaves
  <2>2. Holder(t, NoLot)
    BY <1>4, <1>11 DEF Leaves, Holder
  <2>3. \A l \in Lots \ {k} : Stage(l)' = Stage(l)
    BY <1>6, <1>11, <2>1 DEF Leaves, OnlyLot
  <2>4. Stage(k) = StageIn(tank[t].state)
    BY <1>3, <1>5, <2>1 DEF StageSeen
  <2>5. lot'[k].tank = t /\ lot'[k].finished
    BY <1>5, <1>11, <2>1 DEF Leaves
  <2>6. Stage(k)' = IF lot'[k].closed = 0 THEN "DISCARDED" ELSE "SHIPPED"
    BY <1>3, <1>5, <2>5 DEF StageSeen
  <2>7. lot[k].closed \in Nat
    BY TankFacts DEF PlantTypeOK, LotRows
  <2>8. CASE tank[t].state = "RECHAZADO" /\ lot'[k].closed = lot[k].closed
    <3>1. lot[k].closed = 0
      BY <1>5, <2>1, <2>8 DEF OpenLotsCounted
    <3>2. Lives(k, "REJECTED", "DISCARDED")
      BY <2>3, <2>4, <2>6, <2>8, <3>1 DEF Lives, StageIn
    <3> QED BY <2>1, <2>2, <3>2, LifeIsBatch DEF LotStep
  <2>9. CASE /\ tank[t].state \in {"ENVASANDO", "TRASVASANDO"}
             /\ lot'[k].closed = lot[k].closed + 1
    <3>1. lot'[k].closed # 0
      BY <2>7, <2>9
    <3>2. Lives(k, "LEAVING", "SHIPPED")
      BY <2>3, <2>4, <2>6, <2>9, <3>1 DEF Lives, StageIn
    <3> QED BY <2>1, <2>2, <3>2, LifeIsBatch DEF LotStep
  <2> QED BY <1>11, <2>1, <2>8, <2>9 DEF Leaves
<1>12. CASE OpensOrCloses(t)
  <2>1. \A l \in Lots : Stage(l)' = Stage(l)
    BY <1>5, <1>6, <1>12 DEF OpensOrCloses
  <2>2. SameHolders
    BY <1>4, <1>12 DEF OpensOrCloses, SameHolders
  <2> QED BY <2>1, <2>2, NoLife
<1> QED BY <1>1, <1>7, <1>9, <1>10, <1>11, <1>12 DEF Passage

\* Seen from the lots, every operation is a step of BatchLife or none, so each
\* lot is charged once, shipped or discarded once, and shipped only after an
\* approval, for any tanks and lots at work together (plant.service.ts:1078-1896).
THEOREM LotsLiveTheirLife == Spec => LotsLiveOnce
<1>1. Init => Batch!Init
  BY DEF Init, Batch!Init, Stage, NoLotRow
<1>2. LotsInv /\ StagesSeen' /\ [Next]_vars =>
        [Batch!Next]_<<[l \in Lots |-> Stage(l)], [t \in Tanks |-> tank[t].activeLot]>>
  <2> SUFFICES ASSUME LotsInv, StagesSeen', [Next]_vars
               PROVE  LotStep
    BY DEF LotStep
  <2>1. ASSUME NEW u \in Users, NEW t \in Tanks, NEW v, TankOperation(u, t, v)
        PROVE  LotStep
    BY <2>1, LotsLive DEF LotsInv, PlantInv
  <2>2. CASE UNCHANGED plantVars
    <3>1. \A l \in Lots : Stage(l)' = Stage(l)
      BY <2>2 DEF plantVars, Stage, JudgedStage, Dispatched
    <3>2. SameHolders
      BY <2>2 DEF plantVars, SameHolders, Active
    <3> QED BY <3>1, <3>2, NoLife
  <2> QED BY <2>1, <2>2 DEF Next, Planning, vars
<1>3. LotsInv => StagesSeen
  BY StagesAreSeen DEF LotsInv, PlantInv
<1> QED BY <1>1, <1>2, <1>3, LotsInvariant, PTL DEF Spec, LotsLiveOnce, Batch!Spec

-----------------------------------------------------------------------------
(* The operators' screens. *)

\* An operation is accepted for the present version of its tank only.
LEMMA AcceptedVersion ==
  ASSUME PlantTypeOK, NEW u \in Users, NEW t \in Tanks, NEW v, TankOperation(u, t, v)
  PROVE  v = tank[t].version /\ v \in 0 .. MaxVersion
<1>1. \A s : Current(t, v, s) => v = tank[t].version /\ v \in 0 .. MaxVersion
  BY VersionBound DEF Current, PlantTypeOK, TankRows
<1> QED BY <1>1 DEF TankOperation, Start, SendToLab, EmptyRejected, ServiceOut, ServiceIn,
     CorrectLot, ReceiveLaboratorySample, StartLaboratoryAnalysis, Quality,
     CorrectQualityAdjustment, StartPackaging, NewPackagingOrder, CorrectPackaging,
     FinishPackaging, StartTransfer, FinishTransfer

ViewParts == Included \cup {"row"}

LEMMA ViewIsParts ==
  ASSUME NEW t \in Tanks
  PROVE  /\ View(t) = [part \in ViewParts |-> View(t)[part]]
         /\ View(t).row = tank[t]
BY DEF View, ViewOf, ViewParts, Included

\* What a poll has read so far of tank t: rows that may be old; if they are not,
\* whatever was read with them is the present too.
ReadTruly(p, t) ==
  /\ p = [part \in ViewParts |-> p[part]]
  /\ p.row \in TankRows
  /\ p.row.version <= tank[t].version
  /\ p.row.version = tank[t].version =>
       /\ p.row = tank[t]
       /\ \A part \in Included : p[part] # Unread => p[part] = View(t)[part]

TrueView(view, t) == view.row \in TankRows /\ Faithful(view, t)

PollsTrue == \A u \in Users : poll[u] # Unread => \A t \in Tanks : ReadTruly(poll[u][t], t)

ScreensTrue ==
  \A u \in Users, t \in Tanks : screen[u][t] # Unread => TrueView(screen[u][t], t)

DialogsTrue ==
  \A u \in Users : selection[u] # Unread =>
    selection[u].tank \in Tanks /\ TrueView(selection[u].view, selection[u].tank)

ScreenFunctions ==
  /\ DOMAIN poll = Users /\ DOMAIN screen = Users /\ DOMAIN selection = Users

ScreensInv ==
  PlantInv /\ ScreenFunctions /\ PollsTrue /\ ScreensTrue /\ DialogsTrue

\* What was true of a tank stays true of it: a change of what it shows gives it
\* a version no poll, screen or dialog has.
LEMMA TruthKept ==
  ASSUME RowsInv, RowsInv', [Next]_vars, NEW t \in Tanks
  PROVE  /\ \A p : ReadTruly(p, t) => ReadTruly(p, t)'
         /\ \A view : TrueView(view, t) => TrueView(view, t)'
<1>1. /\ tank[t] \in TankRows /\ tank'[t] \in TankRows
      /\ tank[t].version \in Nat /\ tank'[t].version \in Nat
  BY DEF RowsInv, PlantTypeOK, TankRows
<1>2. \A r \in TankRows : r.version \in Nat
  BY DEF TankRows
<1>3. CASE View(t)' = View(t)
  <2>1. tank'[t] = tank[t]
    <3>1. View(t)' .row = tank'[t]
      BY DEF View, ViewOf
    <3> QED BY <1>3, <3>1, ViewIsParts
  <2> QED BY <1>3, <2>1 DEF ReadTruly, TrueView, Faithful
<1>4. CASE View(t)' # View(t)
  <2>1. tank'[t].version > tank[t].version
    BY <1>4, VersionStep
  <2>2. ASSUME NEW r \in TankRows, r.version <= tank[t].version
        PROVE  r.version <= tank'[t].version /\ r.version # tank'[t].version
    BY <1>1, <1>2, <2>1, <2>2
  <2> QED BY <2>2 DEF ReadTruly, TrueView, Faithful
<1> QED BY <1>3, <1>4

LEMMA RowsRead ==
  ASSUME RowsInv, NEW t \in Tanks
  PROVE  ReadTruly([part \in ViewParts |-> IF part = "row" THEN tank[t] ELSE Unread], t)
<1> DEFINE p == [part \in ViewParts |-> IF part = "row" THEN tank[t] ELSE Unread]
<1>1. p.row = tank[t] /\ p = [part \in ViewParts |-> p[part]]
  BY DEF ViewParts
<1>2. \A part \in Included : p[part] = Unread
  BY DEF ViewParts, Included
<1>3. tank[t] \in TankRows /\ tank[t].version \in Nat
  BY TankFacts DEF TankRows
<1> HIDE DEF p
<1>4. ReadTruly(p, t)
  BY <1>1, <1>2, <1>3 DEF ReadTruly
<1> QED BY <1>4 DEF p

LEMMA PartRead ==
  ASSUME NEW t \in Tanks, NEW p, ReadTruly(p, t), NEW part \in Included
  PROVE  ReadTruly([p EXCEPT ![part] = ViewOf(p.row, t)[part]], t)
<1> DEFINE x == ViewOf(p.row, t)[part]
           r == [p EXCEPT ![part] = x]
<1>1. p = [q \in ViewParts |-> p[q]] /\ part \in ViewParts /\ part # "row"
      /\ "row" \in ViewParts
  BY DEF ReadTruly, ViewParts, Included
<1>2. p.row = tank[t] => x = View(t)[part]
  BY DEF View
<1> HIDE DEF x
<1>3. /\ r = [q \in ViewParts |-> r[q]] /\ r.row = p.row /\ r[part] = x
      /\ \A q \in ViewParts \ {part} : r[q] = p[q]
  BY <1>1
<1> HIDE DEF r
<1>4. ReadTruly(r, t)
  BY <1>2, <1>3 DEF ReadTruly, ViewParts
<1> QED BY <1>4 DEF r, x

\* A poll that has read everything is a true view.
LEMMA AnswerIsTrue ==
  ASSUME NEW t \in Tanks, NEW p, ReadTruly(p, t), \A part \in Included : p[part] # Unread
  PROVE  TrueView(p, t)
<1>1. CASE p.row.version = tank[t].version
  <2>1. p.row = View(t).row
    BY <1>1, ViewIsParts DEF ReadTruly
  <2>2. \A part \in ViewParts : p[part] = View(t)[part]
    BY <1>1, <2>1 DEF ReadTruly, ViewParts
  <2>3. p = View(t)
    BY <2>2, ViewIsParts DEF ReadTruly
  <2> QED BY <2>3 DEF ReadTruly, TrueView, Faithful
<1> QED BY <1>1 DEF ReadTruly, TrueView, Faithful

\* The plant under the screens is the plant.
LEMMA ScreensStepIsStep ==
  ASSUME PlantTypeOK, DialogsTrue, [ScreensNext]_allVars
  PROVE  [Next]_vars
<1>1. ASSUME NEW u \in Users, Submit(u)
      PROVE  Next
  <2>1. selection[u].tank \in Tanks
    BY <1>1 DEF Submit, DialogsTrue
  <2>2. TankOperation(u, selection[u].tank, selection[u].view.row.version)
    BY <1>1 DEF Submit
  <2>3. selection[u].view.row.version \in 0 .. MaxVersion
    BY <2>1, <2>2, AcceptedVersion
  <2> QED BY <2>1, <2>2, <2>3 DEF Next
<1> QED BY <1>1 DEF ScreensNext, Next, allVars, PollTanks, PollIncluded, PollAnswered, PollLost,
     OpenDialog, CloseDialog

LEMMA ScreensStep ==
  ASSUME ScreensInv, PlantInv', [ScreensNext]_allVars
  PROVE  ScreensInv'
<1>1. /\ ScreenFunctions /\ PollsTrue /\ ScreensTrue /\ DialogsTrue
      /\ RowsInv /\ RowsInv' /\ PlantTypeOK
  BY DEF ScreensInv, PlantInv, RowsInv
<1>2. [Next]_vars
  BY <1>1, ScreensStepIsStep
<1>3. /\ \A t \in Tanks : \A p : ReadTruly(p, t) => ReadTruly(p, t)'
      /\ \A t \in Tanks : \A view : TrueView(view, t) => TrueView(view, t)'
  BY <1>1, <1>2, TruthKept
\* The variables of the screens a step leaves alone stay true.
<1>4. UNCHANGED poll => PollsTrue'
  BY <1>1, <1>3 DEF PollsTrue
<1>5. UNCHANGED screen => ScreensTrue'
  BY <1>1, <1>3 DEF ScreensTrue
<1>6. UNCHANGED selection => DialogsTrue'
  BY <1>1, <1>3 DEF DialogsTrue
<1>7. ASSUME NEW u \in Users, NEW p, poll' = [poll EXCEPT ![u] = p],
             p # Unread => \A t \in Tanks : ReadTruly(p[t], t)
      PROVE  PollsTrue' /\ DOMAIN poll' = Users
  <2>1. DOMAIN poll' = Users /\ poll'[u] = p /\ \A w \in Users \ {u} : poll'[w] = poll[w]
    BY <1>1, <1>7 DEF ScreenFunctions
  <2> QED BY <1>1, <1>3, <1>7, <2>1 DEF PollsTrue
<1>8. ASSUME NEW u \in Users, NEW s, selection' = [selection EXCEPT ![u] = s],
             s # Unread => s.tank \in Tanks /\ TrueView(s.view, s.tank)
      PROVE  DialogsTrue' /\ DOMAIN selection' = Users
  <2>1. /\ DOMAIN selection' = Users /\ selection'[u] = s
        /\ \A w \in Users \ {u} : selection'[w] = selection[w]
    BY <1>1, <1>8 DEF ScreenFunctions
  <2>2. s # Unread => s.tank \in Tanks /\ TrueView(s.view, s.tank)'
    BY <1>3, <1>8
  <2>3. ASSUME NEW w \in Users \ {u}, selection[w] # Unread
        PROVE  /\ selection[w].tank \in Tanks
               /\ TrueView(selection[w].view, selection[w].tank)
    BY <1>1, <2>3 DEF DialogsTrue
  <2> QED BY <1>3, <2>1, <2>2, <2>3 DEF DialogsTrue
<1>9. PollsTrue' /\ ScreensTrue' /\ DialogsTrue' /\ ScreenFunctions'
  <2>1. CASE \E u \in Users : PollTanks(u)
    <3>1. PICK u \in Users : PollTanks(u)
      BY <2>1
    <3> DEFINE p == [t \in Tanks |->
                      [part \in ViewParts |-> IF part = "row" THEN tank[t] ELSE Unread]]
    <3>2. poll' = [poll EXCEPT ![u] = p] /\ UNCHANGED <<screen, selection>>
      BY <3>1 DEF PollTanks, ViewParts
    <3>3. \A t \in Tanks : ReadTruly(p[t], t)
      BY <1>1, RowsRead
    <3> HIDE DEF p
    <3> QED BY <1>1, <1>5, <1>6, <1>7, <3>2, <3>3 DEF ScreenFunctions
  <2>2. CASE \E u \in Users, i \in DOMAIN ReadOrder : PollIncluded(u, i)
    <3>1. PICK u \in Users, i \in DOMAIN ReadOrder : PollIncluded(u, i)
      BY <2>2
    <3> DEFINE part == ReadOrder[i]
               p == [t \in Tanks |->
                      [poll[u][t] EXCEPT ![part] = ViewOf(poll[u][t].row, t)[part]]]
    <3>2. poll' = [poll EXCEPT ![u] = p] /\ UNCHANGED <<screen, selection>>
      BY <3>1 DEF PollIncluded
    <3>3. part \in Included
      BY ReadOrderComplete
    <3>4. \A t \in Tanks : ReadTruly(poll[u][t], t)
      BY <1>1, <3>1 DEF PollIncluded, PollsTrue
    <3> HIDE DEF part
    <3>5. \A t \in Tanks : ReadTruly(p[t], t)
      BY <3>3, <3>4, PartRead
    <3> HIDE DEF p
    <3> QED BY <1>1, <1>5, <1>6, <1>7, <3>2, <3>5 DEF ScreenFunctions
  <2>3. CASE \E u \in Users : PollAnswered(u)
    <3>1. PICK u \in Users : PollAnswered(u)
      BY <2>3
    <3> PICK a : a = poll[u]
      OBVIOUS
    <3>2. \A t \in Tanks : TrueView(a[t], t)'
      <4>1. \A t \in Tanks : TrueView(a[t], t)
        BY <1>1, <3>1, AnswerIsTrue DEF PollAnswered, AllRead, PollsTrue
      <4> QED BY <1>3, <4>1
    <3>3. /\ DOMAIN screen' = Users /\ screen'[u] = a
          /\ \A w \in Users \ {u} : screen'[w] = screen[w]
      BY <1>1, <3>1 DEF PollAnswered, ScreenFunctions
    <3>4. ScreensTrue'
      BY <1>1, <1>3, <3>2, <3>3 DEF ScreensTrue
    <3>5. poll' = [poll EXCEPT ![u] = Unread] /\ UNCHANGED selection
      BY <3>1 DEF PollAnswered
    <3> QED BY <1>1, <1>6, <1>7, <3>3, <3>4, <3>5 DEF ScreenFunctions
  <2>4. CASE \E u \in Users : PollLost(u)
    <3>1. PICK u \in Users : PollLost(u)
      BY <2>4
    <3>2. poll' = [poll EXCEPT ![u] = Unread] /\ UNCHANGED <<screen, selection>>
      BY <3>1 DEF PollLost
    <3> QED BY <1>1, <1>5, <1>6, <1>7, <3>2 DEF ScreenFunctions
  <2>5. CASE \E u \in Users, t \in Tanks : OpenDialog(u, t)
    <3>1. PICK u \in Users, t \in Tanks : OpenDialog(u, t)
      BY <2>5
    <3> DEFINE s == [tank |-> t, view |-> screen[u][t]]
    <3>2. selection' = [selection EXCEPT ![u] = s] /\ UNCHANGED <<poll, screen>>
      BY <3>1 DEF OpenDialog
    <3>3. s.tank \in Tanks /\ TrueView(s.view, s.tank)
      BY <1>1, <3>1 DEF OpenDialog, ScreensTrue
    <3> HIDE DEF s
    <3> QED BY <1>1, <1>4, <1>5, <1>8, <3>2, <3>3 DEF ScreenFunctions
  <2>6. CASE \E u \in Users : CloseDialog(u)
    <3>1. PICK u \in Users : CloseDialog(u)
      BY <2>6
    <3>2. selection' = [selection EXCEPT ![u] = Unread] /\ UNCHANGED <<poll, screen>>
      BY <3>1 DEF CloseDialog
    <3> QED BY <1>1, <1>4, <1>5, <1>8, <3>2 DEF ScreenFunctions
  <2>7. CASE \E u \in Users : Submit(u)
    <3>1. PICK u \in Users : Submit(u)
      BY <2>7
    <3>2. /\ selection' = [selection EXCEPT ![u] = Unread]
          /\ poll' = [poll EXCEPT ![u] = Unread] /\ UNCHANGED screen
      BY <3>1 DEF Submit
    <3> QED BY <1>1, <1>5, <1>7, <1>8, <3>2 DEF ScreenFunctions
  <2>8. CASE UNCHANGED screenVars
    BY <1>1, <1>4, <1>5, <1>6, <2>8 DEF screenVars, ScreenFunctions
  <2> QED BY <2>1, <2>2, <2>3, <2>4, <2>5, <2>6, <2>7, <2>8 DEF ScreensNext, allVars
<1> QED BY <1>9 DEF ScreensInv

LEMMA ScreensStart == ScreensInit => Init /\ ScreenFunctions /\ PollsTrue /\ ScreensTrue /\ DialogsTrue
BY DEF ScreensInit, ScreenFunctions, PollsTrue, ScreensTrue, DialogsTrue

LEMMA ScreensInvariant == ScreensSpec => []ScreensInv
<1>1. ScreensInit => ScreensInv
  BY ScreensStart, PlantStart DEF ScreensInv
<1>2. ScreensInv /\ [ScreensNext]_allVars => PlantInv'
  <2> SUFFICES ASSUME ScreensInv, [ScreensNext]_allVars PROVE PlantInv'
    OBVIOUS
  <2>1. [Next]_vars
    BY ScreensStepIsStep DEF ScreensInv, PlantInv, RowsInv
  <2> QED BY <2>1, PlantStep DEF ScreensInv
<1>3. ScreensInv /\ PlantInv' /\ [ScreensNext]_allVars => ScreensInv'
  BY ScreensStep
<1> QED BY <1>1, <1>2, <1>3, PTL DEF ScreensSpec

\* The screens only watch and send requests: whatever is proved of the plant
\* holds with any number of operators, polls and dialogs in front of it
\* (PlantBoardPage.tsx calls the routes of plant.controller.ts, nothing else).
THEOREM ScreensRunThePlant == ScreensSpec => Spec
<1>1. ScreensInit => Init
  BY ScreensStart
<1>2. ScreensInv /\ [ScreensNext]_allVars => [Next]_vars
  BY ScreensStepIsStep DEF ScreensInv, PlantInv, RowsInv
<1> QED BY <1>1, <1>2, ScreensInvariant, PTL DEF ScreensSpec, Spec

\* No screen and no dialog shows the current version of a tank with anything
\* that is not current, in whatever order the tables of a poll are read and
\* whatever is written between two of them (plant.service.ts:765-783).
THEOREM ScreensShowNoMixture == ScreensSpec => []ScreensFaithful
<1>1. ScreensInv => ScreensFaithful
  BY DEF ScreensInv, ScreensTrue, DialogsTrue, TrueView, ScreensFaithful
<1> QED BY <1>1, ScreensInvariant, PTL

\* A tank changes only by the request of a dialog that shows it as it is, so no
\* operator overwrites what he or she has not seen (assertTank,
\* plant.service.ts:2620-2631).
THEOREM NoBlindOverwrite == ScreensSpec => DecidedOnThePresent
<1>1. ScreensInv /\ [ScreensNext]_allVars =>
        [\A t \in Tanks : View(t)' # View(t) =>
           \E u \in Users : /\ selection[u] # Unread /\ selection'[u] = Unread
                            /\ selection[u].tank = t
                            /\ selection[u].view = View(t)]_allVars
  <2> SUFFICES ASSUME ScreensInv, ScreensNext, NEW t \in Tanks, View(t)' # View(t)
               PROVE  \E u \in Users : /\ selection[u] # Unread /\ selection'[u] = Unread
                                       /\ selection[u].tank = t
                                       /\ selection[u].view = View(t)
    OBVIOUS
  <2>1. UNCHANGED plantVars => View(t)' = View(t)
    BY DEF plantVars, View, ViewOf
  <2>2. PICK u \in Users : Submit(u)
    BY <2>1 DEF ScreensNext, Planning, vars, PollTanks, PollIncluded, PollAnswered,
         PollLost, OpenDialog, CloseDialog
  <2> DEFINE x == selection[u].tank
             view == selection[u].view
  <2>3. x \in Tanks /\ Faithful(view, x) /\ RowsInv /\ PlantTypeOK
    BY <2>2 DEF Submit, ScreensInv, DialogsTrue, TrueView, PlantInv, RowsInv
  <2>4. TankOperation(u, x, view.row.version)
    BY <2>2 DEF Submit
  <2>5. view.row.version = tank[x].version
    BY <2>3, <2>4, AcceptedVersion
  <2>6. x = t
    <3>1. PICK m : LocalTo(x, m)
      BY <2>3, <2>4, OperationIsLocal
    <3> QED BY <2>3, <3>1, ViewKept
  <2>7. selection[u] # Unread /\ selection'[u] = Unread
    BY <2>2 DEF Submit, ScreensInv, ScreenFunctions
  <2> QED BY <2>3, <2>5, <2>6, <2>7 DEF Faithful
<1> QED BY <1>1, ScreensInvariant, PTL DEF ScreensSpec, DecidedOnThePresent

=============================================================================
