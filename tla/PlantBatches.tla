---------------------------- MODULE PlantBatches ----------------------------
(***************************************************************************)
(* Plant implements BatchLife.  The stage of a lot is computed from the    *)
(* rows that carry it (lot, samples, decisions, orders), not from the      *)
(* state column of its tank.                                               *)
(***************************************************************************)
EXTENDS Plant

\* The lot is being packaged or transferred in the tank it was started in.
Dispatched(l) ==
  LET t == lot[l].tank
  IN \/ \E i \in DOMAIN openOrders[t] : openOrders[t][i].lot = l
     \/ \E i \in DOMAIN openTransfers[t] : openTransfers[t][i] = l

\* The stage the newest decision puts the lot in.
JudgedStage(l) ==
  CASE Last(decisions[l]).result = "AJUSTE" -> "MAKING"
    [] Last(decisions[l]).result = "RECHAZADO" -> "REJECTED"
    [] OTHER -> IF Dispatched(l) THEN "LEAVING" ELSE "APPROVED"

Stage(l) ==
  IF lot[l].tank = NoTank THEN "NEW"
  ELSE IF lot[l].finished
       THEN IF lot[l].closed = 0 THEN "DISCARDED" ELSE "SHIPPED"
  ELSE IF samples[l] = << >> THEN "MAKING"
  ELSE IF Last(samples[l]) # "RESOLVED" THEN "ANALYSED"
  ELSE JudgedStage(l)

Batch == INSTANCE BatchLife WITH
  stage <- [l \in Lots |-> Stage(l)],
  holds <- [t \in Tanks |-> tank[t].activeLot]

\* A step of the life of some lot, or none.
LotStep == Batch!Next \/ UNCHANGED <<[l \in Lots |-> Stage(l)], [t \in Tanks |-> tank[t].activeLot]>>

\* Every step of the plant is, seen from the lots, a legal step of their life or
\* no step at all: no interleaving of operations on several tanks ships a lot
\* without an approval, ships or discards it twice, or puts two lots in a tank
\* (plant.service.ts:1078-1896).
LotsLiveOnce == Batch!Spec
=============================================================================
