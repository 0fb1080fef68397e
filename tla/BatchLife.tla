----------------------------- MODULE BatchLife -----------------------------
(***************************************************************************)
(* What the plant promises about a production lot, with no version, user,  *)
(* row or screen: a lot is charged into one free tank, stays there while   *)
(* it is made, analysed and adjusted, and leaves it once, either shipped   *)
(* after an approval or discarded after a rejection.                       *)
(***************************************************************************)
CONSTANTS Tanks, Lots, NoLot

VARIABLES
  stage,    \* where each lot is in its life
  holds     \* the lot in each tank, or NoLot

Stages == {"NEW", "MAKING", "ANALYSED", "APPROVED", "REJECTED", "LEAVING",
           "SHIPPED", "DISCARDED"}

Init ==
  /\ stage = [l \in Lots |-> "NEW"]
  /\ holds = [t \in Tanks |-> NoLot]

Advance(l, from, to) ==
  /\ stage[l] = from
  /\ stage' = [stage EXCEPT ![l] = to]

Charge(l, t) ==
  /\ holds[t] = NoLot
  /\ holds' = [holds EXCEPT ![t] = l]
  /\ Advance(l, "NEW", "MAKING")

Analyse(l) == Advance(l, "MAKING", "ANALYSED") /\ UNCHANGED holds

Judge(l) ==
  /\ \E verdict \in {"MAKING", "APPROVED", "REJECTED"} : Advance(l, "ANALYSED", verdict)
  /\ UNCHANGED holds

Dispatch(l) == Advance(l, "APPROVED", "LEAVING") /\ UNCHANGED holds

Empty(l, t) ==
  /\ holds[t] = l
  /\ holds' = [holds EXCEPT ![t] = NoLot]
  /\ Advance(l, "LEAVING", "SHIPPED") \/ Advance(l, "REJECTED", "DISCARDED")

Next ==
  \E l \in Lots :
    \/ Analyse(l) \/ Judge(l) \/ Dispatch(l)
    \/ \E t \in Tanks : Charge(l, t) \/ Empty(l, t)

Spec == Init /\ [][Next]_<<stage, holds>>
=============================================================================
