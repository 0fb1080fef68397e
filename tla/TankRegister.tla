---------------------------- MODULE TankRegister ----------------------------
(***************************************************************************)
(* What the version of a tank promises to the operators.  A dialog is      *)
(* opened on a tank of some version; at most one of the dialogs opened on  *)
(* a version is carried out, and it gives the tank the next version.       *)
(***************************************************************************)
EXTENDS Integers

CONSTANTS
  Dialogs,    \* dialogs that operators may open on the tank
  NotOpened   \* version seen by a dialog not opened yet

ASSUME NotOpenedIsNoVersion == NotOpened \notin Nat

VARIABLES
  version,    \* Tank.version
  saw,        \* version of the tank the dialog was opened on
  carried     \* dialogs whose operation was carried out

registerVars == <<version, saw, carried>>

RegisterTypeOK ==
  /\ version \in Nat
  /\ saw \in [Dialogs -> Nat \cup {NotOpened}]
  /\ carried \in SUBSET Dialogs

RegisterInit ==
  /\ version = 0
  /\ saw = [d \in Dialogs |-> NotOpened]
  /\ carried = {}

-----------------------------------------------------------------------------
\* The screen may be older than the tank.
OpenOn(d, v) ==
  /\ saw[d] = NotOpened
  /\ v <= version
  /\ saw' = [saw EXCEPT ![d] = v]
  /\ UNCHANGED <<version, carried>>

CarryOut(d) ==
  /\ saw[d] = version
  /\ version' = version + 1
  /\ carried' = carried \cup {d}
  /\ UNCHANGED saw

RegisterNext == \E d \in Dialogs : CarryOut(d) \/ \E v \in 0 .. version : OpenOn(d, v)

RegisterSpec == RegisterInit /\ [][RegisterNext]_registerVars

-----------------------------------------------------------------------------
\* Of the dialogs opened on the same version of the tank at most one is carried
\* out, and a version once left is never carried out again: no operation is lost
\* under another and none is done twice (plant.service.ts:2625-2653).
OneWinner ==
  /\ \A d \in carried : saw[d] \in Nat /\ saw[d] < version
  /\ \A d, e \in carried : saw[d] = saw[e] => d = e
=============================================================================
