------------------------------- MODULE MCPlant -------------------------------
(***************************************************************************)
(* Instances of Plant for TLC: one user per sector (and an administrator   *)
(* and a system owner where they differ), tanks of a packaging plant (tk1, *)
(* tk3) and of the transfer plant (tk2), and small sets of lots, contents  *)
(* and cards.                                                              *)
(***************************************************************************)
EXTENDS Plant, TLC

CONSTANTS fab, lab, env, adm, own, tk1, tk2, tk3

MCRole == (fab :> "FABRICACION") @@ (lab :> "LABORATORIO") @@ (env :> "ENVASADO")
            @@ (adm :> "ADMIN") @@ (own :> "DUENO")
MCSystemOwners == {own}
MCCanTransfer == {env}
MCFinalOperation == [t \in Tanks |-> IF t = tk2 THEN "TRANSFER" ELSE "PACKAGING"]

RecordSymmetry == Permutations(Lots) \cup Permutations(Contents)
PlanSymmetry == RecordSymmetry \cup Permutations(Cards) \cup Permutations(PackCards)
                  \cup Permutations(BoardTanks)
=============================================================================
