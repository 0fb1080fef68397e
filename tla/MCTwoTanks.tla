------------------------------ MODULE MCTwoTanks ------------------------------
(***************************************************************************)
(* A tank of a packaging plant and one of the transfer plant worked on at  *)
(* once, both on the two boards.  LotsLiveOnce is the refinement stated in *)
(* PlantBatches.                                                           *)
(***************************************************************************)
EXTENDS MCPlant, PlantBatches

TanksSymmetry == Permutations(Lots) \cup Permutations(PackCards)
===============================================================================
