--------------------------- MODULE MCPlantScreens ---------------------------
(* Two operators in front of one tank. *)
EXTENDS PlantScreens, MCPlant

MCReadOrder == <<"period", "lot", "order", "sample", "decision">>
=============================================================================
