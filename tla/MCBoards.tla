------------------------------- MODULE MCBoards -------------------------------
(***************************************************************************)
(* The two planning boards on their own, larger than the boards of MCPlant *)
(* are: lists long enough to move a card over others, and a queue that     *)
(* reaches its limit.  A behaviour is about one of them, "part" says       *)
(* which; the other stays empty.                                           *)
(***************************************************************************)
EXTENDS ManufacturingBoard, PackagingBoard, TLC

VARIABLE part

boardVars == <<part, card, packCard>>

BoardsInit == part \in {"manufacturing", "packaging"} /\ BoardInit /\ PackBoardInit

BoardsNext ==
  \/ part = "manufacturing" /\ BoardNext /\ UNCHANGED <<part, packCard>>
  \/ part = "packaging" /\ PackBoardNext /\ UNCHANGED <<part, card>>

BoardsSpec == BoardsInit /\ [][BoardsNext]_boardVars

TankSymmetry == Permutations(BoardTanks)
===============================================================================
