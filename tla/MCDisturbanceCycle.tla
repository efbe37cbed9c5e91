-------------------------- MODULE MCDisturbanceCycle --------------------------
(* An instance of DisturbanceCycle for TLC. *)
EXTENDS DisturbanceCycle, TLC

CONSTANTS d1, d2, areas, points  \* disturbances and layers

InTwoLayers == d1 :> areas @@ d2 :> points
=============================================================================
