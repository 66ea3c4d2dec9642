--------------------------- MODULE MCDroneHistory ---------------------------
(* The instances of MCDrone, with the history variables. *)
EXTENDS MCDrone, DroneHistory
=============================================================================
