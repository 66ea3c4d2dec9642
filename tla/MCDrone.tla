------------------------------- MODULE MCDrone -------------------------------
(* The drone in flight on small instances: three altitudes, two places and   *)
(* sensors that are a second apart.                                          *)
EXTENDS Drone

TranslateTo(p) == [type |-> "translate", goal |-> p]
LandNow        == [type |-> "land"]

\* The least program that is flown autonomously and ends.
MCFlyAndLand == { <<TranslateTo("a"), LandNow>> }

MCLand == { <<LandNow>> }

NoOutputYet == [fields |-> {}, setpoint |-> "none"]
=============================================================================
