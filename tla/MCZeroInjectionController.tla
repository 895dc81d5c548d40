---------------------- MODULE MCZeroInjectionController ----------------------
(* Values for the instances of ZeroInjectionController: a 1000 W plant, so *)
(* that one percent is 10 W, and the default target, deadband, thresholds  *)
(* and fine step.  One time unit is one three-second tick: the default     *)
(* stabilization of 12 s is four units.                                    *)
EXTENDS ZeroInjectionController

MCTarget == -40
MCLoads == {300, 360, 700}
MCTwoLoads == {300, 360}
MCManualLimits == {50}
MCInitialLimits == {34}
HouseAndSensors == {"load", "telemetry", "config", "grid", "reference", "failure"}
UserAndSensors == {"grid", "reference", "failure", "mode", "manual"}
Failures == {"failure", "grid"}
Switches == {"mode"}
LoadOnly == {"load"}
==============================================================================
