-------------------------- MODULE MCEnergyStrategy --------------------------
(***************************************************************************)
(* A battery that takes 400 W: its power is discharge, idle, charge with   *)
(* room, charge within the hysteresis band, or saturated.                  *)
(***************************************************************************)
EXTENDS EnergyStrategy

MCWatts == {-60, 0, 320, 400}
MCFailures == {"missing"}
MCCapacities == {400}
MCCharges == {50, 100}
MCModes == {"observed_conservative", "capacity_release"}
MCTarget == -40
MCGrids == {-150, 0}
=============================================================================
