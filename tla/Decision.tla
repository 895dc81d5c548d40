------------------------------ MODULE Decision ------------------------------
(***************************************************************************)
(* The zero-injection decision of decision.py: from one measurement to the *)
(* common power limit, in percent, to apply to the three DTU ports.        *)
(*                                                                         *)
(* Powers are whole watts; grid power is positive when importing.  The     *)
(* code divides floats: here a quotient stays a fraction num / den with    *)
(* den > 0 until it is rounded, so the rounding is exact.                  *)
(***************************************************************************)
EXTENDS Integers

CONSTANTS
  NominalPower,         (* installed_nominal_power_w                       *)
  Target,               (* target grid power, negative for export          *)
  Deadband,             (* error below which nothing is done               *)
  PredictiveThreshold,  (* error from which the limit jumps to its target  *)
  FineStep              (* largest fine correction, in percent             *)

ASSUME DecisionAssumption ==
  /\ NominalPower \in Nat \ {0}
  /\ Target \in Int
  /\ Deadband \in Nat
  /\ PredictiveThreshold \in Nat \ {0}
  /\ FineStep \in Nat \ {0}

MinimumLimit == 2
MaximumLimit == 100
Limits == MinimumLimit..MaximumLimit

Magnitude(n) == IF n >= 0 THEN n ELSE -n

(* num / den rounded to the nearest integer, halves away from zero.        *)
RoundAwayFromZero(num, den) ==
  IF num >= 0
    THEN (2 * num + den) \div (2 * den)
    ELSE -((2 * (-num) + den) \div (2 * den))

Clamp(value, low, high) ==
  LET capped == IF value < high THEN value ELSE high
  IN  IF capped > low THEN capped ELSE low

GridError(grid) == grid - Target

WithinDeadband(grid) == Magnitude(GridError(grid)) <= Deadband

(* calculate_power_limit outside the deadband: the wanted limit and the    *)
(* one applied, at most FineStep away from the current one.                *)
FineTarget(grid, current) ==
  Clamp(current + RoundAwayFromZero(GridError(grid) * 100, NominalPower),
        MinimumLimit, MaximumLimit)

FineLimit(grid, current) ==
  Clamp(current + Clamp(FineTarget(grid, current) - current, -FineStep, FineStep),
        MinimumLimit, MaximumLimit)

(* Mutant of PredictiveLimit: the error is corrected twice.                *)
OverPredictiveLimit(grid, pv) ==
  Clamp(RoundAwayFromZero((pv + grid + GridError(grid)) * 100, NominalPower),
        MinimumLimit, MaximumLimit)

(* The limit that makes production match the estimated load, pv + grid,    *)
(* less the target.                                                        *)
PredictiveLimit(grid, pv) ==
  Clamp(RoundAwayFromZero((pv + grid - Target) * 100, NominalPower),
        MinimumLimit, MaximumLimit)

(* calculate_predictive_power_limit: the limit it applies.                 *)
AppliedLimit(grid, pv, current) ==
  IF WithinDeadband(grid)
    THEN current
    ELSE IF Magnitude(GridError(grid)) >= PredictiveThreshold
      THEN PredictiveLimit(grid, pv)
      ELSE FineLimit(grid, current)

(* command_needed.                                                         *)
CommandNeeded(grid, pv, current) == AppliedLimit(grid, pv, current) # current

=============================================================================
