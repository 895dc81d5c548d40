--------------------------- MODULE MCTemporaryLimits ---------------------------
(* The DTU's three ports, two limits, and as many concurrent slider calls  *)
(* as an instance declares.                                                *)
EXTENDS TemporaryLimits, TLC

Symmetric == Permutations(Sliders) \cup Permutations(Values)
==============================================================================
