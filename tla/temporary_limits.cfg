SPECIFICATION Spec
CONSTANTS
  NumPorts = 2
  Values = {low, high}
  Sliders = {slider1, slider2}
  Controller = controller
  Refresh = refresh
  None = none
  RestartsAllowed = TRUE
SYMMETRY Symmetric
INVARIANTS TypeOK LatestWriterWins EffectiveLimitIsTrue
PROPERTIES AutomaticStartsFromAgreement PartialFailureStaysUncertain
