SPECIFICATION Spec
CONSTANTS
  RateScale = 4
  GrossFactor = 2
  Alpha = 1
  AlphaScale = 100
  PrdControls = {"flatline", "ramp"}
  ControlMappings <- MCControlMappings
  Factors <- MCFactors
  Fractions <- MCFractions
  Realisations <- MCRealisations
  BatterySamples = 10
  Checks <- MCChecks
INVARIANT
  ControlsAreDecided
CHECK_DEADLOCK FALSE
