SPECIFICATION Spec
CONSTANTS
  RateScale = 4
  GrossFactor = 2
  Alpha = 1
  AlphaScale = 100
  PrdControls = {"flatline", "ramp"}
  ControlMappings <- MCControlMappings
  Factors <- MCFactors
  Fractions <- MCFractions
  Realisations <- MCRealisations
  BatterySamples = 10
  Checks <- MCChecks
INVARIANTS
  CertifiedIsConformant
  RefusedForCause
  EveryDrawIsItsOwn
  FullTierIsExact
PROPERTIES
  ImplementsCertificate
CHECK_DEADLOCK FALSE
