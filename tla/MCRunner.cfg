SPECIFICATION FairRunnerSpec
CONSTANTS
  CheckIds <- MCCheckIds
  Capabilities <- MCCapabilities
  Requirements <- MCRequirements
  SnakeNames <- MCSnakeNames
  BoundScale = 100
  Declarations <- MCDeclarations
  Verdicts <- MCVerdicts
  MaxCalls = 2
INVARIANTS
  RunnerTypeOK
  ProvidersAreExact
  ProvidersFirst
  SilentLookupSucceeds
  NothingGated
  HandedWhatWasDeclared
  WithheldPropagates
  OrderIsLeast
  RefusalsAreReal
PROPERTIES
  RegistrationIsPermanent
  CallEnds
  ImplementsCheckRun
CHECK_DEADLOCK FALSE
