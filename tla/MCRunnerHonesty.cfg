SPECIFICATION FairRunnerSpec
CONSTANTS
  CheckIds <- MCCheckIds
  Capabilities <- MCCapabilities
  Requirements <- MCRequirements
  SnakeNames <- MCSnakeNames
  BoundScale = 100
  Declarations <- MCDeclarations
  Verdicts <- MCVerdicts
  MaxCalls = 1
INVARIANT
  ConsumersInheritInconclusive
CHECK_DEADLOCK FALSE
