SPECIFICATION Spec
CONSTANTS
  None = None
  Extractions <- MCBlankCell
  Supplies <- MCSupplies
  Truth <- MCTruth
  SensorDocuments <- MCSensorDocuments
  Packaged <- MCPackaged
  KnownLabels = {"PDT", "PST"}
  FittingIntervals = {600, 300}
INVARIANT
  BlankFieldsAreAskedFor
CHECK_DEADLOCK FALSE
