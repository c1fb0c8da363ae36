SPECIFICATION Spec
CONSTANTS
  None = None
  Extractions <- MCExtractions
  Supplies <- MCSupplies
  Truth <- MCTruth
  SensorDocuments <- MCSensorDocuments
  Packaged <- MCPackaged
  KnownLabels = {"PDT", "PST"}
  FittingIntervals = {600, 300}
INVARIANT
  UnitsAreCited
CHECK_DEADLOCK FALSE
