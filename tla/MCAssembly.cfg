SPECIFICATION FairSpec
CONSTANTS
  None = None
  Extractions <- MCExtractions
  Supplies <- MCSupplies
  Truth <- MCTruth
  SensorDocuments <- MCSensorDocuments
  Packaged <- MCPackaged
  KnownLabels = {"PDT", "PST"}
  FittingIntervals = {600, 300}
INVARIANTS
  ProvenanceIsExact
  OutstandingSuffices
  UnitsAreTheProducts
PROPERTIES
  DiligenceIsRewarded
CHECK_DEADLOCK FALSE
