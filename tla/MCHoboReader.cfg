SPECIFICATION Spec
CONSTANTS
  None = None
  Empty = Empty
  EmptyText = EmptyText
  Marker = Marker
  OtherText = OtherText
  SampleNumber = SampleNumber
  Exports <- MCExports
  TrueUnit = "F"
  TrueZone = "PDT"
  UNIT_SYMBOLS <- MCUnits
  EventTypes <- MCEventTypes
  MaxEdits = 2
INVARIANTS
  EntriesAreUnderTheirHeading
  OneWrongStatementIsRefused
  StatisticsAreWhole
  FieldsAreWhatWasWritten
  NamedMarksAreRead
  WellFormedIsRead
CHECK_DEADLOCK FALSE
