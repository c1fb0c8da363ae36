SPECIFICATION FairSpec
CONSTANTS
  None = None
  Unreadable = Unreadable
  Infinite = Infinite
  NaN = NaN
  Recordings <- MCRecordings
  Interval = 4
  FirstInstant = 0
  Offset <- MCOffset
  SuppliedIntervals <- MCSuppliedIntervals
  EditedStamps <- MCEditedStamps
  MaxEdits = 2
INVARIANTS
  ParseIsAligned
  NoSampleLost
  LossOnlyAtTheEnds
  SeriesIsFaithful
  UntouchedIsAccepted
  TransitionIsRefused
PROPERTIES
  InspectEnds
  ImplementsCustody
CHECK_DEADLOCK FALSE
