SPECIFICATION FairSpec
CONSTANTS
  None = None
  Unreadable = Unreadable
  Infinite = Infinite
  NaN = NaN
  Recordings <- MCTies
  Interval = 4
  FirstInstant = 0
  Offset <- MCOffset
  SuppliedIntervals <- MCSuppliedIntervals
  EditedStamps <- MCEditedStamps
  MaxEdits = 0
INVARIANT
  TieIsNotRefused
CHECK_DEADLOCK FALSE
