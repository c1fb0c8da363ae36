SPECIFICATION FairSpec
CONSTANTS
  None = None
  Unreadable = Unreadable
  Infinite = Infinite
  NaN = NaN
  Recordings <- MCSpring
  Interval = 4
  FirstInstant = 0
  Offset <- MCOffset
  SuppliedIntervals <- MCSuppliedIntervals
  EditedStamps <- MCEditedStamps
  MaxEdits = 0
INVARIANT
  TransitionIsRefused
CHECK_DEADLOCK FALSE
