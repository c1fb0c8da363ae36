SPECIFICATION FairSpec
CONSTANTS
  None = None
  Absent = Absent
  Damaged = Damaged
  Directory = Directory
  Regexes <- MCRegexes
  Suffix <- MCSuffix
  Packaged <- MCPackaged
  Situations <- MCSituations
  Kinds <- MCKinds
  MaxChanges = 1
INVARIANTS
  GateIsNeverSkipped
  CompleteSourcesAreRead
  PointedFileIsRead
  SlipsCostOnlyLogAndNumbering
PROPERTIES
  CommandEnds
CHECK_DEADLOCK FALSE
