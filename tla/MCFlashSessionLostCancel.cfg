SPECIFICATION FairSpec
CONSTANTS
  LateYes = FALSE
  MaxSessions = 0
PROPERTIES
  CancelEnds
CHECK_DEADLOCK FALSE
