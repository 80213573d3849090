SPECIFICATION FairSpec
CONSTANTS
  LateYes = FALSE
  MaxSessions = 1
INVARIANTS
  TypeOK FlashedChecked CompletedBoots QuitWaits
PROPERTIES
  CancelSticks Settles
CHECK_DEADLOCK FALSE
