SPECIFICATION FairSpec
CONSTANTS
  NChunks = 7
  QueueMax = 4
  Faults <- AllFaults
INVARIANTS
  TypeOK
  FaithfulCopy
  NoSilentFailure
  CancelStopsWrites
PROPERTIES
  Termination
  KeepsPromise
